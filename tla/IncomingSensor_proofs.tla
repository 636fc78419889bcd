------------------------- MODULE IncomingSensor_proofs -------------------------
(***************************************************************************)
(* What becomes of the files, for any number of names, versions and runs,  *)
(* and however drops, sensor evaluations, runs and deaths interleave.      *)
(***************************************************************************)
EXTENDS IncomingSensor, FiniteSetTheorems, TLAPS

LEMMA Constants == Files \in Nat /\ Files > 0 /\ MaxDrops \in Nat /\ MaxRuns \in Nat
BY SensorAssumption

LEMMA TargetsArePlaces == \A n \in Names, i \in Suffixes : Target[<<n, i>>] \in Places
<1> SUFFICES ASSUME NEW n \in Names, NEW i \in Suffixes PROVE Target[<<n, i>>] \in Places
  OBVIOUS
<1>1. <<n, i>> \in Names \X Suffixes
  OBVIOUS
<1> QED BY <1>1 DEF Places

-----------------------------------------------------------------------------
(* Types *)

LEMMA InitType == Init => TypeOK
<1> SUFFICES ASSUME Init PROVE TypeOK
  OBVIOUS
<1> USE Constants DEF Init
<1>1. Empty \in [Names -> 0 .. MaxDrops]
  BY DEF Empty, Absent
<1>2. 0 \in Suffixes /\ 0 \in 0 .. MaxDrops /\ 1 \in Names /\ 0 \in 0 .. Files
  BY DEF Suffixes, Names
<1>3. Target[<<1, 0>>] \in Places
  BY <1>2, TargetsArePlaces
<1> QED BY <1>1, <1>2, <1>3 DEF TypeOK, Absent

(* What Drop(n) does with the version it picks. *)
DroppedAs(n, v) ==
  /\ v = drops' \/ owner[v] = n
  /\ incoming' = [incoming EXCEPT ![n] = v]
  /\ owner' = [owner EXCEPT ![v] = n]
  /\ puts' = [puts EXCEPT ![v] = @ + 1]
  /\ early' = IF Running(n) THEN early \cup {v} ELSE early
  /\ rewritten' = (rewritten \cup {incoming[n]}) \ {Absent, v}

LEMMA DropPicks ==
  ASSUME TypeOK, NEW n \in Names, Drop(n)
  PROVE  /\ drops \in Nat /\ drops' = drops + 1 /\ drops' \in Versions
         /\ \E v \in Versions : DroppedAs(n, v)
<1>1. drops \in Nat /\ drops' = drops + 1 /\ drops' \in Versions
  BY Constants DEF Drop, TypeOK, Versions
<1> QED BY <1>1 DEF Drop, DroppedAs

LEMMA LaunchType ==
  ASSUME TypeOK, NEW n \in Names, Launch(n)
  PROVE  /\ pc' \in [Runs -> Live \cup {"free", "done", "skipped", "failed", "died"}]
         /\ file' \in [Runs -> Names]
         /\ together' \in BOOLEAN
BY DEF Launch, Goto, TypeOK, Live, Running

LEMMA TypeStep == TypeOK /\ [Next]_vars => TypeOK'
<1> SUFFICES ASSUME TypeOK, [Next]_vars PROVE TypeOK'
  OBVIOUS
<1> USE Constants
<1>1. ASSUME NEW n \in Names, Drop(n) PROVE TypeOK'
  <2>1. drops' \in Versions /\ drops' \in 0 .. MaxDrops
    BY <1>1 DEF Drop, TypeOK, Versions
  <2>2. PICK v \in Versions : DroppedAs(n, v)
    BY <1>1, <2>1 DEF Drop, DroppedAs
  <2>3. v \in 0 .. MaxDrops /\ n \in 0 .. Files
    BY DEF Versions, Names
  <2>4. incoming[n] \in Versions \cup {Absent}
    BY DEF TypeOK, Versions, Absent
  <2>5. incoming' \in [Names -> 0 .. MaxDrops] /\ owner' \in [Versions -> 0 .. Files]
    BY <2>2, <2>3 DEF DroppedAs, TypeOK
  <2>6. puts' \in [Versions -> Nat]
    BY <2>2 DEF DroppedAs, TypeOK
  <2>7. early' \subseteq Versions /\ rewritten' \subseteq Versions
    BY <2>2, <2>4 DEF DroppedAs, TypeOK
  <2>8. UNCHANGED <<processed, rows, cursor, keys, pc, file, dest, together, clash>>
    BY <1>1 DEF Drop
  <2> QED BY <2>1, <2>5, <2>6, <2>7, <2>8 DEF TypeOK
<1>2. CASE Tick
  <2>1. CASE incoming \in keys
    BY <1>2, <2>1 DEF Tick, TypeOK, dropped
  <2>2. CASE incoming \notin keys
    <3>1. PICK n \in Names : Launch(n)
      BY <1>2, <2>2 DEF Tick
    <3> QED BY <1>2, <2>2, <3>1, LaunchType DEF Tick, TypeOK, dropped
  <2> QED BY <2>1, <2>2
<1>3. ASSUME NEW r \in Runs, Read(r) PROVE TypeOK'
  BY <1>3 DEF Read, Goto, TypeOK, Live, history, dropped
<1>4. ASSUME NEW r \in Runs, Ingest(r) PROVE TypeOK'
  <2> USE <1>4 DEF Ingest, history, dropped
  <2>1. pc' \in [Runs -> Live \cup {"free", "done", "skipped", "failed", "died"}]
    BY DEF Goto, TypeOK, Live
  <2>2. rows' \in [Versions -> Nat]
    BY DEF TypeOK
  <2> QED BY <2>1, <2>2 DEF TypeOK
<1>5. ASSUME NEW r \in Runs, Choose(r) PROVE TypeOK'
  <2>1. file[r] \in Names
    BY DEF TypeOK
  <2>2. dest' \in [Runs -> Places]
    BY <1>5, <2>1, TargetsArePlaces DEF Choose, TypeOK
  <2>3. pc' \in [Runs -> Live \cup {"free", "done", "skipped", "failed", "died"}]
    BY <1>5 DEF Choose, Goto, TypeOK, Live
  <2>4. clash' \in BOOLEAN
    BY <1>5 DEF Choose, TypeOK
  <2> QED BY <1>5, <2>2, <2>3, <2>4 DEF Choose, TypeOK, dropped
<1>6. ASSUME NEW r \in Runs, Move(r) PROVE TypeOK'
  <2> USE <1>6 DEF Move, history, dropped
  <2>1. pc' \in [Runs -> Live \cup {"free", "done", "skipped", "failed", "died"}]
    <3>1. CASE incoming[file[r]] = Absent
      BY <3>1 DEF Goto, TypeOK, Live
    <3>2. CASE incoming[file[r]] # Absent
      BY <3>2 DEF Goto, TypeOK, Live
    <3> QED BY <3>1, <3>2
  <2>2. incoming' \in [Names -> 0 .. MaxDrops]
    BY DEF TypeOK, Absent
  <2>3. processed' \in [Places -> 0 .. MaxDrops]
    <3>1. file[r] \in Names /\ dest[r] \in Places
      BY DEF TypeOK
    <3>2. incoming[file[r]] \in 0 .. MaxDrops
      BY <3>1 DEF TypeOK
    <3> QED BY <3>1, <3>2 DEF TypeOK
  <2> QED BY <2>1, <2>2, <2>3 DEF TypeOK
<1>7. ASSUME NEW r \in Runs, Dies(r) PROVE TypeOK'
  BY <1>7 DEF Dies, Goto, TypeOK, Live, history, dropped
<1>8. CASE UNCHANGED vars
  BY <1>8 DEF vars, history, dropped, TypeOK
<1> QED BY <1>1, <1>2, <1>3, <1>4, <1>5, <1>6, <1>7, <1>8 DEF Next, Step

LEMMA TypeAlways == Spec => []TypeOK
BY InitType, TypeStep, PTL DEF Spec

(***************************************************************************)
(* No step leaves the directories, the cursor or the runs in a state that  *)
(* the variables' types exclude; in particular a free destination exists   *)
(* whenever a run looks for one.                                           *)
(***************************************************************************)
THEOREM TypeCorrect == Spec => []TypeOK
BY TypeAlways, PTL

-----------------------------------------------------------------------------
(***************************************************************************)
(* What is in the processed directory is in the database: a run that is    *)
(* past the ingestion finds the version it ingested, or one that arrived   *)
(* while it was going.                                                     *)
(***************************************************************************)
Backed ==
  \A r \in Runs : pc[r] \in {"choose", "move"} =>
    LET v == incoming[file[r]] IN v = Absent \/ v \in early \/ rows[v] > 0

ArchiveInv == Backed /\ ArchivedWasIngested

LEMMA ArchiveStep == TypeOK /\ TypeOK' /\ ArchiveInv /\ [Next]_vars => ArchiveInv'
<1> SUFFICES ASSUME TypeOK, TypeOK', ArchiveInv, [Next]_vars PROVE ArchiveInv'
  OBVIOUS
<1> USE Constants DEF ArchiveInv
<1>1. ASSUME NEW n \in Names, Drop(n) PROVE ArchiveInv'
  <2>1. PICK v \in Versions : DroppedAs(n, v)
    BY <1>1, DropPicks
  <2>2. UNCHANGED <<processed, rows, pc, file>> /\ early \subseteq early'
    BY <1>1, <2>1 DEF Drop, DroppedAs
  <2>3. Backed'
    <3> SUFFICES ASSUME NEW r \in Runs, pc'[r] \in {"choose", "move"}
                 PROVE  LET w == incoming'[file'[r]] IN w = Absent \/ w \in early' \/ rows'[w] > 0
      BY DEF Backed
    <3>1. CASE file[r] = n
      <4>1. Running(n)
        BY <2>2, <3>1 DEF Running, Live
      <4>2. incoming'[file'[r]] = v /\ v \in early'
        BY <2>1, <2>2, <3>1, <4>1 DEF DroppedAs, TypeOK
      <4> QED BY <4>2
    <3>2. CASE file[r] # n
      <4>1. incoming'[file'[r]] = incoming[file[r]]
        BY <2>1, <2>2, <3>2 DEF DroppedAs, TypeOK
      <4> QED BY <2>2, <4>1 DEF Backed
    <3> QED BY <3>1, <3>2
  <2>4. ArchivedWasIngested'
    BY <2>2 DEF ArchivedWasIngested, Archived
  <2> QED BY <2>3, <2>4
<1>2. CASE Tick
  <2>1. \A r \in Runs : pc'[r] \in {"choose", "move"} => pc[r] = pc'[r] /\ file'[r] = file[r]
    <3>1. CASE incoming \in keys
      BY <1>2, <3>1 DEF Tick
    <3>2. CASE incoming \notin keys
      <4>1. PICK n \in Names : Launch(n)
        BY <1>2, <3>2 DEF Tick
      <4> QED BY <4>1 DEF Launch, Goto, TypeOK
    <3> QED BY <3>1, <3>2
  <2>2. UNCHANGED <<incoming, processed, rows, early>>
    BY <1>2 DEF Tick
  <2> QED BY <2>1, <2>2 DEF Backed, ArchivedWasIngested, Archived
<1>3. ASSUME NEW r \in Runs, Read(r) \/ Dies(r) \/ Choose(r) PROVE ArchiveInv'
  <2>1. \A q \in Runs : pc'[q] \in {"choose", "move"} => pc[q] \in {"choose", "move"}
    BY <1>3 DEF Read, Dies, Choose, Goto, TypeOK
  <2>2. UNCHANGED <<incoming, processed, rows, file, early>>
    BY <1>3 DEF Read, Dies, Choose, history
  <2> QED BY <2>1, <2>2 DEF Backed, ArchivedWasIngested, Archived
<1>4. ASSUME NEW r \in Runs, Ingest(r) PROVE ArchiveInv'
  <2>1. /\ \A q \in Runs : pc'[q] \in {"choose", "move"} =>
             \/ pc[q] \in {"choose", "move"}
             \/ rows'[incoming[file[q]]] > 0
        /\ \A v \in Versions : rows'[v] >= rows[v]
    <3>1. CASE rows' = rows /\ (Goto(r, "done") \/ Goto(r, "skipped"))
      BY <3>1 DEF TypeOK, Goto
    <3>2. CASE /\ incoming[file[r]] # Absent /\ Goto(r, "choose")
               /\ rows' = [rows EXCEPT ![incoming[file[r]]] = @ + 1]
      <4>1. incoming[file[r]] \in Versions
        BY <3>2 DEF TypeOK, Absent, Versions
      <4>2. /\ rows'[incoming[file[r]]] = rows[incoming[file[r]]] + 1
            /\ \A v \in Versions : v # incoming[file[r]] => rows'[v] = rows[v]
            /\ rows \in [Versions -> Nat]
        BY <3>2, <4>1 DEF TypeOK
      <4>3. \A q \in Runs : q # r => pc'[q] = pc[q]
        BY <3>2 DEF TypeOK, Goto
      <4>4. \A v \in Versions : rows'[v] >= rows[v]
        BY <4>2
      <4>5. rows'[incoming[file[r]]] > 0
        BY <4>1, <4>2
      <4> QED BY <4>3, <4>4, <4>5
    <3> QED BY <1>4, <3>1, <3>2 DEF Ingest
  <2>2. UNCHANGED <<incoming, processed, file, early>>
    BY <1>4 DEF Ingest, history
  <2>3. \A q \in Runs : incoming[file[q]] # Absent => incoming[file[q]] \in Versions
    BY DEF TypeOK, Versions, Absent
  <2>4. rows \in [Versions -> Nat] /\ rows' \in [Versions -> Nat]
    BY DEF TypeOK
  <2>5. Backed'
    BY <2>1, <2>2, <2>3, <2>4 DEF Backed
  <2>6. ArchivedWasIngested'
    BY <2>1, <2>2, <2>4 DEF ArchivedWasIngested, Archived
  <2> QED BY <2>5, <2>6
<1>5. ASSUME NEW r \in Runs, Move(r) PROVE ArchiveInv'
  <2>1. \A q \in Runs : pc'[q] \in {"choose", "move"} => pc[q] \in {"choose", "move"}
    BY <1>5 DEF Move, Goto, TypeOK
  <2>2. UNCHANGED <<rows, file, early>> /\ pc[r] = "move"
    BY <1>5 DEF Move, history
  <2>3. \A n \in Names : incoming'[n] \in {incoming[n], Absent}
    BY <1>5 DEF Move, TypeOK
  <2>4. \A p \in Places : processed'[p] \in {processed[p], incoming[file[r]]}
    BY <1>5 DEF Move, TypeOK
  <2>5. Backed'
    BY <2>1, <2>2, <2>3 DEF Backed, TypeOK
  <2>6. ArchivedWasIngested'
    BY <2>2, <2>4 DEF Backed, ArchivedWasIngested, Archived, Versions, Absent
  <2> QED BY <2>5, <2>6
<1>6. CASE UNCHANGED vars
  BY <1>6 DEF vars, history, Backed, ArchivedWasIngested, Archived
<1> QED BY <1>1, <1>2, <1>3, <1>4, <1>5, <1>6 DEF Next, Step

(***************************************************************************)
(* A file is moved to the processed directory only after its ingestion,    *)
(* for any number of files, versions and runs and in any interleaving.     *)
(***************************************************************************)
THEOREM ArchiveIsIngested == Spec => []ArchivedWasIngested
<1>1. Init => ArchiveInv
  BY DEF Init, ArchiveInv, Backed, ArchivedWasIngested, Archived, Versions, Absent
<1>2. ArchiveInv => ArchivedWasIngested
  BY DEF ArchiveInv
<1> QED BY <1>1, <1>2, TypeAlways, ArchiveStep, PTL DEF Spec

-----------------------------------------------------------------------------
(***************************************************************************)
(* What both remaining invariants rest on: every version that is anywhere  *)
(* was dropped, and under one name only.                                   *)
(***************************************************************************)
Known ==
  /\ \A n \in Names : incoming[n] # Absent => owner[incoming[n]] = n
  /\ \A p \in Places : processed[p] # Absent => puts[processed[p]] > 0
  /\ \A v \in Versions : owner[v] # 0 <=> puts[v] > 0
  /\ \A v \in Versions : v > drops => owner[v] = 0
  /\ \A v \in Versions : rows[v] > 0 => owner[v] # 0

LEMMA KnownIsDistinct ==
  Known => \A m, n \in Names : incoming[m] = incoming[n] /\ incoming[m] # Absent => m = n
BY DEF Known

LEMMA KnownStep == TypeOK /\ TypeOK' /\ Known /\ [Next]_vars => Known'
<1> SUFFICES ASSUME TypeOK, TypeOK', Known, [Next]_vars PROVE Known'
  OBVIOUS
<1> USE Constants
<1>0. \A n \in Names : incoming[n] # Absent => incoming[n] \in Versions
  BY DEF TypeOK, Versions, Absent
<1>1. ASSUME NEW n \in Names, Drop(n) PROVE Known'
  <2>1. PICK v \in Versions : DroppedAs(n, v)
    BY <1>1, DropPicks
  <2>2. /\ owner'[v] = n /\ \A w \in Versions : w # v => owner'[w] = owner[w]
        /\ owner[v] = n \/ owner[v] = 0
        /\ puts'[v] = puts[v] + 1 /\ \A w \in Versions : w # v => puts'[w] = puts[w]
        /\ incoming'[n] = v /\ \A m \in Names : m # n => incoming'[m] = incoming[m]
    <3>1. drops \in Nat /\ drops' = drops + 1
      BY <1>1, DropPicks
    <3>2. owner[v] = n \/ owner[v] = 0
      BY <2>1, <3>1 DEF DroppedAs, Known
    <3> QED BY <2>1, <3>2 DEF DroppedAs, TypeOK
  <2>3. UNCHANGED <<processed, rows>> /\ drops' = drops + 1 /\ drops \in Nat
    BY <1>1, DropPicks DEF Drop
  <2>4. n # 0 /\ puts \in [Versions -> Nat] /\ Versions \subseteq Nat
    BY DEF Names, TypeOK, Versions
  <2>5. \A m \in Names : incoming'[m] # Absent => owner'[incoming'[m]] = m
    <3> SUFFICES ASSUME NEW m \in Names, m # n, incoming[m] # Absent PROVE owner'[incoming[m]] = m
      BY <2>2
    <3>1. owner[incoming[m]] = m /\ m # 0
      BY DEF Known, Names
    <3>2. incoming[m] # v
      BY <2>2, <3>1
    <3> QED BY <1>0, <2>2, <3>1, <3>2
  <2>6. \A p \in Places : processed'[p] # Absent => puts'[processed'[p]] > 0
    <3> SUFFICES ASSUME NEW p \in Places, processed[p] # Absent PROVE puts'[processed[p]] > 0
      BY <2>3
    <3>1. processed[p] \in Versions
      BY DEF TypeOK, Versions, Absent
    <3>2. puts[processed[p]] > 0
      BY DEF Known
    <3>3. CASE processed[p] = v
      <4>1. puts[v] \in Nat /\ puts'[v] = puts[v] + 1
        BY <2>2, <2>4
      <4> QED BY <3>2, <3>3, <4>1
    <3>4. CASE processed[p] # v
      BY <2>2, <3>1, <3>2, <3>4
    <3> QED BY <3>3, <3>4
  <2>7. \A w \in Versions : owner'[w] # 0 <=> puts'[w] > 0
    BY <2>2, <2>4 DEF Known
  <2>8. \A w \in Versions : w > drops' => owner'[w] = 0
    <3> SUFFICES ASSUME NEW w \in Versions, w > drops' PROVE owner'[w] = 0
      OBVIOUS
    <3>1. w > drops /\ w # drops'
      BY <2>3, <2>4
    <3>2. owner[w] = 0
      BY <3>1 DEF Known
    <3>3. w # v
      BY <2>1, <2>4, <3>1, <3>2 DEF DroppedAs
    <3> QED BY <2>2, <3>2, <3>3
  <2>9. \A w \in Versions : rows'[w] > 0 => owner'[w] # 0
    BY <2>2, <2>3, <2>4 DEF Known
  <2> QED BY <2>5, <2>6, <2>7, <2>8, <2>9 DEF Known
<1>2. CASE Tick
  BY <1>2 DEF Tick, Known, dropped
<1>3. ASSUME NEW r \in Runs, Read(r) \/ Dies(r) \/ Choose(r) PROVE Known'
  BY <1>3 DEF Read, Dies, Choose, Known, dropped, history
<1>4. ASSUME NEW r \in Runs, Ingest(r) PROVE Known'
  <2>1. UNCHANGED <<incoming, processed, dropped, puts>>
    BY <1>4 DEF Ingest, history
  <2>2. \A v \in Versions : rows'[v] > 0 => owner[v] # 0
    <3>1. file[r] \in Names /\ file[r] # 0
      BY DEF TypeOK, Names
    <3>2. CASE rows' = rows
      BY <3>2 DEF Known
    <3>3. CASE incoming[file[r]] # Absent /\ rows' = [rows EXCEPT ![incoming[file[r]]] = @ + 1]
      <4>1. owner[incoming[file[r]]] # 0
        BY <3>1, <3>3 DEF Known
      <4> QED BY <3>3, <4>1 DEF Known, TypeOK
    <3> QED BY <1>4, <3>2, <3>3 DEF Ingest
  <2> QED BY <2>1, <2>2 DEF Known, dropped
<1>5. ASSUME NEW r \in Runs, Move(r) PROVE Known'
  <2>1. UNCHANGED <<dropped, rows, puts>> /\ file[r] \in Names
    BY <1>5 DEF Move, TypeOK, history
  <2>2. \A n \in Names : incoming'[n] \in {incoming[n], Absent}
    BY <1>5 DEF Move, TypeOK
  <2>3. \A p \in Places : processed'[p] \in {processed[p], incoming[file[r]]}
    BY <1>5 DEF Move, TypeOK
  <2>4. incoming[file[r]] # Absent => puts[incoming[file[r]]] > 0
    <3> SUFFICES ASSUME incoming[file[r]] # Absent PROVE puts[incoming[file[r]]] > 0
      OBVIOUS
    <3>1. owner[incoming[file[r]]] # 0
      BY <2>1 DEF Known, Names
    <3> QED BY <1>0, <2>1, <3>1 DEF Known
  <2>5. \A n \in Names : incoming'[n] # Absent => owner[incoming'[n]] = n
    BY <2>2 DEF Known
  <2>6. \A p \in Places : processed'[p] # Absent => puts[processed'[p]] > 0
    BY <2>3, <2>4 DEF Known
  <2> QED BY <2>1, <2>5, <2>6 DEF Known, dropped
<1>6. CASE UNCHANGED vars
  BY <1>6 DEF vars, Known, dropped, history
<1> QED BY <1>1, <1>2, <1>3, <1>4, <1>5, <1>6 DEF Next, Step

LEMMA KnownAlways == Spec => []Known
<1>1. Init => Known
  BY Constants DEF Init, Known, Empty, Absent
<1> QED BY <1>1, TypeAlways, KnownStep, PTL DEF Spec

-----------------------------------------------------------------------------
(***************************************************************************)
(* No file is lost: the destination of a run about to move its file is     *)
(* still free, so that the move replaces nothing, and is no destination of *)
(* a run for another name.                                                 *)
(***************************************************************************)
Moving(r) == pc[r] = "move"

Free ==
  early = {} /\ ~clash =>
    \A r \in Runs : Moving(r) /\ incoming[file[r]] # Absent => processed[dest[r]] = Absent

Apart ==
  ~clash =>
    \A q, r \in Runs : Moving(q) /\ Moving(r) /\ file[q] # file[r] => dest[q] # dest[r]

LossInv == Free /\ Apart /\ NothingLost

LEMMA LossStep == TypeOK /\ TypeOK' /\ Known /\ LossInv /\ [Next]_vars => LossInv'
<1> SUFFICES ASSUME TypeOK, TypeOK', Known, LossInv, [Next]_vars, ~clash' PROVE LossInv'
  BY DEF LossInv, Free, Apart, NothingLost
<1> USE Constants DEF LossInv
<1>1. ASSUME NEW n \in Names, Drop(n) PROVE LossInv'
  <2>1. PICK v \in Versions : DroppedAs(n, v)
    BY <1>1, DropPicks
  <2>2. UNCHANGED <<processed, pc, file, dest, clash>>
    BY <1>1 DEF Drop
  <2>3. /\ incoming'[n] = v /\ \A m \in Names : m # n => incoming'[m] = incoming[m]
        /\ puts'[v] = puts[v] + 1 /\ \A w \in Versions : w # v => puts'[w] = puts[w]
        /\ rewritten' = (rewritten \cup {incoming[n]}) \ {Absent, v}
        /\ puts \in [Versions -> Nat]
    BY <2>1 DEF DroppedAs, TypeOK
  <2>4. early' = {} => early = {} /\ ~Running(n)
    BY <2>1 DEF DroppedAs
  <2>5. Free'
    BY <2>2, <2>3, <2>4 DEF Free, Moving, Running, Live, TypeOK
  <2>6. Apart'
    BY <2>2 DEF Apart, Moving
  <2>7. ASSUME early' = {}, NEW w \in Versions \ rewritten', puts'[w] > 0 PROVE Kept(w)'
    <3>1. CASE w = v
      <4>1. Incoming(w)'
        BY <2>3, <3>1 DEF Incoming
      <4>2. Archived(w)' => puts'[w] > 1
        <5> SUFFICES ASSUME NEW p \in Places, processed[p] = v PROVE puts'[v] > 1
          BY <2>2, <3>1 DEF Archived
        <5>1. v # Absent
          BY DEF Versions, Absent
        <5>2. puts[v] > 0
          BY <5>1 DEF Known
        <5> QED BY <2>3, <5>2
      <4> QED BY <4>1, <4>2 DEF Kept
    <3>2. CASE w # v
      <4>1. w \in Versions \ rewritten /\ w # incoming[n] /\ w # Absent
        BY <2>3, <3>2 DEF Absent, Versions
      <4>2. Incoming(w)' <=> Incoming(w)
        BY <2>3, <3>2, <4>1 DEF Incoming
      <4>3. Archived(w)' <=> Archived(w)
        BY <2>2 DEF Archived
      <4>4. puts'[w] = puts[w]
        BY <2>3, <3>2
      <4>5. Kept(w)
        BY <2>2, <2>4, <2>7, <4>1, <4>4 DEF NothingLost
      <4> QED BY <4>2, <4>3, <4>4, <4>5 DEF Kept
    <3> QED BY <3>1, <3>2
  <2> QED BY <2>5, <2>6, <2>7 DEF NothingLost
<1>2. CASE Tick
  <2>1. \A r \in Runs : pc'[r] = "move" => pc[r] = "move" /\ file'[r] = file[r]
    <3>1. CASE incoming \in keys
      BY <1>2, <3>1 DEF Tick
    <3>2. CASE incoming \notin keys
      <4>1. PICK n \in Names : Launch(n)
        BY <1>2, <3>2 DEF Tick
      <4> QED BY <4>1 DEF Launch, Goto, TypeOK
    <3> QED BY <3>1, <3>2
  <2>2. UNCHANGED <<incoming, processed, dest, puts, early, rewritten, clash>>
    BY <1>2 DEF Tick
  <2>3. NothingLost'
    BY <2>2 DEF NothingLost, Kept, Incoming, Archived
  <2> QED BY <2>1, <2>2, <2>3 DEF Free, Apart, Moving
<1>3. ASSUME NEW r \in Runs, Read(r) \/ Dies(r) \/ Ingest(r) PROVE LossInv'
  <2>1. \A q \in Runs : Moving(q)' => Moving(q)
    BY <1>3 DEF Read, Dies, Ingest, Goto, TypeOK, Moving
  <2>2. UNCHANGED <<incoming, processed, file, dest, puts, early, rewritten, clash>>
    BY <1>3 DEF Read, Dies, Ingest, history
  <2>3. NothingLost'
    BY <2>2 DEF NothingLost, Kept, Incoming, Archived
  <2> QED BY <2>1, <2>2, <2>3 DEF Free, Apart
<1>4. ASSUME NEW r \in Runs, Choose(r) PROVE LossInv'
  <2>1. UNCHANGED <<incoming, processed, file, puts, early, rewritten>>
    BY <1>4 DEF Choose
  <2>2. processed[dest'[r]] = Absent
    BY <1>4 DEF Choose, TypeOK
  <2>3. \A q \in Runs : q # r => pc'[q] = pc[q] /\ dest'[q] = dest[q]
    BY <1>4 DEF Choose, Goto, TypeOK
  <2>4. ~clash /\ \A q \in Runs : Moving(q) /\ file[q] # file[r] => dest[q] # dest'[r]
    BY <1>4 DEF Choose, Moving
  <2>5. Free'
    BY <2>1, <2>2, <2>3, <2>4 DEF Free, Moving
  <2>6. Apart'
    BY <2>1, <2>3, <2>4 DEF Apart, Moving
  <2>7. NothingLost'
    BY <2>1, <2>4 DEF NothingLost, Kept, Incoming, Archived
  <2> QED BY <2>5, <2>6, <2>7
<1>5. ASSUME NEW r \in Runs, Move(r) PROVE LossInv'
  <2>1. UNCHANGED <<file, dest, puts, early, rewritten, clash>> /\ Moving(r)
    BY <1>5 DEF Move, history, Moving
  <2>2. \A q \in Runs : Moving(q)' => q # r /\ Moving(q)
    BY <1>5 DEF Move, Goto, TypeOK, Moving
  <2>3. Apart'
    BY <2>1, <2>2 DEF Apart
  <2>4. CASE incoming[file[r]] = Absent
    <3>1. UNCHANGED <<incoming, processed>>
      BY <1>5, <2>4 DEF Move
    <3>2. NothingLost'
      BY <2>1, <3>1 DEF NothingLost, Kept, Incoming, Archived
    <3> QED BY <2>1, <2>2, <2>3, <3>1, <3>2 DEF Free
  <2>5. CASE incoming[file[r]] # Absent /\ early = {}
    <3> DEFINE moved == incoming[file[r]]
               p == dest[r]
    <3>1. p \in Places /\ processed[p] = Absent /\ moved # Absent /\ file[r] \in Names
      BY <2>1, <2>5 DEF Free, TypeOK
    <3>2. processed' = [processed EXCEPT ![p] = moved] /\ incoming' = [incoming EXCEPT ![file[r]] = Absent]
      BY <1>5, <2>5 DEF Move
    <3>3. Free'
      <4> SUFFICES ASSUME NEW q \in Runs, Moving(q)', incoming'[file[q]] # Absent
                   PROVE  processed'[dest[q]] = Absent
        BY <2>1 DEF Free
      <4>1. file[q] # file[r] /\ file[q] \in Names /\ dest[q] \in Places
        BY <3>2 DEF TypeOK
      <4>2. incoming[file[q]] # Absent /\ Moving(q)
        BY <2>2, <3>2, <4>1 DEF TypeOK
      <4>3. processed[dest[q]] = Absent
        BY <2>1, <2>5, <4>2 DEF Free
      <4>4. dest[q] # p
        BY <2>1, <4>1, <4>2 DEF Apart
      <4> QED BY <3>2, <4>1, <4>3, <4>4 DEF TypeOK
    <3>4. NothingLost'
      <4> SUFFICES ASSUME NEW v \in Versions \ rewritten, puts[v] > 0 PROVE Kept(v)'
        BY <2>1 DEF NothingLost
      <4>1. Kept(v) /\ v # Absent
        BY <2>1, <2>5 DEF NothingLost, Absent, Versions
      <4>2. CASE v = moved
        <5>1. Archived(v)'
          BY <3>1, <3>2, <4>2 DEF Archived, TypeOK
        <5>2. ~Incoming(v)'
          BY <3>1, <3>2, <4>1, <4>2, KnownIsDistinct DEF Incoming, TypeOK
        <5> QED BY <5>1, <5>2 DEF Kept
      <4>3. CASE v # moved
        <5>1. Archived(v)' <=> Archived(v)
          BY <3>1, <3>2, <4>1, <4>3 DEF Archived, TypeOK
        <5>2. Incoming(v)' <=> Incoming(v)
          BY <3>1, <3>2, <4>1, <4>3 DEF Incoming, TypeOK
        <5> QED BY <2>1, <4>1, <5>1, <5>2 DEF Kept
      <4> QED BY <4>2, <4>3
    <3> QED BY <2>3, <3>3, <3>4
  <2>6. CASE early # {}
    BY <2>1, <2>3, <2>6 DEF Free, NothingLost
  <2> QED BY <2>4, <2>5, <2>6
<1>6. CASE UNCHANGED vars
  BY <1>6 DEF vars, history, Free, Apart, Moving, NothingLost, Kept, Incoming, Archived
<1> QED BY <1>1, <1>2, <1>3, <1>4, <1>5, <1>6 DEF Next, Step

(***************************************************************************)
(* A dropped file is in one of the two directories until the user replaces *)
(* it, as long as no two runs choose one destination for two names and     *)
(* nothing arrives under the name of a run: neither a move nor a death     *)
(* loses or doubles one, whatever the destinations' names are.             *)
(***************************************************************************)
THEOREM NoFileIsLost == Spec => []NothingLost
<1>1. Init => LossInv
  BY DEF Init, LossInv, Free, Apart, Moving, NothingLost
<1>2. LossInv => NothingLost
  BY DEF LossInv
<1> QED BY <1>1, <1>2, TypeAlways, KnownAlways, LossStep, PTL DEF Spec

-----------------------------------------------------------------------------
(***************************************************************************)
(* No rows in duplicate: as long as no two runs for a name overlap, each   *)
(* ingestion of a version has its drop or a death, and one that still      *)
(* waits has a drop or a death to spare.                                   *)
(***************************************************************************)
Dead == {r \in Runs : pc[r] = "died"}
Past(n) == \E r \in Runs : pc[r] \in {"choose", "move"} /\ file[r] = n
Waits(v) == \E n \in Names : incoming[n] = v /\ ~Past(n)

Alone ==
  ~together =>
    \A q, r \in Runs : pc[q] \in Live /\ pc[r] \in Live /\ file[q] = file[r] => q = r

Paid ==
  ~together =>
    \A v \in Versions : /\ rows[v] <= puts[v] + Cardinality(Dead)
                        /\ Waits(v) => rows[v] < puts[v] + Cardinality(Dead)

RowsInv == Alone /\ Paid

LEMMA DeathsCount == TypeOK => IsFiniteSet(Dead) /\ Cardinality(Dead) \in Nat
<1>1. IsFiniteSet(Runs)
  BY Constants, FS_Interval DEF Runs
<1>2. IsFiniteSet(Dead)
  BY <1>1, FS_Subset DEF Dead
<1> QED BY <1>2, FS_CardinalityType

LEMMA RowsStep == TypeOK /\ TypeOK' /\ Known /\ RowsInv /\ [Next]_vars => RowsInv'
<1> SUFFICES ASSUME TypeOK, TypeOK', Known, RowsInv, [Next]_vars, ~together' PROVE RowsInv'
  BY DEF RowsInv, Alone, Paid
<1> USE Constants DEF RowsInv
<1>0. /\ Cardinality(Dead) \in Nat
      /\ rows \in [Versions -> Nat] /\ puts \in [Versions -> Nat]
  BY DeathsCount DEF TypeOK
<1>1. ASSUME NEW n \in Names, Drop(n) PROVE RowsInv'
  <2>1. UNCHANGED <<rows, pc, file, together>>
    BY <1>1 DEF Drop
  <2>2. PICK u \in Versions : DroppedAs(n, u)
    BY <1>1, DropPicks
  <2>3. /\ incoming'[n] = u /\ \A m \in Names : m # n => incoming'[m] = incoming[m]
        /\ puts'[u] = puts[u] + 1 /\ \A w \in Versions : w # u => puts'[w] = puts[w]
    BY <1>0, <2>2 DEF DroppedAs, TypeOK
  <2>4. Dead' = Dead /\ \A m \in Names : Past(m)' <=> Past(m)
    BY <2>1 DEF Dead, Past
  <2>5. ASSUME ~together, NEW v \in Versions
        PROVE  /\ rows[v] <= puts'[v] + Cardinality(Dead)
               /\ Waits(v)' => rows[v] < puts'[v] + Cardinality(Dead)
    <3>0. rows[v] \in Nat /\ puts[v] \in Nat /\ rows[v] <= puts[v] + Cardinality(Dead)
      BY <1>0, <2>5 DEF Paid
    <3>1. CASE v = u
      BY <1>0, <2>3, <3>0, <3>1
    <3>2. CASE v # u
      <4>1. Waits(v)' => Waits(v)
        BY <2>3, <2>4, <3>2 DEF Waits
      <4>2. Waits(v) => rows[v] < puts[v] + Cardinality(Dead)
        BY <2>5 DEF Paid
      <4> QED BY <2>3, <3>0, <3>2, <4>1, <4>2
    <3> QED BY <3>1, <3>2
  <2>6. Alone'
    BY <2>1 DEF Alone
  <2>7. Paid'
    BY <2>1, <2>4, <2>5 DEF Paid
  <2> QED BY <2>6, <2>7
<1>2. CASE Tick
  <2>1. UNCHANGED <<incoming, rows, puts>>
    BY <1>2 DEF Tick
  <2>2. CASE incoming \in keys
    BY <1>2, <2>1, <2>2 DEF Tick, Alone, Paid, Dead, Past, Waits
  <2>3. CASE incoming \notin keys
    <3>1. PICK n \in Names : Launch(n)
      BY <1>2, <2>3 DEF Tick
    <3>2. PICK r \in Runs : pc[r] = "free" /\ Goto(r, "read") /\ file' = [file EXCEPT ![r] = n]
      BY <3>1 DEF Launch
    <3>3. ~together /\ ~Running(n)
      BY <3>1 DEF Launch, TypeOK
    <3>4. /\ pc'[r] = "read" /\ file'[r] = n
          /\ \A q \in Runs : q # r => pc'[q] = pc[q] /\ file'[q] = file[q]
      BY <3>2 DEF Goto, TypeOK
    <3>5. Dead' = Dead
      BY <3>2, <3>4 DEF Dead
    <3>6. \A m \in Names : Past(m)' <=> Past(m)
      BY <3>2, <3>4 DEF Past
    <3>7. Alone'
      BY <3>3, <3>4 DEF Alone, Running
    <3>8. Paid'
      BY <2>1, <3>3, <3>5, <3>6 DEF Paid, Waits
    <3> QED BY <3>7, <3>8
  <2> QED BY <2>2, <2>3
<1>3. ASSUME NEW r \in Runs, Read(r) \/ Choose(r) PROVE RowsInv'
  <2>1. UNCHANGED <<incoming, rows, file, together, puts>>
    BY <1>3 DEF Read, Choose, history
  <2>2. /\ \A q \in Runs : (pc'[q] = "died" <=> pc[q] = "died") /\ (pc'[q] \in Live => pc[q] \in Live)
        /\ \A q \in Runs : pc'[q] \in {"choose", "move"} <=> pc[q] \in {"choose", "move"}
    BY <1>3 DEF Read, Choose, Goto, TypeOK, Live
  <2>3. Dead' = Dead /\ \A m \in Names : Past(m)' <=> Past(m)
    BY <2>1, <2>2 DEF Dead, Past
  <2> QED BY <2>1, <2>2, <2>3 DEF Alone, Paid, Waits
<1>4. ASSUME NEW r \in Runs, Ingest(r) PROVE RowsInv'
  <2>1. UNCHANGED <<incoming, file, together, puts>> /\ pc[r] = "ingest" /\ file[r] \in Names
    BY <1>4 DEF Ingest, history, TypeOK
  <2>2. /\ pc'[r] \in {"done", "skipped", "choose"}
        /\ \A q \in Runs : q # r => pc'[q] = pc[q]
    BY <1>4 DEF Ingest, Goto, TypeOK
  <2>3. Dead' = Dead
    BY <2>1, <2>2 DEF Dead
  <2>4. Alone'
    BY <2>1, <2>2 DEF Alone, Live
  <2>5. \A m \in Names : Past(m) => Past(m)'
    BY <2>1, <2>2 DEF Past
  <2>6. CASE rows' = rows
    BY <2>1, <2>3, <2>4, <2>5, <2>6 DEF Paid, Waits
  <2>7. CASE rows' # rows
    <3> DEFINE u == incoming[file[r]]
    <3>1. u # Absent /\ rows' = [rows EXCEPT ![u] = @ + 1] /\ Goto(r, "choose")
      BY <1>4, <2>7 DEF Ingest
    <3>2. u \in Versions
      BY <2>1, <3>1 DEF TypeOK, Versions, Absent
    <3>3. ~Past(file[r])
      BY <2>1 DEF Past, Alone, Live
    <3>4. rows[u] < puts[u] + Cardinality(Dead)
      BY <2>1, <3>2, <3>3 DEF Waits, Paid
    <3>5. Past(file[r])'
      BY <2>1, <3>1 DEF Past, Goto, TypeOK
    <3>6. \A n \in Names : incoming'[n] = u => Past(n)'
      BY <2>1, <3>1, <3>5, KnownIsDistinct
    <3>7. /\ rows'[u] = rows[u] + 1
          /\ \A v \in Versions : v # u => rows'[v] = rows[v]
      BY <1>0, <3>1, <3>2
    <3>8. \A v \in Versions : Waits(v)' => Waits(v)
      BY <2>1, <2>5 DEF Waits
    <3>9. Paid'
      <4> SUFFICES ASSUME NEW v \in Versions
                   PROVE  /\ rows'[v] <= puts[v] + Cardinality(Dead)
                          /\ Waits(v)' => rows'[v] < puts[v] + Cardinality(Dead)
        BY <2>1, <2>3 DEF Paid
      <4>1. CASE v = u
        <5>1. ~Waits(v)'
          BY <3>6, <4>1 DEF Waits
        <5>2. rows[v] \in Nat /\ rows'[v] = rows[v] + 1 /\ rows[v] < puts[v] + Cardinality(Dead)
          BY <1>0, <3>4, <3>7, <4>1
        <5>3. puts[v] \in Nat
          BY <1>0
        <5> QED BY <1>0, <5>1, <5>2, <5>3
      <4>2. CASE v # u
        BY <2>1, <3>7, <3>8, <4>2 DEF Paid
      <4> QED BY <4>1, <4>2
    <3> QED BY <2>4, <3>9
  <2> QED BY <2>6, <2>7
<1>5. ASSUME NEW r \in Runs, Move(r) PROVE RowsInv'
  <2>1. UNCHANGED <<rows, file, together, puts>> /\ pc[r] = "move" /\ file[r] \in Names
    BY <1>5 DEF Move, history, TypeOK
  <2>2. pc'[r] \in {"done", "failed"} /\ \A q \in Runs : q # r => pc'[q] = pc[q]
    BY <1>5 DEF Move, Goto, TypeOK
  <2>3. /\ incoming'[file[r]] = Absent
        /\ \A n \in Names : n # file[r] => incoming'[n] = incoming[n]
    BY <1>5, <2>1 DEF Move, TypeOK
  <2>4. Dead' = Dead /\ \A n \in Names : n # file[r] => (Past(n)' <=> Past(n))
    BY <2>1, <2>2 DEF Dead, Past
  <2>5. \A v \in Versions : Waits(v)' => Waits(v)
    BY <2>3, <2>4 DEF Waits, Versions, Absent
  <2> QED BY <2>1, <2>2, <2>4, <2>5 DEF Alone, Paid, Live
<1>6. ASSUME NEW r \in Runs, Dies(r) PROVE RowsInv'
  <2>1. UNCHANGED <<rows, file, together, puts>> /\ pc[r] # "died"
    BY <1>6 DEF Dies, history, Live
  <2>2. pc'[r] = "died" /\ \A q \in Runs : q # r => pc'[q] = pc[q]
    BY <1>6 DEF Dies, Goto, TypeOK
  <2>3. Dead' = Dead \cup {r} /\ r \notin Dead
    BY <2>1, <2>2 DEF Dead
  <2>4. Cardinality(Dead') = Cardinality(Dead) + 1
    BY <2>3, DeathsCount, FS_AddElement
  <2>5. Alone'
    BY <2>1, <2>2 DEF Alone, Live
  <2>6. Paid'
    <3>1. \A v \in Versions : /\ rows'[v] \in Nat /\ puts'[v] \in Nat
                              /\ rows'[v] <= puts'[v] + Cardinality(Dead)
      BY <1>0, <2>1 DEF Paid
    <3> QED BY <1>0, <2>4, <3>1 DEF Paid
  <2> QED BY <2>5, <2>6
<1>7. CASE UNCHANGED vars
  BY <1>7 DEF vars, history, Alone, Paid, Dead, Past, Waits
<1> QED BY <1>1, <1>2, <1>3, <1>4, <1>5, <1>6, <1>7 DEF Next, Step

(***************************************************************************)
(* A version is ingested at most as often as it was dropped and runs have  *)
(* died, unless two runs for its file overlapped.                          *)
(***************************************************************************)
THEOREM RowsAreBounded == Spec => []IngestedOnce
<1>1. Init => RowsInv
  <2> SUFFICES ASSUME Init PROVE RowsInv
    OBVIOUS
  <2>1. Dead = {}
    BY DEF Init, Dead
  <2>2. Cardinality(Dead) = 0
    BY <2>1, FS_EmptySet
  <2>3. \A v \in Versions : rows[v] = 0 /\ puts[v] = 0 /\ ~Waits(v)
    BY Constants DEF Init, Waits, Empty, Absent, Versions
  <2> QED BY <2>2, <2>3 DEF Init, RowsInv, Alone, Paid, Live
<1>2. RowsInv => IngestedOnce
  BY DEF RowsInv, Paid, Dead, IngestedOnce
<1> QED BY <1>1, <1>2, TypeAlways, KnownAlways, RowsStep, PTL DEF Spec
=============================================================================

---------------------------- MODULE IncomingSensor ----------------------------
(***************************************************************************)
(* The Dagster workdir's pickup of incoming files                          *)
(* (workdirs/dagster/definitions.py): users drop files into the incoming   *)
(* directory, the sensor launches one run for the first of them whenever   *)
(* the directory has changed, and a run ingests its file into the          *)
(* database and moves it to the processed directory.                       *)
(*                                                                         *)
(* Files are identified by their place in the sorted order of the names;   *)
(* a version stands for a file's name, content, size and modification      *)
(* time, which is all the sensor sees of it.                               *)
(***************************************************************************)
EXTENDS Naturals, FiniteSets

CONSTANTS
  Files,        \* number of file names
  Target,       \* [name, counter -> the processed file]: <stem>_<counter><suffix>
  MaxDrops,     \* bound on the files dropped
  MaxRuns       \* bound on the runs: enough for every signature

Names == 1 .. Files
Runs  == 1 .. MaxRuns
Suffixes == 0 .. MaxDrops
Absent == 0   \* no version

(* Counters tell the copies of one file apart; files of two names may meet *)
(* on one destination, as the second a.csv and a_1.csv do.                 *)
ASSUME SensorAssumption ==
  /\ {Files, MaxDrops, MaxRuns} \subseteq Nat /\ Files > 0
  /\ DOMAIN Target = Names \X Suffixes
  /\ \A n \in Names, i, j \in Suffixes : Target[<<n, i>>] = Target[<<n, j>>] => i = j

Places == {Target[p] : p \in Names \X Suffixes}

VARIABLES
  incoming,   \* [Names -> version or Absent]
  processed,  \* [Places -> version or Absent]
  drops,      \* files dropped so far
  owner,      \* [Versions -> the name it was dropped as, or 0]
  rows,       \* how often each version was ingested
  cursor,     \* the sensor's cursor: the directory when it last launched
  keys,       \* the run keys that were requested
  pc,         \* [Runs -> ...]
  file,       \* the name a run is for
  dest,       \* the destination a run has chosen
  puts,       \* history: how often each version was dropped
  early,      \* history: versions dropped while a run for their name was going
  rewritten,  \* history: versions the user wrote over
  together,   \* history: two runs for one name were going at the same time
  clash       \* history: two runs have chosen one destination for two names

dropped == <<drops, owner>>
history == <<puts, early, rewritten, together, clash>>
vars == <<incoming, processed, dropped, rows, cursor, keys, pc, file, dest, history>>

Versions == 1 .. MaxDrops
Empty == [n \in Names |-> Absent]

Live == {"read", "ingest", "choose", "move"}
Running(n) == \E r \in Runs : pc[r] \in Live /\ file[r] = n

Goto(r, to) == pc' = [pc EXCEPT ![r] = to]

-----------------------------------------------------------------------------
(* The user. *)

(* A new file, new content for one that is still there, or a file that was *)
(* there before, put back with its modification time (mv, cp -p).          *)
Drop(n) ==
  /\ drops < MaxDrops
  /\ drops' = drops + 1
  /\ \E v \in {drops'} \cup {w \in Versions : owner[w] = n} :
       /\ incoming' = [incoming EXCEPT ![n] = v]
       /\ owner' = [owner EXCEPT ![v] = n]
       /\ puts' = [puts EXCEPT ![v] = @ + 1]
       /\ early' = IF Running(n) THEN early \cup {v} ELSE early
       /\ rewritten' = (rewritten \cup {incoming[n]}) \ {Absent, v}
  /\ UNCHANGED <<processed, rows, cursor, keys, pc, file, dest, together, clash>>

-----------------------------------------------------------------------------
(***************************************************************************)
(* incoming_files_sensor.  The signature of the directory is the cursor    *)
(* and the run key; Dagster launches no second run for a run key.          *)
(***************************************************************************)
Launch(n) ==
  /\ \E r \in Runs :
       /\ pc[r] = "free" /\ \A q \in Runs : q < r => pc[q] # "free"
       /\ Goto(r, "read")
       /\ file' = [file EXCEPT ![r] = n]
  /\ together' = (together \/ Running(n))

IsFirst(n) == incoming[n] # Absent /\ \A m \in 1 .. n - 1 : incoming[m] = Absent

\* Mutant: the run key is the file's alone.
TickPerFile ==
  /\ incoming # Empty
  /\ incoming # cursor
  /\ cursor' = incoming
  /\ \E n \in Names :
       /\ IsFirst(n)
       /\ LET key == [Empty EXCEPT ![n] = 1]
          IN  IF key \in keys
              THEN UNCHANGED <<keys, pc, file, together>>
              ELSE keys' = keys \cup {key} /\ Launch(n)
  /\ UNCHANGED <<incoming, processed, dropped, rows, dest, puts, early, rewritten, clash>>

Tick ==
  /\ incoming # Empty
  /\ incoming # cursor
  /\ cursor' = incoming
  /\ IF incoming \in keys
     THEN UNCHANGED <<keys, pc, file, together>>
     ELSE /\ keys' = keys \cup {incoming}
          /\ \E n \in Names : IsFirst(n) /\ Launch(n)
  /\ UNCHANGED <<incoming, processed, dropped, rows, dest, puts, early, rewritten, clash>>

-----------------------------------------------------------------------------
(* A run of process_incoming_file_job. *)

(* read_data: without the file there is nothing to process. *)
Read(r) ==
  /\ pc[r] = "read"
  /\ Goto(r, IF incoming[file[r]] = Absent THEN "done" ELSE "ingest")
  /\ UNCHANGED <<incoming, processed, dropped, rows, cursor, keys, file, dest, history>>

\* Mutant: a failed ingestion is logged, and the file is moved all the same.
IngestAnyway(r) ==
  /\ pc[r] = "ingest"
  /\ IF incoming[file[r]] = Absent
     THEN Goto(r, "done") /\ UNCHANGED rows
     ELSE /\ Goto(r, "choose")
          /\ rows' = [rows EXCEPT ![incoming[file[r]]] = @ + 1] \/ UNCHANGED rows
  /\ UNCHANGED <<incoming, processed, dropped, cursor, keys, file, dest, history>>

\* Mutant: what a failing ingestion has inserted stays in the database.
IngestPartly(r) ==
  /\ pc[r] = "ingest"
  /\ IF incoming[file[r]] = Absent
     THEN Goto(r, "done") /\ UNCHANGED rows
     ELSE /\ Goto(r, "choose") \/ Goto(r, "skipped")
          /\ rows' = [rows EXCEPT ![incoming[file[r]]] = @ + 1]
  /\ UNCHANGED <<incoming, processed, dropped, cursor, keys, file, dest, history>>

(***************************************************************************)
(* _move_files, first half: one transaction ingests the file; a failure,   *)
(* of the content or of the database, is logged and the file left where    *)
(* it is.                                                                  *)
(***************************************************************************)
Ingest(r) ==
  /\ pc[r] = "ingest"
  /\ \/ incoming[file[r]] = Absent /\ Goto(r, "done") /\ UNCHANGED rows
     \/ /\ incoming[file[r]] # Absent
        /\ rows' = [rows EXCEPT ![incoming[file[r]]] = @ + 1]
        /\ Goto(r, "choose")
     \/ incoming[file[r]] # Absent /\ Goto(r, "skipped") /\ UNCHANGED rows
  /\ UNCHANGED <<incoming, processed, dropped, cursor, keys, file, dest, history>>

\* Mutant: the destination is always the plain name.
ChoosePlain(r) ==
  /\ pc[r] = "choose"
  /\ dest' = [dest EXCEPT ![r] = Target[<<file[r], 0>>]]
  /\ Goto(r, "move")
  /\ UNCHANGED <<incoming, processed, dropped, rows, cursor, keys, file, history>>

(* Second half: the first destination that does not exist, which another   *)
(* run may have chosen too, ...                                            *)
Choose(r) ==
  /\ pc[r] = "choose"
  /\ \E i \in Suffixes :
       /\ processed[Target[<<file[r], i>>]] = Absent
       /\ \A j \in 0 .. i - 1 : processed[Target[<<file[r], j>>]] # Absent
       /\ dest' = [dest EXCEPT ![r] = Target[<<file[r], i>>]]
  /\ clash' = (clash \/ \E q \in Runs : /\ pc[q] = "move" /\ file[q] # file[r]
                                        /\ dest[q] = dest'[r])
  /\ Goto(r, "move")
  /\ UNCHANGED <<incoming, processed, dropped, rows, cursor, keys, file>>
  /\ UNCHANGED <<puts, early, rewritten, together>>

(* ... and the move, which replaces what is there by now and raises if the *)
(* file is gone.                                                           *)
Move(r) ==
  /\ pc[r] = "move"
  /\ IF incoming[file[r]] = Absent
     THEN Goto(r, "failed") /\ UNCHANGED <<incoming, processed>>
     ELSE /\ processed' = [processed EXCEPT ![dest[r]] = incoming[file[r]]]
          /\ incoming' = [incoming EXCEPT ![file[r]] = Absent]
          /\ Goto(r, "done")
  /\ UNCHANGED <<dropped, rows, cursor, keys, file, dest, history>>

(* The worker dies, or recording the event fails: nothing retries a run.   *)
Dies(r) ==
  /\ pc[r] \in Live
  /\ Goto(r, "died")
  /\ UNCHANGED <<incoming, processed, dropped, rows, cursor, keys, file, dest, history>>

-----------------------------------------------------------------------------
Init ==
  /\ incoming = Empty
  /\ processed = [p \in Places |-> Absent]
  /\ drops = 0 /\ owner = [v \in Versions |-> 0]
  /\ rows = [v \in Versions |-> 0]
  /\ cursor = Empty /\ keys = {}
  /\ pc = [r \in Runs |-> "free"]
  /\ file = [r \in Runs |-> 1] /\ dest = [r \in Runs |-> Target[<<1, 0>>]]
  /\ puts = [v \in Versions |-> 0]
  /\ early = {} /\ rewritten = {} /\ together = FALSE /\ clash = FALSE

Step(r) == Read(r) \/ Ingest(r) \/ Choose(r) \/ Move(r)

Next ==
  \/ \E n \in Names : Drop(n)
  \/ Tick
  \/ \E r \in Runs : Step(r) \/ Dies(r)

(* The sensor goes on evaluating every 30 seconds, and runs go on. *)
Spec == Init /\ [][Next]_vars /\ WF_vars(Tick) /\ \A r \in Runs : WF_vars(Step(r))

-----------------------------------------------------------------------------
TypeOK ==
  /\ incoming \in [Names -> 0 .. MaxDrops]
  /\ processed \in [Places -> 0 .. MaxDrops]
  /\ drops \in 0 .. MaxDrops
  /\ owner \in [Versions -> 0 .. Files]
  /\ rows \in [Versions -> Nat]
  /\ cursor \in keys \cup {Empty}
  /\ keys \subseteq [Names -> 0 .. MaxDrops]
  /\ pc \in [Runs -> Live \cup {"free", "done", "skipped", "failed", "died"}]
  /\ file \in [Runs -> Names]
  /\ dest \in [Runs -> Places]
  /\ puts \in [Versions -> Nat]
  /\ early \subseteq Versions /\ rewritten \subseteq Versions
  /\ together \in BOOLEAN /\ clash \in BOOLEAN

Incoming(v) == \E n \in Names : incoming[n] = v
Archived(v) == \E p \in Places : processed[p] = v

(***************************************************************************)
(* The database has no rows in duplicate: a version is ingested as often   *)
(* as it was dropped, and again only because the run that ingested it died *)
(* before it had moved the file, or because two runs for the file were     *)
(* going at the same time.                                                 *)
(***************************************************************************)
IngestedOnce ==
  \A v \in Versions :
    rows[v] <= puts[v] + Cardinality({r \in Runs : pc[r] = "died"}) \/ together

(***************************************************************************)
(* "Picked up n file(s) ... after ingesting": what is in the processed     *)
(* directory is in the database, unless the user put it in the place of    *)
(* the file while a run for it was going.                                  *)
(***************************************************************************)
ArchivedWasIngested == \A v \in Versions \ early : Archived(v) => rows[v] > 0

Kept(v) ==
  /\ Incoming(v) \/ Archived(v)
  /\ Incoming(v) /\ Archived(v) => puts[v] > 1

(***************************************************************************)
(* A file that was dropped is in one of the two directories, and in both   *)
(* only if it was dropped twice, as long as nothing arrives under the name *)
(* of a run going on and no two runs choose one destination for two names, *)
(* as those for the second a.csv and for a_1.csv may.                      *)
(***************************************************************************)
NothingLost ==
  early = {} /\ ~clash => \A v \in Versions \ rewritten : puts[v] > 0 => Kept(v)

Failed(names) == \E r \in Runs : pc[r] \in {"skipped", "died"} /\ file[r] \in names

(* The directory looks as it did at an earlier launch, for a file was put  *)
(* back as it had been.                                                    *)
Revisited ==
  incoming \in keys /\ \E n \in Names : incoming[n] # Absent /\ puts[incoming[n]] > 1

(***************************************************************************)
(* Each file is picked up, however the runs overlap, unless a run for it   *)
(* or for one that sorts before it has failed, or the sensor has launched  *)
(* its run for this very directory before.                                 *)
(***************************************************************************)
PickedUpInOrder ==
  \A n \in Names, v \in Versions :
    incoming[n] = v ~> incoming[n] # v \/ Failed(1 .. n) \/ Revisited
=============================================================================

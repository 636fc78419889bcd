---------------------------- MODULE TrackedAssets ----------------------------
(***************************************************************************)
(* `cds get` and `cds update` (cli/getter.py): assets are copied from a    *)
(* source repository into a project, and .cds/get-manifest.json records,   *)
(* per profile, the hash of every file that was copied.  The hashes are    *)
(* what lets a later update tell a file nobody touched from one the user   *)
(* edited.                                                                 *)
(*                                                                         *)
(* The actors are the terminals that run a command, the user who edits the *)
(* project, and the maintainers who change the source repository.  A       *)
(* command is not one step: it reads the manifest, looks at the files,     *)
(* copies them one by one and writes the manifest, and it can fail or be   *)
(* killed between any two of these.                                        *)
(*                                                                         *)
(* A file's content stands for itself and for its SHA-256.                 *)
(***************************************************************************)
EXTENDS Naturals, FiniteSets

CONSTANTS
  Files,        \* repository-relative paths
  Profiles,     \* profiles that can be fetched
  Owns,         \* Owns[p]: the paths a fetch of profile p may copy
  Scopes,       \* what --profiles/--modules/--contracts can select; Files = all
  Versions,     \* contents the source repository publishes
  Drafts,       \* contents only the user writes
  Terminals,    \* where commands run
  Absent, Link, Dir, Torn,    \* no file, a symlink, a directory, a half-copied file
  Untracked,    \* a profile with no entry in the manifest
  Malformed,    \* a manifest file that is not JSON
  MaxCommands, MaxEdits, MaxReleases, MaxFaults   \* bounds of the instance

ASSUME OwnsAssumption == Owns \in [Profiles -> SUBSET Files]
ASSUME ScopesAssumption == Files \in Scopes /\ Scopes \subseteq SUBSET Files
ASSUME BoundsAssumption ==
  {MaxCommands, MaxEdits, MaxReleases, MaxFaults} \subseteq Nat

Obstacles == {Link, Dir}
Hashes    == Versions \cup {Absent}
Contents  == Versions \cup Drafts \cup {Absent, Torn} \cup Obstacles
Entries   == [Files -> Hashes]
Books     == [Profiles -> Entries \cup {Untracked}]

ASSUME ContentsAssumption ==
  /\ Versions \cap Drafts = {}
  /\ Absent \notin Versions \cup Drafts
  /\ Torn \notin Versions \cup Drafts \cup {Absent}
  /\ Obstacles \cap (Versions \cup Drafts \cup {Absent, Torn}) = {}
ASSUME MarkersAssumption == Untracked \notin Entries /\ Malformed \notin Books

VARIABLES
  upstream,   \* [Files -> Hashes]: the tip of the source repository
  disk,       \* [Files -> Contents]: the project directory
  manifest,   \* what .cds/get-manifest.json holds
  job,        \* [Terminals -> Jobs]: the command each terminal is running
  base,       \* history: the content a command last copied to a path, or found there
              \* to be the source's and so accepted
  late,       \* history: <<t, f>> when f was last edited under t's running command
  spent       \* history: how much of each bound is used

vars == <<upstream, disk, manifest, job, base, late, spent>>

NoProfiles == [p \in Profiles |-> Untracked]
NoHashes   == [f \in Files |-> Absent]

(***************************************************************************)
(* A job's fields: kind and force are the command; queue holds the         *)
(* profiles still to do and profile the current one; scope the selected    *)
(* categories; src the downloaded source tree; todo the files to copy;     *)
(* latest the files whose hash will be recorded; book the manifest in      *)
(* memory; conflicts and errors what the command will report.              *)
(***************************************************************************)
Jobs == [pc: {"idle", "next", "copy", "save", "exit"},
         kind: {"get", "update"}, force: BOOLEAN,
         queue: SUBSET Profiles, profile: Profiles \cup {Untracked},
         scope: Scopes, src: [Files -> Hashes],
         todo: SUBSET Files, latest: SUBSET Files,
         book: Books, conflicts: SUBSET (Profiles \X Files), errors: BOOLEAN]

Idle == [pc |-> "idle", kind |-> "get", force |-> FALSE,
         queue |-> {}, profile |-> Untracked, scope |-> Files, src |-> NoHashes,
         todo |-> {}, latest |-> {}, book |-> NoProfiles, conflicts |-> {},
         errors |-> FALSE]

Busy(t) == job[t].pc \in {"next", "copy", "save"}

Spend(what) == spent' = [spent EXCEPT ![what] = @ + 1]
Left(what, bound) == spent[what] < bound

(***************************************************************************)
(* The files a fetch of p copies out of a source tree (_build_copy_plan    *)
(* over _collect_asset_roots).  A profile none of whose files exist cannot *)
(* be resolved.                                                            *)
(***************************************************************************)
Plan(p, src) == {f \in Owns[p] : src[f] # Absent}

(***************************************************************************)
(* What _read_tracking_manifest can find: a `cds get` in another terminal  *)
(* that is inside write_text has truncated the file.                       *)
(***************************************************************************)
Found(t) ==
  {manifest} \cup
    (IF \E u \in Terminals \ {t} : job[u].pc = "save" /\ job[u].kind = "get"
     THEN {Malformed} ELSE {})

Parsed(m) == IF m = Malformed THEN NoProfiles ELSE m

TrackedIn(m) == {p \in Profiles : m[p] # Untracked}

-----------------------------------------------------------------------------
(* cds get *)

\* Mutant: only what is no regular file counts as a conflict.
DiffersInKind(p, src) == {f \in Plan(p, src) : disk[f] \in Obstacles}

Differs(p, src) ==
  {f \in Plan(p, src) : disk[f] \notin {Absent, src[f]}}

BeginGet(t, p, force) ==
  /\ job[t].pc = "idle"
  /\ Left("commands", MaxCommands)
  /\ Spend("commands")
  /\ LET plan    == Plan(p, upstream)
         refused == Differs(p, upstream) # {} /\ ~force
         failed  == plan = {} \/ refused
     IN  job' = [job EXCEPT ![t] =
           [Idle EXCEPT !.pc = IF failed THEN "exit" ELSE "copy",
                        !.force = force, !.profile = p,
                        !.src = upstream,
                        !.todo = IF failed THEN {} ELSE plan,
                        !.latest = IF failed THEN {} ELSE plan,
                        !.conflicts = {p} \X Differs(p, upstream),
                        !.errors = failed]]
  /\ UNCHANGED <<upstream, disk, manifest, base, late>>

(***************************************************************************)
(* One file of _write_actions.  A symlink is unlinked first, so its name   *)
(* ends up a regular file; shutil.copy2 onto a directory writes into the   *)
(* directory and leaves it there.                                          *)
(***************************************************************************)
Placed(f, c) == IF disk[f] = Dir THEN Dir ELSE c

Copy(t, f) ==
  /\ job[t].pc = "copy"
  /\ f \in job[t].todo
  /\ disk' = [disk EXCEPT ![f] = Placed(f, job[t].src[f])]
  /\ base' = [base EXCEPT ![f] = job[t].src[f]]
  /\ job'  = [job EXCEPT ![t].todo = @ \ {f}]
  /\ UNCHANGED <<upstream, manifest, spent, late>>

(***************************************************************************)
(* What is left of f when its copy fails or the process dies in it.        *)
(***************************************************************************)
Leftovers(f) ==
  CASE disk[f] = Dir  -> {Dir}
    [] disk[f] = Link -> {Link, Absent, Torn}
    [] OTHER          -> {disk[f], Torn}

Interrupted(f) ==
  \E c \in Leftovers(f) :
    /\ disk' = [disk EXCEPT ![f] = c]
    /\ base' = IF c = disk[f] THEN base ELSE [base EXCEPT ![f] = c]

(***************************************************************************)
(* OSError while copying: `cds get` ends; `cds update` records the error   *)
(* and goes on with the next profile.                                      *)
(***************************************************************************)
CopyFails(t, f) ==
  /\ job[t].pc = "copy"
  /\ f \in job[t].todo
  /\ Left("faults", MaxFaults)
  /\ Spend("faults")
  /\ Interrupted(f)
  /\ job' = [job EXCEPT ![t].pc = IF job[t].kind = "get" THEN "exit" ELSE "next",
                        ![t].todo = {}, ![t].latest = {}, ![t].errors = TRUE]
  /\ UNCHANGED <<upstream, manifest, late>>

(***************************************************************************)
(* _write_tracking_manifest: read the manifest, replace the profile's      *)
(* whole entry, then write the file in place (path.write_text).            *)
(***************************************************************************)
\* Mutant: the hashes are taken from the destination.
FetchedFromDisk(t) ==
  [f \in Files |-> IF f \in job[t].latest THEN disk[f] ELSE Absent]

Fetched(t) ==
  [f \in Files |-> IF f \in job[t].latest THEN job[t].src[f] ELSE Absent]

GetReadManifest(t) ==
  /\ job[t].pc = "copy" /\ job[t].kind = "get" /\ job[t].todo = {}
  /\ \E m \in Found(t) :
       job' = [job EXCEPT ![t].pc = "save",
                 ![t].book = [Parsed(m) EXCEPT ![job[t].profile] = Fetched(t)]]
  /\ UNCHANGED <<upstream, disk, manifest, base, spent, late>>

GetWriteManifest(t) ==
  /\ job[t].pc = "save" /\ job[t].kind = "get"
  /\ manifest' = job[t].book
  /\ job' = [job EXCEPT ![t].pc = "exit"]
  /\ UNCHANGED <<upstream, disk, base, spent, late>>

-----------------------------------------------------------------------------
(* cds update *)

(***************************************************************************)
(* The manifest is read once, for all the profiles of the run.             *)
(***************************************************************************)
BeginUpdate(t, wanted, scope) ==
  /\ job[t].pc = "idle"
  /\ Left("commands", MaxCommands)
  /\ Spend("commands")
  /\ \E m \in Found(t) :
       LET book  == Parsed(m)
           queue == wanted \cap TrackedIn(book)
       IN  job' = [job EXCEPT ![t] =
             [Idle EXCEPT !.pc = IF queue = {} THEN "exit" ELSE "next",
                          !.kind = "update", !.scope = scope,
                          !.queue = queue, !.book = book,
                          !.errors = (queue = {})]]
  /\ UNCHANGED <<upstream, disk, manifest, base, late>>

(***************************************************************************)
(* How _update_tracked_profile sorts the files of the plan, and            *)
(* _report_removed_source_files the tracked files no longer in it.         *)
(***************************************************************************)
Current(plan, src) == {f \in plan : disk[f] = src[f]}

\* Mutant: the recorded hash is not compared.
OutdatedUnchecked(plan, src, hash) ==
  {f \in plan : /\ disk[f] \notin Obstacles \cup {src[f]}
                /\ disk[f] = Absent => hash[f] = Absent}

Outdated(plan, src, hash) ==
  {f \in plan : \/ disk[f] = Absent /\ hash[f] = Absent
                \/ disk[f] # Absent /\ disk[f] = hash[f] /\ disk[f] # src[f]}

InConflict(plan, src, hash) ==
  plan \ (Current(plan, src) \cup Outdated(plan, src, hash))

RemovedInConflict(plan, scope, hash) ==
  {f \in scope \ plan : hash[f] # Absent /\ disk[f] \notin {Absent, hash[f]}}

CheckProfile(t, p) ==
  /\ job[t].pc = "next" /\ p \in job[t].queue
  /\ LET src    == upstream
         plan   == Plan(p, src) \cap job[t].scope
         hash   == job[t].book[p]
         update == Outdated(plan, src, hash)
     IN  /\ job' = [job EXCEPT ![t] =
              IF plan = {}
              THEN [job[t] EXCEPT !.queue = @ \ {p}, !.profile = p,
                                  !.errors = @ \/ Plan(p, src) = {}]
              ELSE [job[t] EXCEPT !.pc = "copy", !.queue = @ \ {p}, !.profile = p,
                                  !.src = src, !.todo = update,
                                  !.latest = update \cup Current(plan, src),
                                  !.conflicts = @ \cup {p} \X
                                    (InConflict(plan, src, hash)
                                     \cup RemovedInConflict(plan, job[t].scope, hash))]]
         /\ base' = [f \in Files |-> IF f \in Current(plan, src) THEN src[f] ELSE base[f]]
  /\ UNCHANGED <<upstream, disk, manifest, spent, late>>

(***************************************************************************)
(* The source cannot be fetched: download failure, a moved pin, a source   *)
(* off the allowlist, an incomplete entry.                                 *)
(***************************************************************************)
SourceFails(t, p) ==
  /\ job[t].pc = "next" /\ p \in job[t].queue
  /\ Left("faults", MaxFaults)
  /\ Spend("faults")
  /\ job' = [job EXCEPT ![t].queue = @ \ {p}, ![t].errors = TRUE]
  /\ UNCHANGED <<upstream, disk, manifest, base, late>>

\* Mutant: a hash that is already recorded is kept.
MergedOnlyNew(t) ==
  LET p == job[t].profile
  IN  [job[t].book EXCEPT ![p] =
         [f \in Files |-> IF f \in job[t].latest /\ job[t].book[p][f] = Absent
                          THEN job[t].src[f] ELSE job[t].book[p][f]]]

\* Mutant: the entry is rebuilt from the files of this update alone.
MergedFromScratch(t) ==
  LET p == job[t].profile
  IN  [job[t].book EXCEPT ![p] =
         [f \in Files |-> IF f \in job[t].latest THEN job[t].src[f] ELSE Absent]]

Merged(t) ==
  LET p == job[t].profile
  IN  [job[t].book EXCEPT ![p] =
         [f \in Files |-> IF f \in job[t].latest THEN job[t].src[f]
                          ELSE job[t].book[p][f]]]

(***************************************************************************)
(* The entry is changed in memory, then _write_updated_manifest replaces   *)
(* the file atomically with everything in memory; if that fails the error  *)
(* is recorded and the next profile is taken.                              *)
(***************************************************************************)
UpdateWritesManifest(t) ==
  /\ job[t].pc = "copy" /\ job[t].kind = "update" /\ job[t].todo = {}
  /\ manifest' = Merged(t)
  /\ job' = [job EXCEPT ![t].pc = "next", ![t].book = Merged(t)]
  /\ UNCHANGED <<upstream, disk, base, spent, late>>

UpdateSaveFails(t) ==
  /\ job[t].pc = "copy" /\ job[t].kind = "update" /\ job[t].todo = {}
  /\ Left("faults", MaxFaults)
  /\ Spend("faults")
  /\ job' = [job EXCEPT ![t].pc = "next", ![t].book = Merged(t), ![t].errors = TRUE]
  /\ UNCHANGED <<upstream, disk, manifest, base, late>>

EndUpdate(t) ==
  /\ job[t].pc = "next" /\ job[t].queue = {}
  /\ job' = [job EXCEPT ![t].pc = "exit"]
  /\ UNCHANGED <<upstream, disk, manifest, base, spent, late>>

-----------------------------------------------------------------------------
(* The process ends, or is killed. *)

Return(t) ==
  /\ job[t].pc = "exit"
  /\ job' = [job EXCEPT ![t] = Idle]
  /\ late' = late \ ({t} \X Files)
  /\ UNCHANGED <<upstream, disk, manifest, base, spent>>

Crash(t) ==
  /\ Busy(t)
  /\ Left("faults", MaxFaults)
  /\ Spend("faults")
  /\ job' = [job EXCEPT ![t] = Idle]
  /\ \/ UNCHANGED <<disk, base, manifest>>
     \/ /\ \E f \in job[t].todo : Interrupted(f)
        /\ UNCHANGED manifest
     \/ /\ job[t].pc = "save"
        /\ manifest' = Malformed
        /\ UNCHANGED <<disk, base>>
  /\ late' = late \ ({t} \X Files)
  /\ UNCHANGED upstream

-----------------------------------------------------------------------------
(* The user and the maintainers of the source repository. *)

Edit(f, c) ==
  /\ Left("edits", MaxEdits)
  /\ Spend("edits")
  /\ disk' = [disk EXCEPT ![f] = c]
  /\ late' = late \cup ({t \in Terminals : Busy(t)} \X {f})
  /\ UNCHANGED <<upstream, manifest, job, base>>

Release(f, c) ==
  /\ Left("releases", MaxReleases)
  /\ Spend("releases")
  /\ upstream' = [upstream EXCEPT ![f] = c]
  /\ UNCHANGED <<disk, manifest, job, base, late>>

-----------------------------------------------------------------------------
Init ==
  /\ upstream \in [Files -> Versions]
  /\ disk = NoHashes
  /\ manifest = NoProfiles
  /\ job = [t \in Terminals |-> Idle]
  /\ base = NoHashes
  /\ late = {}
  /\ spent = [what \in {"commands", "edits", "releases", "faults"} |-> 0]

UpdateStep(t) ==
  \/ \E wanted \in {Profiles} \cup {{p} : p \in Profiles}, scope \in Scopes :
       BeginUpdate(t, wanted, scope)
  \/ \E p \in Profiles : CheckProfile(t, p) \/ SourceFails(t, p)
  \/ UpdateWritesManifest(t)
  \/ UpdateSaveFails(t)
  \/ EndUpdate(t)

GetStep(t) ==
  \/ \E p \in Profiles, force \in BOOLEAN : BeginGet(t, p, force)
  \/ GetReadManifest(t)
  \/ GetWriteManifest(t)

Next ==
  \/ \E t \in Terminals :
       \/ GetStep(t)
       \/ UpdateStep(t)
       \/ \E f \in Files : Copy(t, f) \/ CopyFails(t, f)
       \/ Return(t)
       \/ Crash(t)
  \/ \E f \in Files, c \in Contents \ {Torn} : c # disk[f] /\ Edit(f, c)
  \/ \E f \in Files, c \in Hashes : c # upstream[f] /\ Release(f, c)

Spec == Init /\ [][Next]_vars

-----------------------------------------------------------------------------
TypeOK ==
  /\ upstream \in [Files -> Hashes]
  /\ disk \in [Files -> Contents]
  /\ manifest \in Books \cup {Malformed}
  /\ job \in [Terminals -> Jobs]
  /\ base \in [Files -> Contents]
  /\ late \subseteq Terminals \X Files
  /\ spent \in [{"commands", "edits", "releases", "faults"} -> Nat]

(***************************************************************************)
(* Only an update goes from profile to profile, and a profile it is        *)
(* working on, or still has to, has an entry in the manifest it read.      *)
(***************************************************************************)
UpdatesTracked ==
  \A t \in Terminals :
    /\ job[t].pc = "next" => job[t].kind = "update"
    /\ job[t].kind = "update" =>
         /\ job[t].queue \subseteq TrackedIn(job[t].book)
         /\ job[t].pc = "copy" => job[t].profile \in TrackedIn(job[t].book)

(***************************************************************************)
(* Properties.  A command removes a file from its todo set in the step     *)
(* that writes it; a step that changes neither is the user's.              *)
(***************************************************************************)
WrittenBy(t, f) == f \in job[t].todo \ job'[t].todo /\ disk'[f] # disk[f]

(***************************************************************************)
(* No command destroys something only the user has: the content of a path  *)
(* nobody published is overwritten by a `cds get --force` or by nobody     *)
(* (the checks of _find_conflicts and _update_tracked_profile, made before *)
(* the copies they protect), or was saved while that very command ran.     *)
(***************************************************************************)
DraftsSurvive ==
  [][\A t \in Terminals, f \in Files :
       WrittenBy(t, f) /\ disk[f] \in Drafts
         => job[t].force \/ <<t, f>> \in late]_vars

(***************************************************************************)
(* The paths that only one profile tracks, as long as no command has       *)
(* failed: what the manifest says of them is what a command last put, or   *)
(* accepted, there.                                                        *)
(***************************************************************************)
Exclusive(f) == \A p, q \in Profiles : f \in Owns[p] \cap Owns[q] => p = q
WellTracked(f) == spent["faults"] = 0 /\ Exclusive(f)

(***************************************************************************)
(* "Refresh previously fetched assets without overwriting local edits":    *)
(* what `cds update` overwrites is what a command last put there, whatever *)
(* the user's edit consists of, putting an older version back included,    *)
(* unless it is made while that very command runs.                         *)
(***************************************************************************)
EditsPreserved ==
  [][\A t \in Terminals, f \in Files :
       job[t].kind = "update" /\ WellTracked(f) /\ WrittenBy(t, f)
         => <<t, f>> \in late \/ disk[f] \in {base[f], Absent}]_vars

(***************************************************************************)
(* A tracked file that `cds update` reports as "modified locally" (or      *)
(* deleted) is one the user did change since a command last wrote it.      *)
(***************************************************************************)
ConflictsAreLocalEdits ==
  [][\A t \in Terminals, p \in Profiles, f \in Files :
       /\ <<p, f>> \in job'[t].conflicts \ job[t].conflicts
       /\ WellTracked(f)
       /\ job'[t].kind = "update"
       /\ job[t].book[p][f] # Absent
       => disk[f] # base[f]]_vars

(***************************************************************************)
(* When `cds update` has finished a profile without a failure, every       *)
(* selected file is either reported as a conflict or is the source's       *)
(* version both on disk and in the manifest it wrote, unless the user      *)
(* edited it meanwhile.                                                    *)
(***************************************************************************)
UpdateDelivers ==
  [][\A t \in Terminals :
       /\ job[t].kind = "update" /\ job[t].pc = "copy" /\ job'[t].pc = "next"
       /\ spent' = spent
       => LET p == job[t].profile
              src == job[t].src
          IN  \A f \in Plan(p, src) \cap job[t].scope :
                \/ <<p, f>> \in job[t].conflicts
                \/ <<t, f>> \in late
                \/ disk[f] = src[f] /\ manifest'[p][f] = src[f]]_vars

(***************************************************************************)
(* "A file removed upstream is no longer an asset on the next pass and     *)
(* must stay reportable through its tracked hashes": no update, crash or   *)
(* failure included, makes a tracked path or profile untracked.            *)
(***************************************************************************)
UpdateKeepsTracking ==
  [][\A t \in Terminals :
       job[t].kind = "update" /\ Busy(t) /\ job'[t] # job[t] /\ manifest # Malformed
         => /\ manifest' # Malformed
            /\ \A p \in TrackedIn(manifest) :
                 /\ manifest'[p] # Untracked
                 /\ \A f \in Files : manifest[p][f] # Absent => manifest'[p][f] # Absent]_vars

(***************************************************************************)
(* The strengthening DraftsSurvive needs: from the moment the checks pass  *)
(* until the last copy, no unforced command has a file of the user's own   *)
(* among the ones it will overwrite, those saved under it excepted.        *)
(***************************************************************************)
PendingIsReplaceable ==
  \A t \in Terminals : \A f \in job[t].todo :
    /\ job[t].pc = "copy"
    /\ job[t].force \/ <<t, f>> \in late \/ disk[f] \notin Drafts

=============================================================================

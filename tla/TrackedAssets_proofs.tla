------------------------ MODULE TrackedAssets_proofs ------------------------
(***************************************************************************)
(* Proofs about TrackedAssets, for every set of files, profiles and        *)
(* terminals and with no bound on commands, edits, releases and faults.    *)
(***************************************************************************)
EXTENDS TrackedAssets, TLAPS

USE DEF Hashes, Obstacles, Contents

(***************************************************************************)
(* An idle terminal's record is a job.                                     *)
(***************************************************************************)
LEMMA IdleIsJob == Idle \in Jobs
  BY ScopesAssumption DEF Idle, Jobs, Books, NoHashes, NoProfiles

(***************************************************************************)
(* Parsing a manifest, damaged or not, gives a book.                       *)
(***************************************************************************)
LEMMA FoundIsBook ==
  ASSUME TypeOK, NEW t \in Terminals, NEW m \in Found(t)
  PROVE  Parsed(m) \in Books
  BY DEF TypeOK, Found, Parsed, NoProfiles, Books

(* The initial state is well typed. *)
LEMMA InitTypeOK == Init => TypeOK
  <1> SUFFICES ASSUME Init PROVE TypeOK
    OBVIOUS
  <1> QED
    BY IdleIsJob DEF Init, TypeOK, NoHashes, NoProfiles, Books

(* Starting a `cds get` keeps the types. *)
LEMMA BeginGetTypeOK ==
  ASSUME TypeOK, NEW t \in Terminals, NEW p \in Profiles, NEW force \in BOOLEAN,
         BeginGet(t, p, force)
  PROVE  TypeOK'
  <1> DEFINE plan == Plan(p, upstream)
             failed == plan = {} \/ (Differs(p, upstream) # {} /\ ~force)
             new == [Idle EXCEPT !.pc = IF failed THEN "exit" ELSE "copy",
                        !.force = force, !.profile = p,
                        !.src = upstream,
                        !.todo = IF failed THEN {} ELSE plan,
                        !.latest = IF failed THEN {} ELSE plan,
                        !.conflicts = {p} \X Differs(p, upstream),
                        !.errors = failed]
  <1>1. plan \in SUBSET Files /\ Differs(p, upstream) \in SUBSET Files
    BY OwnsAssumption DEF Plan, Differs
  <1>2. failed \in BOOLEAN
    OBVIOUS
  <1>3. upstream \in [Files -> Hashes]
    BY DEF TypeOK
  <1>4. {p} \X Differs(p, upstream) \in SUBSET (Profiles \X Files)
    BY <1>1
  <1>5. new \in Jobs
    <2> HIDE DEF failed, plan
    <2> QED BY IdleIsJob, <1>1, <1>2, <1>3, <1>4 DEF Jobs, Idle
  <1>6. job' = [job EXCEPT ![t] = new]
    BY DEF BeginGet
  <1>7. job' \in [Terminals -> Jobs]
    <2> HIDE DEF new
    <2> QED BY <1>5, <1>6 DEF TypeOK
  <1> QED
    BY <1>7 DEF TypeOK, BeginGet, Spend

(***************************************************************************)
(* Copying a file, or leaving it half copied, puts a content on the disk.  *)
(***************************************************************************)
LEMMA InterruptedContents ==
  ASSUME TypeOK, NEW f \in Files, Interrupted(f)
  PROVE  /\ disk' \in [Files -> Contents] /\ base' \in [Files -> Contents]
         /\ \A g \in Files : disk'[g] # disk[g] => g = f /\ disk'[g] \in {Torn, Absent}
  <1>1. PICK c \in Leftovers(f) :
          /\ disk' = [disk EXCEPT ![f] = c]
          /\ base' = IF c = disk[f] THEN base ELSE [base EXCEPT ![f] = c]
    BY DEF Interrupted
  <1>2. c \in Contents /\ c \in {disk[f], Torn, Absent}
    BY DEF Leftovers, TypeOK
  <1> QED
    BY <1>1, <1>2 DEF TypeOK

(* Copying one file keeps the types. *)
LEMMA CopyTypeOK ==
  ASSUME TypeOK, NEW t \in Terminals, NEW f \in Files, Copy(t, f)
  PROVE  TypeOK'
  <1>1. job[t] \in Jobs
    BY DEF TypeOK
  <1>2. job[t].src[f] \in Hashes
    BY <1>1 DEF Jobs
  <1>3. Placed(f, job[t].src[f]) \in Contents
    BY <1>2 DEF Placed
  <1>4. disk' \in [Files -> Contents] /\ base' \in [Files -> Contents]
    BY <1>2, <1>3 DEF Copy, TypeOK
  <1>5. [job[t] EXCEPT !.todo = @ \ {f}] \in Jobs
    BY <1>1 DEF Jobs
  <1>6. job' \in [Terminals -> Jobs]
    BY <1>5 DEF Copy, TypeOK
  <1> QED
    BY <1>4, <1>6 DEF Copy, TypeOK

(* A copy that fails half way keeps the types. *)
LEMMA CopyFailsTypeOK ==
  ASSUME TypeOK, NEW t \in Terminals, NEW f \in Files, CopyFails(t, f)
  PROVE  TypeOK'
  <1> DEFINE new == [job[t] EXCEPT !.pc = IF job[t].kind = "get" THEN "exit" ELSE "next",
                                   !.todo = {}, !.latest = {}, !.errors = TRUE]
  <1>0. job[t] \in Jobs
    BY DEF TypeOK
  <1>1. new \in Jobs
    BY <1>0 DEF Jobs
  <1>2. job' = [job EXCEPT ![t] = new]
    BY DEF CopyFails, TypeOK
  <1>3. job' \in [Terminals -> Jobs]
    <2> HIDE DEF new
    <2> QED BY <1>1, <1>2 DEF TypeOK
  <1> QED
    BY <1>3, InterruptedContents DEF CopyFails, TypeOK, Spend

(* What `cds get` reads of the manifest, damaged or not, is a book. *)
LEMMA GetReadManifestTypeOK ==
  ASSUME TypeOK, NEW t \in Terminals, GetReadManifest(t)
  PROVE  TypeOK'
  <1>1. job[t] \in Jobs
    BY DEF TypeOK
  <1>2. Fetched(t) \in Entries
    BY <1>1 DEF Fetched, Jobs, Entries
  <1>3. PICK m \in Found(t) :
          job' = [job EXCEPT ![t].pc = "save",
                    ![t].book = [Parsed(m) EXCEPT ![job[t].profile] = Fetched(t)]]
    BY DEF GetReadManifest
  <1> DEFINE book == [Parsed(m) EXCEPT ![job[t].profile] = Fetched(t)]
             new  == [job[t] EXCEPT !.pc = "save", !.book = book]
  <1>4. book \in Books
    BY <1>2, FoundIsBook DEF Books
  <1>5. new \in Jobs
    <2> HIDE DEF book
    <2> QED BY <1>1, <1>4 DEF Jobs
  <1>6. job' = [job EXCEPT ![t] = new]
    BY <1>3 DEF TypeOK
  <1>7. job' \in [Terminals -> Jobs]
    <2> HIDE DEF new
    <2> QED BY <1>5, <1>6 DEF TypeOK
  <1> QED
    BY <1>7 DEF GetReadManifest, TypeOK

(* Writing the manifest in place keeps the types. *)
LEMMA GetWriteManifestTypeOK ==
  ASSUME TypeOK, NEW t \in Terminals, GetWriteManifest(t)
  PROVE  TypeOK'
  <1>1. job[t] \in Jobs
    BY DEF TypeOK
  <1>2. manifest' \in Books
    BY <1>1 DEF GetWriteManifest, Jobs
  <1>3. [job[t] EXCEPT !.pc = "exit"] \in Jobs
    BY <1>1 DEF Jobs
  <1>4. job' \in [Terminals -> Jobs]
    BY <1>3 DEF GetWriteManifest, TypeOK
  <1> QED
    BY <1>2, <1>4 DEF GetWriteManifest, TypeOK

(* Starting a `cds update` keeps the types. *)
LEMMA BeginUpdateTypeOK ==
  ASSUME TypeOK, NEW t \in Terminals, NEW wanted \in SUBSET Profiles,
         NEW scope \in Scopes, BeginUpdate(t, wanted, scope)
  PROVE  TypeOK'
  <1>1. PICK m \in Found(t) :
          LET book  == Parsed(m)
              queue == wanted \cap TrackedIn(book)
          IN  job' = [job EXCEPT ![t] =
                [Idle EXCEPT !.pc = IF queue = {} THEN "exit" ELSE "next",
                             !.kind = "update", !.scope = scope,
                             !.queue = queue, !.book = book,
                             !.errors = (queue = {})]]
    BY DEF BeginUpdate
  <1> DEFINE book  == Parsed(m)
             queue == wanted \cap TrackedIn(book)
             none  == queue = {}
             new   == [Idle EXCEPT !.pc = IF none THEN "exit" ELSE "next",
                             !.kind = "update", !.scope = scope,
                             !.queue = queue, !.book = book, !.errors = none]
  <1>2. job' = [job EXCEPT ![t] = new]
    BY <1>1
  <1>3. book \in Books /\ queue \in SUBSET Profiles /\ none \in BOOLEAN
    BY FoundIsBook
  <1>4. new \in Jobs
    <2> HIDE DEF book, queue, none
    <2> QED BY <1>3, IdleIsJob DEF Jobs, Idle
  <1>5. job' \in [Terminals -> Jobs]
    <2> HIDE DEF new
    <2> QED BY <1>2, <1>4 DEF TypeOK
  <1> QED
    BY <1>5 DEF BeginUpdate, TypeOK, Spend

(* Sorting the files of one profile keeps the types. *)
LEMMA CheckProfileTypeOK ==
  ASSUME TypeOK, NEW t \in Terminals, NEW p \in Profiles, CheckProfile(t, p)
  PROVE  TypeOK'
  <1> DEFINE plan   == Plan(p, upstream) \cap job[t].scope
             hash   == job[t].book[p]
             update == Outdated(plan, upstream, hash)
             rest   == job[t].queue \ {p}
             failed == job[t].errors \/ Plan(p, upstream) = {}
             latest == update \cup Current(plan, upstream)
             found  == job[t].conflicts \cup {p} \X
                         (InConflict(plan, upstream, hash)
                          \cup RemovedInConflict(plan, job[t].scope, hash))
             skip   == [job[t] EXCEPT !.queue = rest, !.profile = p, !.errors = failed]
             take   == [job[t] EXCEPT !.pc = "copy", !.queue = rest, !.profile = p,
                          !.src = upstream, !.todo = update, !.latest = latest,
                          !.conflicts = found]
  <1>1. job[t] \in Jobs
    BY DEF TypeOK
  <1>2. job' = [job EXCEPT ![t] = IF plan = {} THEN skip ELSE take]
    BY DEF CheckProfile, TypeOK
  <1>3. plan \in SUBSET Files /\ job[t].scope \in SUBSET Files
    BY <1>1, OwnsAssumption, ScopesAssumption DEF Plan, Jobs
  <1>4. update \in SUBSET Files /\ latest \in SUBSET Files
    BY <1>3 DEF Outdated, Current
  <1>5. InConflict(plan, upstream, hash)
          \cup RemovedInConflict(plan, job[t].scope, hash) \in SUBSET Files
    BY <1>3 DEF InConflict, RemovedInConflict
  <1>6. found \in SUBSET (Profiles \X Files)
    <2>1. job[t].conflicts \in SUBSET (Profiles \X Files)
      BY <1>1 DEF Jobs
    <2> QED BY <1>5, <2>1
  <1>7. rest \in SUBSET Profiles /\ failed \in BOOLEAN
    BY <1>1 DEF Jobs
  <1>8. skip \in Jobs
    <2> HIDE DEF rest, failed
    <2> QED BY <1>1, <1>7 DEF Jobs
  <1>9. take \in Jobs
    <2>1. upstream \in [Files -> Hashes]
      BY DEF TypeOK
    <2> HIDE DEF rest, update, latest, found
    <2> QED BY <1>1, <1>4, <1>6, <1>7, <2>1 DEF Jobs
  <1>10. job' \in [Terminals -> Jobs]
    <2> HIDE DEF skip, take, plan
    <2> QED BY <1>2, <1>8, <1>9 DEF TypeOK
  <1> QED
    BY <1>10 DEF CheckProfile, TypeOK

(* A source that cannot be fetched keeps the types. *)
LEMMA SourceFailsTypeOK ==
  ASSUME TypeOK, NEW t \in Terminals, NEW p \in Profiles, SourceFails(t, p)
  PROVE  TypeOK'
  <1>1. job[t] \in Jobs
    BY DEF TypeOK
  <1>2. [job[t] EXCEPT !.queue = @ \ {p}, !.errors = TRUE] \in Jobs
    BY <1>1 DEF Jobs
  <1>3. job' \in [Terminals -> Jobs]
    BY <1>2 DEF SourceFails, TypeOK
  <1> QED
    BY <1>3 DEF SourceFails, TypeOK, Spend

(***************************************************************************)
(* Recording a finished profile in a book gives a book: a profile that is  *)
(* being updated has an entry.                                             *)
(***************************************************************************)
LEMMA MergedIsBook ==
  ASSUME TypeOK, NEW t \in Terminals, job[t].pc = "copy", job[t].kind = "update",
         UpdatesTracked
  PROVE  Merged(t) \in Books
  <1>1. job[t] \in Jobs
    BY DEF TypeOK
  <1>2. job[t].profile \in Profiles /\ job[t].book[job[t].profile] \in Entries
    BY <1>1, MarkersAssumption DEF UpdatesTracked, TrackedIn, Jobs, Books
  <1> DEFINE entry == [f \in Files |-> IF f \in job[t].latest THEN job[t].src[f]
                                       ELSE job[t].book[job[t].profile][f]]
  <1>3. entry \in Entries
    BY <1>1, <1>2 DEF Jobs, Entries
  <1>4. Merged(t) = [job[t].book EXCEPT ![job[t].profile] = entry]
    BY <1>1, <1>2 DEF Merged, Jobs, Books
  <1> QED
    <2> HIDE DEF entry
    <2> QED BY <1>1, <1>3, <1>4 DEF Jobs, Books

(* The merged entry is an entry, so the manifest written is a book. *)
LEMMA UpdateWritesTypeOK ==
  ASSUME TypeOK, UpdatesTracked, NEW t \in Terminals,
         UpdateWritesManifest(t) \/ UpdateSaveFails(t)
  PROVE  TypeOK'
  <1>1. job[t] \in Jobs
    BY DEF TypeOK
  <1>2. Merged(t) \in Books
    BY MergedIsBook DEF UpdateWritesManifest, UpdateSaveFails
  <1>3. CASE UpdateWritesManifest(t)
    <2>1. [job[t] EXCEPT !.pc = "next", !.book = Merged(t)] \in Jobs
      BY <1>1, <1>2 DEF Jobs
    <2>2. job' \in [Terminals -> Jobs]
      BY <1>3, <2>1 DEF UpdateWritesManifest, TypeOK
    <2>3. base' \in [Files -> Contents]
      BY <1>3 DEF UpdateWritesManifest, TypeOK
    <2> QED
      BY <1>2, <1>3, <2>2, <2>3 DEF UpdateWritesManifest, TypeOK
  <1>4. CASE UpdateSaveFails(t)
    <2>1. [job[t] EXCEPT !.pc = "next", !.book = Merged(t), !.errors = TRUE] \in Jobs
      BY <1>1, <1>2 DEF Jobs
    <2>2. job' \in [Terminals -> Jobs]
      BY <1>4, <2>1 DEF UpdateSaveFails, TypeOK
    <2> QED
      BY <1>4, <2>2 DEF UpdateSaveFails, TypeOK, Spend
  <1> QED
    BY <1>3, <1>4

(* The end of a command keeps the types. *)
LEMMA EndTypeOK ==
  ASSUME TypeOK, NEW t \in Terminals, EndUpdate(t) \/ Return(t) \/ Crash(t)
  PROVE  TypeOK'
  <1>1. job[t] \in Jobs
    BY DEF TypeOK
  <1>2. [job[t] EXCEPT !.pc = "exit"] \in Jobs
    BY <1>1 DEF Jobs
  <1>3. job' \in [Terminals -> Jobs]
    BY <1>2, IdleIsJob DEF EndUpdate, Return, Crash, TypeOK
  <1>4. disk' \in [Files -> Contents] /\ base' \in [Files -> Contents]
    <2>1. job[t].todo \in SUBSET Files
      BY <1>1 DEF Jobs
    <2> QED
      BY <2>1, InterruptedContents DEF EndUpdate, Return, Crash, TypeOK
  <1> QED
    BY <1>3, <1>4 DEF EndUpdate, Return, Crash, TypeOK, Spend

(* An edit or a release keeps the types. *)
LEMMA EnvironmentTypeOK ==
  ASSUME TypeOK, NEW f \in Files,
         \/ \E c \in Contents \ {Torn} : Edit(f, c)
         \/ \E c \in Hashes : Release(f, c)
  PROVE  TypeOK'
  BY DEF TypeOK, Edit, Release, Spend

(* Every step keeps the types. *)
LEMMA NextTypeOK == TypeOK /\ UpdatesTracked /\ [Next]_vars => TypeOK'
  <1> SUFFICES ASSUME TypeOK, UpdatesTracked, [Next]_vars PROVE TypeOK'
    OBVIOUS
  <1>1. ASSUME NEW t \in Terminals, GetStep(t) PROVE TypeOK'
    BY <1>1, BeginGetTypeOK, GetReadManifestTypeOK, GetWriteManifestTypeOK DEF GetStep
  <1>2. ASSUME NEW t \in Terminals, UpdateStep(t) PROVE TypeOK'
    <2>1. ASSUME NEW wanted \in {Profiles} \cup {{p} : p \in Profiles},
                 NEW scope \in Scopes, BeginUpdate(t, wanted, scope)
          PROVE  TypeOK'
      <3>1. wanted \in SUBSET Profiles
        OBVIOUS
      <3> QED BY <2>1, <3>1, BeginUpdateTypeOK
    <2> QED
      BY <1>2, <2>1, CheckProfileTypeOK, SourceFailsTypeOK, UpdateWritesTypeOK, EndTypeOK
      DEF UpdateStep
  <1>3. ASSUME NEW t \in Terminals, NEW f \in Files, Copy(t, f) \/ CopyFails(t, f)
        PROVE  TypeOK'
    BY <1>3, CopyTypeOK, CopyFailsTypeOK
  <1>4. ASSUME NEW t \in Terminals, Return(t) \/ Crash(t) PROVE TypeOK'
    BY <1>4, EndTypeOK
  <1>5. CASE \/ \E f \in Files, c \in Contents \ {Torn} : c # disk[f] /\ Edit(f, c)
             \/ \E f \in Files, c \in Hashes : c # upstream[f] /\ Release(f, c)
    BY <1>5, EnvironmentTypeOK
  <1>6. CASE UNCHANGED vars
    BY <1>6 DEF vars, TypeOK
  <1> QED
    BY <1>1, <1>2, <1>3, <1>4, <1>5, <1>6 DEF Next

(***************************************************************************)
(* A book whose recorded profile was tracked tracks the same profiles.     *)
(***************************************************************************)
LEMMA MergedTracks ==
  ASSUME TypeOK, UpdatesTracked, NEW t \in Terminals,
         job[t].pc = "copy", job[t].kind = "update"
  PROVE  TrackedIn(job[t].book) \subseteq TrackedIn(Merged(t))
  <1>1. job[t] \in Jobs
    BY DEF TypeOK
  <1>2. job[t].profile \in Profiles
    BY DEF UpdatesTracked, TrackedIn
  <1> DEFINE entry == [f \in Files |-> IF f \in job[t].latest THEN job[t].src[f]
                                       ELSE job[t].book[job[t].profile][f]]
  <1>3. Merged(t) = [job[t].book EXCEPT ![job[t].profile] = entry]
    BY DEF Merged
  <1>4. Merged(t) \in Books
    BY MergedIsBook
  <1>5. entry \in Entries
    <2>1. job[t].book[job[t].profile] \in Entries
      BY <1>1, MarkersAssumption DEF UpdatesTracked, TrackedIn, Jobs, Books
    <2> QED BY <1>1, <2>1 DEF Jobs, Entries
  <1>6. entry # Untracked
    <2> HIDE DEF entry
    <2> QED BY <1>5, MarkersAssumption
  <1> QED
    <2> HIDE DEF entry
    <2>1. \A p \in Profiles : Merged(t)[p] = IF p = job[t].profile THEN entry
                                             ELSE job[t].book[p]
      BY <1>1, <1>3 DEF Jobs, Books
    <2> QED BY <1>6, <2>1 DEF TrackedIn

(* No step makes an update work on a profile its book does not track. *)
LEMMA NextUpdatesTracked ==
  TypeOK /\ UpdatesTracked /\ [Next]_vars => UpdatesTracked'
  <1> SUFFICES ASSUME TypeOK, UpdatesTracked, [Next]_vars PROVE UpdatesTracked'
    OBVIOUS
  <1> DEFINE Tracked(j) ==
        /\ j.pc = "next" => j.kind = "update"
        /\ j.kind = "update" => /\ j.queue \subseteq TrackedIn(j.book)
                                /\ j.pc = "copy" => j.profile \in TrackedIn(j.book)
  <1>a. \A t \in Terminals : Tracked(job[t]) /\ job[t] \in Jobs
    BY DEF UpdatesTracked, TypeOK
  <1>b. Tracked(Idle)
    BY DEF Idle
  <1>c. (\A u \in Terminals : Tracked(job'[u])) => UpdatesTracked'
    BY DEF UpdatesTracked, TrackedIn
  <1>d. job = [t \in Terminals |-> job[t]]
    BY DEF TypeOK
  <1>1. ASSUME NEW t \in Terminals, GetStep(t)
        PROVE  \A u \in Terminals : Tracked(job'[u])
    <2>1. \A u \in Terminals \ {t} : job'[u] = job[u]
      BY <1>1, <1>d DEF GetStep, BeginGet, GetReadManifest, GetWriteManifest
    <2>2. ASSUME NEW p, NEW force, BeginGet(t, p, force)
          PROVE  job'[t].kind = "get" /\ job'[t].pc # "next"
      BY <2>2, <1>d DEF BeginGet, Idle
    <2>3. ASSUME GetReadManifest(t)
          PROVE  job'[t].kind = "get" /\ job'[t].pc # "next"
      BY <2>3, <1>a, <1>d DEF GetReadManifest, Jobs
    <2>4. ASSUME GetWriteManifest(t)
          PROVE  job'[t].kind = "get" /\ job'[t].pc # "next"
      BY <2>4, <1>a, <1>d DEF GetWriteManifest, Jobs
    <2> QED BY <1>1, <2>1, <2>2, <2>3, <2>4, <1>a DEF GetStep
  <1>2. ASSUME NEW t \in Terminals, UpdateStep(t)
        PROVE  \A u \in Terminals : Tracked(job'[u])
    <2>1. ASSUME NEW wanted, NEW scope, BeginUpdate(t, wanted, scope)
          PROVE  \A u \in Terminals : Tracked(job'[u])
      <3>1. PICK m \in Found(t) :
              LET book  == Parsed(m)
                  queue == wanted \cap TrackedIn(book)
              IN  job' = [job EXCEPT ![t] =
                    [Idle EXCEPT !.pc = IF queue = {} THEN "exit" ELSE "next",
                                 !.kind = "update", !.scope = scope,
                                 !.queue = queue, !.book = book,
                                 !.errors = (queue = {})]]
        BY <2>1 DEF BeginUpdate
      <3> QED BY <3>1, <1>a, <1>d DEF Idle
    <2>2. ASSUME NEW p \in Profiles, CheckProfile(t, p)
          PROVE  \A u \in Terminals : Tracked(job'[u])
      <3>1. /\ job'[t].kind = job[t].kind /\ job'[t].book = job[t].book
            /\ job'[t].queue = job[t].queue \ {p} /\ job'[t].profile = p
            /\ p \in job[t].queue /\ job[t].pc = "next"
            /\ \A u \in Terminals \ {t} : job'[u] = job[u]
        BY <2>2, <1>a, <1>d DEF CheckProfile, Jobs
      <3> QED BY <3>1, <1>a
    <2>3. ASSUME NEW p \in Profiles, SourceFails(t, p)
          PROVE  \A u \in Terminals : Tracked(job'[u])
      <3>1. /\ job'[t].kind = job[t].kind /\ job'[t].book = job[t].book
            /\ job'[t].queue = job[t].queue \ {p} /\ job'[t].profile = job[t].profile
            /\ job'[t].pc = job[t].pc
            /\ \A u \in Terminals \ {t} : job'[u] = job[u]
        BY <2>3, <1>a, <1>d DEF SourceFails, Jobs
      <3> QED BY <3>1, <1>a
    <2>4. ASSUME UpdateWritesManifest(t) \/ UpdateSaveFails(t)
          PROVE  \A u \in Terminals : Tracked(job'[u])
      <3>1. /\ job'[t].pc = "next" /\ job'[t].book = Merged(t)
            /\ job'[t].queue = job[t].queue /\ job'[t].kind = job[t].kind
            /\ \A u \in Terminals \ {t} : job'[u] = job[u]
            /\ job[t].kind = "update" /\ job[t].pc = "copy"
        <4>1. CASE UpdateWritesManifest(t)
          BY <4>1, <1>a, <1>d DEF UpdateWritesManifest, Jobs
        <4>2. CASE UpdateSaveFails(t)
          BY <4>2, <1>a, <1>d DEF UpdateSaveFails, Jobs
        <4> QED BY <2>4, <4>1, <4>2
      <3>2. TrackedIn(job[t].book) \subseteq TrackedIn(Merged(t))
        BY <3>1, MergedTracks
      <3> QED BY <3>1, <3>2, <1>a
    <2>5. ASSUME EndUpdate(t)
          PROVE  \A u \in Terminals : Tracked(job'[u])
      <3>1. /\ job'[t].pc = "exit" /\ job'[t].book = job[t].book
            /\ job'[t].queue = job[t].queue /\ job'[t].kind = job[t].kind
            /\ \A u \in Terminals \ {t} : job'[u] = job[u]
        BY <2>5, <1>a, <1>d DEF EndUpdate, Jobs
      <3> QED BY <3>1, <1>a
    <2> QED
      BY <1>2, <2>1, <2>2, <2>3, <2>4, <2>5 DEF UpdateStep
  <1>3. ASSUME NEW t \in Terminals, NEW f \in Files, Copy(t, f) \/ CopyFails(t, f)
        PROVE  \A u \in Terminals : Tracked(job'[u])
    <2>1. /\ job'[t].book = job[t].book /\ job'[t].queue = job[t].queue
          /\ job'[t].kind = job[t].kind /\ job'[t].profile = job[t].profile
          /\ job[t].pc = "copy" /\ (job'[t].pc = "next" => job[t].kind = "update")
          /\ \A u \in Terminals \ {t} : job'[u] = job[u]
      BY <1>3, <1>a, <1>d DEF Copy, CopyFails, Jobs
    <2> QED BY <2>1, <1>a
  <1>4. ASSUME NEW t \in Terminals, Return(t) \/ Crash(t)
        PROVE  \A u \in Terminals : Tracked(job'[u])
    BY <1>4, <1>a, <1>b, <1>d DEF Return, Crash
  <1>5. ASSUME UNCHANGED job
        PROVE  \A u \in Terminals : Tracked(job'[u])
    BY <1>5, <1>a
  <1> HIDE DEF Tracked
  <1> QED
    BY <1>1, <1>2, <1>3, <1>4, <1>5, <1>c DEF Next, vars, Edit, Release

(***************************************************************************)
(* Every reachable state is well typed, and every update works on profiles *)
(* that the manifest it read tracks.                                       *)
(***************************************************************************)
THEOREM TypeCorrect == Spec => [](TypeOK /\ UpdatesTracked)
  <1>1. Init => TypeOK /\ UpdatesTracked
    BY InitTypeOK DEF Init, UpdatesTracked, Idle
  <1>2. (TypeOK /\ UpdatesTracked) /\ [Next]_vars => (TypeOK /\ UpdatesTracked)'
    BY NextTypeOK, NextUpdatesTracked
  <1> QED
    BY <1>1, <1>2, PTL DEF Spec

-----------------------------------------------------------------------------
(***************************************************************************)
(* What PendingIsReplaceable asks of one job.                              *)
(***************************************************************************)
Replaceable(t, j, d, l) ==
  \A f \in j.todo : /\ j.pc = "copy"
                    /\ j.force \/ <<t, f>> \in l \/ d[f] \notin Drafts

(***************************************************************************)
(* Commands put no draft on the disk: a path that holds a draft after a    *)
(* command's step held it before.                                          *)
(***************************************************************************)
LEMMA CommandsWriteNoDrafts ==
  ASSUME TypeOK, NEW t \in Terminals,
         \/ GetStep(t) \/ UpdateStep(t) \/ Return(t) \/ Crash(t)
         \/ \E f \in Files : Copy(t, f) \/ CopyFails(t, f)
  PROVE  \A f \in Files : disk'[f] \in Drafts => disk[f] = disk'[f]
  <1>1. job[t] \in Jobs /\ job[t].todo \in SUBSET Files
    BY DEF TypeOK, Jobs
  <1>2. ASSUME NEW f \in Files, Copy(t, f)
        PROVE  \A g \in Files : disk'[g] \in Drafts => disk[g] = disk'[g]
    <2>1. job[t].src[f] \in Versions \cup {Absent}
      BY <1>1 DEF Jobs
    <2>2. disk' = [disk EXCEPT ![f] = Placed(f, job[t].src[f])]
      BY <1>2 DEF Copy
    <2>3. Placed(f, job[t].src[f]) \notin Drafts
      BY <2>1, ContentsAssumption DEF Placed
    <2> QED BY <2>2, <2>3 DEF TypeOK
  <1>3. ASSUME NEW f \in Files, Interrupted(f)
        PROVE  \A g \in Files : disk'[g] \in Drafts => disk[g] = disk'[g]
    BY <1>3, InterruptedContents, ContentsAssumption
  <1>4. CASE UNCHANGED disk
    BY <1>4
  <1> QED
    BY <1>1, <1>2, <1>3, <1>4
    DEF GetStep, BeginGet, GetReadManifest, GetWriteManifest, UpdateStep, BeginUpdate,
        CheckProfile, SourceFails, UpdateWritesManifest, UpdateSaveFails, EndUpdate,
        Return, Crash, CopyFails

(***************************************************************************)
(* The checks before the copies: what a fetch plans without --force, and   *)
(* what an update takes for outdated, is no draft.                         *)
(***************************************************************************)
LEMMA BeginGetReplaceable ==
  ASSUME TypeOK, NEW t \in Terminals, NEW p \in Profiles, NEW force \in BOOLEAN,
         BeginGet(t, p, force)
  PROVE  Replaceable(t, job'[t], disk, late)
  <1> DEFINE plan == Plan(p, upstream)
             failed == plan = {} \/ (Differs(p, upstream) # {} /\ ~force)
  <1>1. /\ job'[t].todo = IF failed THEN {} ELSE plan
        /\ job'[t].pc = IF failed THEN "exit" ELSE "copy"
        /\ job'[t].force = force
    BY DEF BeginGet, TypeOK, Idle
  <1>2. ASSUME ~failed, NEW f \in plan, ~force
        PROVE  disk[f] \notin Drafts
    <2>1. f \in Files /\ upstream[f] \in Versions /\ disk[f] \in {Absent, upstream[f]}
      BY <1>2, OwnsAssumption DEF Plan, Differs, TypeOK
    <2> QED BY <2>1, ContentsAssumption
  <1> QED
    BY <1>1, <1>2 DEF Replaceable

(* What `cds update` decides to replace is no content of the user's own. *)
LEMMA CheckProfileReplaceable ==
  ASSUME TypeOK, UpdatesTracked, NEW t \in Terminals, NEW p \in Profiles,
         CheckProfile(t, p), Replaceable(t, job[t], disk, late)
  PROVE  Replaceable(t, job'[t], disk, late)
  <1> DEFINE plan == Plan(p, upstream) \cap job[t].scope
             hash == job[t].book[p]
  <1>1. job[t] \in Jobs /\ p \in job[t].queue /\ job[t].pc = "next"
        /\ job[t].kind = "update"
    BY DEF TypeOK, CheckProfile, UpdatesTracked
  <1>2. hash \in Entries
    BY <1>1, MarkersAssumption DEF UpdatesTracked, TrackedIn, Jobs, Books
  <1>3. CASE plan = {}
    <2>1. job'[t].todo = job[t].todo
      BY <1>3, <1>1 DEF CheckProfile, TypeOK, Jobs
    <2> QED BY <2>1, <1>1 DEF Replaceable
  <1>4. CASE plan # {}
    <2>1. job'[t].todo = Outdated(plan, upstream, hash) /\ job'[t].pc = "copy"
      BY <1>4, <1>1 DEF CheckProfile, TypeOK, Jobs
    <2>2. ASSUME NEW f \in Outdated(plan, upstream, hash)
          PROVE  disk[f] \notin Drafts
      <3>1. f \in Files /\ disk[f] \in {Absent, hash[f]}
        BY <2>2, OwnsAssumption DEF Outdated, Plan
      <3> QED BY <3>1, <1>2, ContentsAssumption DEF Entries
    <2> QED BY <2>1, <2>2 DEF Replaceable
  <1> QED
    BY <1>3, <1>4

(***************************************************************************)
(* The step that disturbs nothing else: another terminal's pending copies  *)
(* stay harmless, because a command's step creates no draft.               *)
(***************************************************************************)
LEMMA NextReplaceable ==
  TypeOK /\ UpdatesTracked /\ PendingIsReplaceable /\ [Next]_vars
    => PendingIsReplaceable'
  <1> SUFFICES ASSUME TypeOK, UpdatesTracked, PendingIsReplaceable, [Next]_vars
               PROVE  PendingIsReplaceable'
    OBVIOUS
  <1>a. \A t \in Terminals : Replaceable(t, job[t], disk, late) /\ job[t] \in Jobs
    BY DEF PendingIsReplaceable, Replaceable, TypeOK
  <1>b. (\A u \in Terminals : Replaceable(u, job'[u], disk', late')) => PendingIsReplaceable'
    BY DEF PendingIsReplaceable, Replaceable
  <1>c. job = [u \in Terminals |-> job[u]]
    BY DEF TypeOK
  <1>1. ASSUME NEW t \in Terminals,
               \/ GetStep(t) \/ UpdateStep(t) \/ Return(t) \/ Crash(t)
               \/ \E f \in Files : Copy(t, f) \/ CopyFails(t, f)
        PROVE  \A u \in Terminals : Replaceable(u, job'[u], disk', late')
    <2>1. \A f \in Files : disk'[f] \in Drafts => disk[f] = disk'[f]
      BY <1>1, CommandsWriteNoDrafts
    <2>2. \A u \in Terminals \ {t} : job'[u] = job[u]
      BY <1>1, <1>c
      DEF GetStep, BeginGet, GetReadManifest, GetWriteManifest, UpdateStep, BeginUpdate,
          CheckProfile, SourceFails, UpdateWritesManifest, UpdateSaveFails, EndUpdate,
          Return, Crash, Copy, CopyFails
    <2>3. Replaceable(t, job'[t], disk, late)
      <3>1. ASSUME NEW p \in Profiles, NEW force \in BOOLEAN, BeginGet(t, p, force)
            PROVE  Replaceable(t, job'[t], disk, late)
        BY <3>1, BeginGetReplaceable
      <3>2. ASSUME NEW p \in Profiles, CheckProfile(t, p)
            PROVE  Replaceable(t, job'[t], disk, late)
        BY <3>2, <1>a, CheckProfileReplaceable
      <3>3. ASSUME job'[t].todo = {}
            PROVE  Replaceable(t, job'[t], disk, late)
        BY <3>3 DEF Replaceable
      <3>4. ASSUME NEW f \in Files, Copy(t, f)
            PROVE  Replaceable(t, job'[t], disk, late)
        <4>1. /\ job'[t].todo \subseteq job[t].todo
              /\ job'[t].pc = job[t].pc /\ job'[t].force = job[t].force
          BY <3>4, <1>a, <1>c DEF Copy, Jobs
        <4> QED BY <4>1, <1>a DEF Replaceable
      <3>5. ASSUME NEW f \in Files, CopyFails(t, f)
            PROVE  job'[t].todo = {}
        BY <3>5, <1>a, <1>c DEF CopyFails, Jobs
      <3>6. ASSUME NEW wanted, NEW scope, BeginUpdate(t, wanted, scope)
            PROVE  job'[t].todo = {}
        <4>1. PICK m \in Found(t) :
                LET book  == Parsed(m)
                    queue == wanted \cap TrackedIn(book)
                IN  job' = [job EXCEPT ![t] =
                      [Idle EXCEPT !.pc = IF queue = {} THEN "exit" ELSE "next",
                                   !.kind = "update", !.scope = scope,
                                   !.queue = queue, !.book = book,
                                   !.errors = (queue = {})]]
          BY <3>6 DEF BeginUpdate
        <4> QED BY <4>1, <1>c DEF Idle
      <3>7. ASSUME Return(t) \/ Crash(t)
            PROVE  job'[t].todo = {}
        BY <3>7, <1>c DEF Return, Crash, Idle
      <3>8. ASSUME NEW p \in Profiles, SourceFails(t, p)
            PROVE  job'[t].todo = {}
        BY <3>8, <1>a, <1>c DEF SourceFails, Jobs, Replaceable
      <3>9. ASSUME UpdateWritesManifest(t) \/ UpdateSaveFails(t)
            PROVE  job'[t].todo = {}
        <4>1. CASE UpdateWritesManifest(t)
          BY <4>1, <1>a, <1>c DEF UpdateWritesManifest, Jobs
        <4>2. CASE UpdateSaveFails(t)
          BY <4>2, <1>a, <1>c DEF UpdateSaveFails, Jobs
        <4> QED BY <3>9, <4>1, <4>2
      <3>10. ASSUME EndUpdate(t)
             PROVE  job'[t].todo = {}
        BY <3>10, <1>a, <1>c DEF EndUpdate, Jobs, Replaceable
      <3>11. ASSUME GetReadManifest(t)
             PROVE  job'[t].todo = {}
        BY <3>11, <1>a, <1>c DEF GetReadManifest, Jobs, Replaceable
      <3>12. ASSUME GetWriteManifest(t)
             PROVE  job'[t].todo = {}
        BY <3>12, <1>a, <1>c DEF GetWriteManifest, Jobs, Replaceable
      <3> QED
        BY <1>1, <3>1, <3>2, <3>3, <3>4, <3>5, <3>6, <3>7, <3>8, <3>9, <3>10,
           <3>11, <3>12
        DEF GetStep, UpdateStep
    <2>4. \A u \in Terminals : job'[u].todo \in SUBSET Files
      BY <1>1, NextTypeOK DEF Next, TypeOK, Jobs
    <2>5. \A u \in Terminals : Replaceable(u, job'[u], disk, late)
      BY <2>2, <2>3, <1>a
    <2>6. \A u \in Terminals \ {t}, f \in Files : <<u, f>> \in late => <<u, f>> \in late'
      BY <1>1
      DEF GetStep, BeginGet, GetReadManifest, GetWriteManifest, UpdateStep, BeginUpdate,
          CheckProfile, SourceFails, UpdateWritesManifest, UpdateSaveFails, EndUpdate,
          Return, Crash, Copy, CopyFails
    <2>7. late' = late \/ job'[t].todo = {}
      <3>1. CASE Return(t) \/ Crash(t)
        BY <3>1, <1>c DEF Return, Crash, Idle
      <3>2. CASE ~(Return(t) \/ Crash(t))
        BY <1>1, <3>2
        DEF GetStep, BeginGet, GetReadManifest, GetWriteManifest, UpdateStep, BeginUpdate,
            CheckProfile, SourceFails, UpdateWritesManifest, UpdateSaveFails, EndUpdate,
            Copy, CopyFails
      <3> QED BY <3>1, <3>2
    <2> QED
      BY <2>1, <2>4, <2>5, <2>6, <2>7 DEF Replaceable
  <1>2. ASSUME NEW f \in Files, NEW c \in Contents, Edit(f, c)
        PROVE  \A u \in Terminals : Replaceable(u, job'[u], disk', late')
    <2>1. job' = job /\ \A g \in Files \ {f} : disk'[g] = disk[g]
      BY <1>2 DEF Edit, TypeOK
    <2>2. \A u \in Terminals : job[u].todo \in SUBSET Files
      BY <1>a DEF Jobs
    <2>3. late' = late \cup ({t \in Terminals : Busy(t)} \X {f})
      BY <1>2 DEF Edit
    <2>4. ASSUME NEW u \in Terminals, job[u].todo # {}
          PROVE  <<u, f>> \in late'
      BY <2>3, <2>4, <1>a DEF Busy, Replaceable
    <2>5. \A u \in Terminals, g \in Files : <<u, g>> \in late => <<u, g>> \in late'
      BY <2>3
    <2> QED BY <2>1, <2>2, <2>4, <2>5, <1>a DEF Replaceable
  <1>3. ASSUME UNCHANGED <<job, disk, late>>
        PROVE  \A u \in Terminals : Replaceable(u, job'[u], disk', late')
    BY <1>3, <1>a
  <1> QED
    BY <1>1, <1>2, <1>3, <1>b DEF Next, vars, Release

(***************************************************************************)
(* The checks hold up until the copies: no unforced command is about to    *)
(* overwrite a file whose content only the user has, unless it was saved   *)
(* while that command ran, whatever other commands do and wherever they    *)
(* fail or are killed.                                                     *)
(***************************************************************************)
THEOREM PendingCopiesAreSafe == Spec => []PendingIsReplaceable
  <1>1. Init => PendingIsReplaceable
    BY DEF Init, PendingIsReplaceable, Idle
  <1> QED
    BY <1>1, TypeCorrect, NextReplaceable, PTL DEF Spec

(***************************************************************************)
(* No command but a forced fetch ever overwrites content that only the     *)
(* user has, unless it was saved while that command ran (the check and the *)
(* copy of a file are two steps).                                          *)
(***************************************************************************)
THEOREM DraftsAreSafe == Spec => DraftsSurvive
  <1>1. PendingIsReplaceable /\ [Next]_vars =>
          [\A t \in Terminals, f \in Files :
             WrittenBy(t, f) /\ disk[f] \in Drafts
               => job[t].force \/ <<t, f>> \in late]_vars
    BY DEF PendingIsReplaceable, WrittenBy
  <1> QED
    BY <1>1, PendingCopiesAreSafe, PTL DEF Spec, DraftsSurvive

-----------------------------------------------------------------------------
(***************************************************************************)
(* While only one terminal runs commands: what an update has in memory     *)
(* covers what the manifest on the disk tracks.                            *)
(***************************************************************************)
Covers(b, m) ==
  \A p \in Profiles : m[p] # Untracked =>
    b[p] # Untracked /\ \A f \in Files : m[p][f] # Absent => b[p][f] # Absent

Kept(j, m) ==
  j.kind = "update" =>
    /\ j.pc # "save"
    /\ j.pc \in {"next", "copy"} /\ m # Malformed => Covers(j.book, m)
    /\ j.pc = "copy" => \A f \in j.latest : j.src[f] # Absent

BooksKept == \A t \in Terminals : Kept(job[t], manifest)

(* Merging adds to what is in memory. *)
LEMMA MergedCovers ==
  ASSUME TypeOK, UpdatesTracked, BooksKept, NEW t \in Terminals,
         job[t].pc = "copy", job[t].kind = "update"
  PROVE  /\ Merged(t) \in Books
         /\ manifest # Malformed => Covers(Merged(t), manifest)
         /\ Covers(Merged(t), Merged(t))
  <1>1. job[t] \in Jobs /\ job[t].profile \in Profiles
    BY DEF TypeOK, UpdatesTracked, TrackedIn
  <1>2. Merged(t) \in Books
    BY MergedIsBook
  <1> DEFINE entry == [f \in Files |-> IF f \in job[t].latest THEN job[t].src[f]
                                       ELSE job[t].book[job[t].profile][f]]
  <1>3. \A p \in Profiles : Merged(t)[p] = IF p = job[t].profile THEN entry ELSE job[t].book[p]
    BY <1>1 DEF Merged, Jobs, Books
  <1>4. entry # Untracked
    <2>1. job[t].book[job[t].profile] \in Entries
      BY <1>1, MarkersAssumption DEF UpdatesTracked, TrackedIn, Jobs, Books
    <2>2. entry \in Entries
      BY <1>1, <2>1 DEF Jobs, Entries
    <2> HIDE DEF entry
    <2> QED BY <2>2, MarkersAssumption
  <1>5. \A f \in Files : job[t].book[job[t].profile][f] # Absent => entry[f] # Absent
    BY <1>1 DEF BooksKept, Kept
  <1>6. manifest # Malformed => Covers(job[t].book, manifest)
    BY DEF BooksKept, Kept
  <1> HIDE DEF entry
  <1> QED BY <1>2, <1>3, <1>4, <1>5, <1>6 DEF Covers

LEMMA KeepStep ==
  ASSUME \A s, t \in Terminals : s = t,
         TypeOK, UpdatesTracked, BooksKept, [Next]_vars
  PROVE  BooksKept'
  <1>a. \A t \in Terminals : Kept(job[t], manifest) /\ job[t] \in Jobs
    BY DEF BooksKept, TypeOK
  <1>b. \A m : Kept(Idle, m)
    BY DEF Idle, Kept
  <1>d. job = [t \in Terminals |-> job[t]]
    BY DEF TypeOK
  <1>e. (\A u \in Terminals : Kept(job'[u], manifest')) => BooksKept'
    BY DEF BooksKept, Kept, Covers
  <1>1. ASSUME NEW t \in Terminals, GetStep(t)
        PROVE  Kept(job'[t], manifest')
    <2>1. job'[t].kind = "get"
      <3>1. ASSUME NEW p, NEW force, BeginGet(t, p, force)
            PROVE  job'[t].kind = "get"
        BY <3>1, <1>d DEF BeginGet, Idle
      <3>2. CASE GetReadManifest(t)
        BY <3>2, <1>a, <1>d DEF GetReadManifest, Jobs
      <3>3. CASE GetWriteManifest(t)
        BY <3>3, <1>a, <1>d DEF GetWriteManifest, Jobs
      <3> QED BY <1>1, <3>1, <3>2, <3>3 DEF GetStep
    <2> QED BY <2>1 DEF Kept
  <1>2. ASSUME NEW t \in Terminals, NEW wanted, NEW scope, BeginUpdate(t, wanted, scope)
        PROVE  Kept(job'[t], manifest')
    <2>1. Found(t) = {manifest}
      BY DEF Found
    <2>2. /\ job'[t].kind = "update" /\ job'[t].pc \in {"exit", "next"}
          /\ job'[t].book = Parsed(manifest) /\ manifest' = manifest
      <3>1. PICK m \in Found(t) :
              LET book  == Parsed(m)
                  queue == wanted \cap TrackedIn(book)
              IN  job' = [job EXCEPT ![t] =
                    [Idle EXCEPT !.pc = IF queue = {} THEN "exit" ELSE "next",
                                 !.kind = "update", !.scope = scope,
                                 !.queue = queue, !.book = book,
                                 !.errors = (queue = {})]]
        BY <1>2 DEF BeginUpdate
      <3>2. m = manifest /\ manifest' = manifest
        BY <1>2, <2>1 DEF BeginUpdate
      <3>3. /\ job'[t].kind = "update" /\ job'[t].pc \in {"exit", "next"}
            /\ job'[t].book = Parsed(m)
        BY <3>1, <1>d DEF Idle
      <3> QED BY <3>2, <3>3
    <2> QED BY <2>2 DEF Kept, Covers, Parsed
  <1>3. ASSUME NEW t \in Terminals, NEW p \in Profiles, CheckProfile(t, p)
        PROVE  Kept(job'[t], manifest')
    <2>1. /\ job'[t].kind = job[t].kind /\ job'[t].book = job[t].book /\ manifest' = manifest
          /\ job[t].pc = "next" /\ job'[t].pc \in {"next", "copy"}
      BY <1>3, <1>a, <1>d DEF CheckProfile, Jobs
    <2>2. job'[t].pc = "copy" => \A f \in job'[t].latest : job'[t].src[f] # Absent
      <3> DEFINE plan   == Plan(p, upstream) \cap job[t].scope
                 update == Outdated(plan, upstream, job[t].book[p])
      <3>1. job'[t].pc = "copy" => job'[t].src = upstream /\ job'[t].latest = update \cup Current(plan, upstream)
        BY <1>3, <1>a, <1>d DEF CheckProfile, Jobs
      <3>2. update \cup Current(plan, upstream) \subseteq Plan(p, upstream)
        BY DEF Outdated, Current
      <3> QED BY <3>1, <3>2 DEF Plan
    <2> QED BY <1>a, <2>1, <2>2 DEF Kept
  <1>4. ASSUME NEW t \in Terminals, NEW p \in Profiles, SourceFails(t, p)
        PROVE  Kept(job'[t], manifest')
    <2>1. /\ job'[t].kind = job[t].kind /\ job'[t].book = job[t].book /\ manifest' = manifest
          /\ job[t].pc = "next" /\ job'[t].pc = "next"
      BY <1>4, <1>a, <1>d DEF SourceFails, Jobs
    <2> QED BY <1>a, <2>1 DEF Kept
  <1>5. ASSUME NEW t \in Terminals, UpdateWritesManifest(t) \/ UpdateSaveFails(t)
        PROVE  Kept(job'[t], manifest')
    <2>1. /\ job'[t].pc = "next" /\ job'[t].book = Merged(t)
          /\ manifest' \in {manifest, Merged(t)}
          /\ job[t].kind = "update" /\ job[t].pc = "copy"
      <3>1. CASE UpdateWritesManifest(t)
        BY <3>1, <1>a, <1>d DEF UpdateWritesManifest, Jobs
      <3>2. CASE UpdateSaveFails(t)
        BY <3>2, <1>a, <1>d DEF UpdateSaveFails, Jobs
      <3> QED BY <1>5, <3>1, <3>2
    <2> QED BY <2>1, MergedCovers DEF Kept
  <1>6. ASSUME NEW t \in Terminals, EndUpdate(t)
        PROVE  Kept(job'[t], manifest')
    <2>1. job'[t].pc = "exit"
      BY <1>6, <1>a, <1>d DEF EndUpdate, Jobs
    <2> QED BY <2>1 DEF Kept
  <1>7. ASSUME NEW t \in Terminals, NEW f \in Files, Copy(t, f) \/ CopyFails(t, f)
        PROVE  Kept(job'[t], manifest')
    <2>1. /\ job'[t].book = job[t].book /\ job'[t].src = job[t].src
          /\ job'[t].kind = job[t].kind /\ job[t].pc = "copy" /\ job'[t].pc # "save"
          /\ job'[t].latest \subseteq job[t].latest /\ manifest' = manifest
      BY <1>7, <1>a, <1>d DEF Copy, CopyFails, Jobs
    <2> QED BY <1>a, <2>1 DEF Kept
  <1>8. ASSUME NEW t \in Terminals, Return(t) \/ Crash(t)
        PROVE  Kept(job'[t], manifest')
    BY <1>8, <1>b, <1>d DEF Return, Crash
  <1>9. CASE UNCHANGED <<job, manifest>>
    BY <1>9, <1>a, <1>e
  <1>10. CASE \E t \in Terminals : GetStep(t) \/ UpdateStep(t) \/ Return(t) \/ Crash(t)
                \/ \E f \in Files : Copy(t, f) \/ CopyFails(t, f)
    <2>1. PICK t \in Terminals : GetStep(t) \/ UpdateStep(t) \/ Return(t) \/ Crash(t)
                \/ \E f \in Files : Copy(t, f) \/ CopyFails(t, f)
      BY <1>10
    <2>2. Kept(job'[t], manifest')
      BY <1>1, <1>2, <1>3, <1>4, <1>5, <1>6, <1>7, <1>8, <2>1 DEF UpdateStep
    <2> QED BY <1>e, <2>2
  <1> QED BY <1>9, <1>10 DEF Next, vars, Edit, Release

(***************************************************************************)
(* With one terminal, an update forgets no profile and no file that the    *)
(* manifest tracks, for any files shared by any profiles and whatever      *)
(* fails or dies on the way.                                               *)
(***************************************************************************)
THEOREM TrackingIsKept ==
  ASSUME \A s, t \in Terminals : s = t
  PROVE  Spec => UpdateKeepsTracking
  <1>1. Init => BooksKept
    BY DEF Init, BooksKept, Kept, Idle
  <1>2. TypeOK /\ UpdatesTracked /\ BooksKept /\ [Next]_vars => BooksKept'
    BY KeepStep
  <1>3. TypeOK /\ UpdatesTracked /\ BooksKept /\ [Next]_vars =>
          [\A t \in Terminals :
             job[t].kind = "update" /\ Busy(t) /\ job'[t] # job[t] /\ manifest # Malformed
               => /\ manifest' # Malformed
                  /\ \A p \in TrackedIn(manifest) :
                       /\ manifest'[p] # Untracked
                       /\ \A f \in Files : manifest[p][f] # Absent => manifest'[p][f] # Absent]_vars
    <2> SUFFICES ASSUME TypeOK, UpdatesTracked, BooksKept, Next, NEW t \in Terminals,
                        job[t].kind = "update", manifest # Malformed
                 PROVE  /\ manifest' # Malformed
                        /\ \A p \in TrackedIn(manifest) :
                             /\ manifest'[p] # Untracked
                             /\ \A f \in Files : manifest[p][f] # Absent => manifest'[p][f] # Absent
      OBVIOUS
    <2>1. job[t].pc # "save"
      BY DEF BooksKept, Kept
    <2>2. CASE UpdateWritesManifest(t)
      <3>1. manifest' = Merged(t) /\ job[t].pc = "copy"
        BY <2>2 DEF UpdateWritesManifest
      <3>2. Merged(t) \in Books /\ Covers(Merged(t), manifest)
        BY <3>1, MergedCovers
      <3> QED BY <3>1, <3>2, MarkersAssumption DEF Covers, TrackedIn
    <2>3. CASE manifest' = manifest
      BY <2>3 DEF TrackedIn
    <2>4. UpdateWritesManifest(t) \/ manifest' = manifest
      <3>1. ASSUME NEW u \in Terminals, GetStep(u) \/ UpdateStep(u) \/ Return(u) \/ Crash(u)
                     \/ \E f \in Files : Copy(u, f) \/ CopyFails(u, f)
            PROVE  UpdateWritesManifest(t) \/ manifest' = manifest
        <4>1. u = t
          OBVIOUS
        <4> QED BY <2>1, <3>1, <4>1 DEF GetStep, UpdateStep, Return, Crash, Copy, CopyFails, BeginGet,
                 GetReadManifest, GetWriteManifest, BeginUpdate, CheckProfile, SourceFails,
                 UpdateSaveFails, EndUpdate
      <3> QED BY <3>1 DEF Next, Edit, Release
    <2> QED BY <2>2, <2>3, <2>4
  <1> QED
    BY <1>1, <1>2, <1>3, TypeCorrect, PTL DEF Spec, UpdateKeepsTracking

-----------------------------------------------------------------------------
(***************************************************************************)
(* What an update overwrites, reports and delivers, with one terminal.     *)
(* `Synced` is about runs without a fault so far.  The hash the manifest   *)
(* has of a file that only one profile owns is the content a command last  *)
(* copied or accepted there (`base`), except between the copy of the file  *)
(* and the write of the manifest, where the job at hand has it; an update  *)
(* has in memory what the manifest says; and what it is about to overwrite *)
(* is missing or what a command put there, unless edited meanwhile.        *)
(***************************************************************************)
InHand(j, p, f) == j.pc \in {"copy", "save"} /\ j.profile = p /\ f \in j.latest \ j.todo

Recorded(j, m, b) ==
  \A p \in Profiles, f \in Files : m[p] # Untracked /\ m[p][f] # Absent =>
    /\ f \in Owns[p]
    /\ Exclusive(f) => InHand(j, p, f) \/ m[p][f] = b[f]

Written(j, b) ==
  j.pc \in {"copy", "save"} =>
    /\ j.profile \in Profiles
    /\ j.latest \subseteq Plan(j.profile, j.src) /\ j.todo \subseteq j.latest
    /\ \A f \in j.latest \ j.todo : b[f] = j.src[f]

InMemory(j, m) ==
  /\ j.kind = "update" => j.pc # "save" /\ (j.pc \in {"next", "copy"} => j.book = m)
  /\ j.kind = "get" /\ j.pc = "save" =>
       /\ j.todo = {}
       /\ \A p \in Profiles \ {j.profile} : j.book[p] = m[p]
       /\ \A f \in Files : j.book[j.profile][f] # Absent =>
            f \in j.latest /\ j.book[j.profile][f] = j.src[f]
  /\ j.todo # {} => j.pc = "copy"

Restores(t, j, d, b, l) ==
  j.kind = "update" =>
    \A f \in j.todo : Exclusive(f) => <<t, f>> \in l \/ d[f] \in {b[f], Absent}

InSync(t, j, m, d, b, l) ==
  Recorded(j, m, b) /\ Written(j, b) /\ InMemory(j, m) /\ Restores(t, j, d, b, l)

Synced ==
  spent["faults"] = 0 =>
    /\ manifest # Malformed
    /\ \A t \in Terminals : InSync(t, job[t], manifest, disk, base, late)

(***************************************************************************)
(* A step without a fault is none of the steps that fail.                  *)
(***************************************************************************)
LEMMA FaultsCounted ==
  ASSUME TypeOK, [Next]_vars, spent'["faults"] = 0
  PROVE  /\ spent["faults"] = 0
         /\ \A t \in Terminals :
              /\ ~Crash(t) /\ ~UpdateSaveFails(t)
              /\ \A p \in Profiles : ~SourceFails(t, p)
              /\ \A f \in Files : ~CopyFails(t, f)
  <1>1. spent \in [{"commands", "edits", "releases", "faults"} -> Nat]
    BY DEF TypeOK
  <1>2. ASSUME Spend("faults") PROVE FALSE
    BY <1>1, <1>2 DEF Spend
  <1>3. ASSUME NEW what \in {"commands", "edits", "releases"}, Spend(what)
        PROVE  spent["faults"] = 0
    BY <1>1, <1>3 DEF Spend
  <1>4. spent["faults"] = 0
    <2> DEFINE Paid == UNCHANGED spent \/ Spend("faults") \/ Spend("commands")
                         \/ Spend("edits") \/ Spend("releases")
    <2>1. ASSUME NEW t \in Terminals, GetStep(t) \/ UpdateStep(t)
          PROVE  Paid
      BY <2>1 DEF GetStep, BeginGet, GetReadManifest, GetWriteManifest, UpdateStep,
                  BeginUpdate, CheckProfile, SourceFails, UpdateWritesManifest,
                  UpdateSaveFails, EndUpdate
    <2>2. ASSUME NEW t \in Terminals, NEW f \in Files, Copy(t, f) \/ CopyFails(t, f)
          PROVE  Paid
      BY <2>2 DEF Copy, CopyFails
    <2>3. ASSUME NEW t \in Terminals, Return(t) \/ Crash(t)
          PROVE  Paid
      BY <2>3 DEF Return, Crash
    <2>4. ASSUME NEW f, NEW c, Edit(f, c) \/ Release(f, c)
          PROVE  Paid
      BY <2>4 DEF Edit, Release
    <2>5. Paid
      <3> HIDE DEF Paid
      <3>1. CASE UNCHANGED vars
        BY <3>1 DEF vars, Paid
      <3> QED BY <2>1, <2>2, <2>3, <2>4, <3>1 DEF Next
    <2> QED BY <1>2, <1>3, <2>5
  <1> QED
    BY <1>2, <1>4 DEF Crash, UpdateSaveFails, SourceFails, CopyFails

(* A fetch that begins has copied nothing, and the terminal was idle. *)
LEMMA BeginGetSynced ==
  ASSUME TypeOK, NEW t \in Terminals, NEW p \in Profiles, NEW force \in BOOLEAN,
         BeginGet(t, p, force), InSync(t, job[t], manifest, disk, base, late)
  PROVE  InSync(t, job'[t], manifest', disk', base', late')
  <1> DEFINE plan == Plan(p, upstream)
             failed == plan = {} \/ (Differs(p, upstream) # {} /\ ~force)
  <1>1. /\ job'[t].pc = IF failed THEN "exit" ELSE "copy"
        /\ job'[t].kind = "get" /\ job'[t].profile = p /\ job'[t].src = upstream
        /\ job'[t].todo = IF failed THEN {} ELSE plan
        /\ job'[t].latest = IF failed THEN {} ELSE plan
    BY DEF BeginGet, TypeOK, Idle
  <1>2. UNCHANGED <<manifest, disk, base, late>> /\ job[t].pc = "idle"
    BY DEF BeginGet
  <1>3. job'[t].todo = job'[t].latest /\ job'[t].latest \in SUBSET plan
    BY <1>1
  <1> HIDE DEF failed, plan
  <1>4. Recorded(job'[t], manifest', base')
    BY <1>2 DEF InSync, Recorded, InHand
  <1>5. Written(job'[t], base')
    BY <1>1, <1>3 DEF Written, plan
  <1>6. InMemory(job'[t], manifest') /\ Restores(t, job'[t], disk', base', late')
    BY <1>1 DEF InMemory, Restores
  <1> QED BY <1>4, <1>5, <1>6 DEF InSync

(* A copied file is in the hands of the job until the manifest has its hash. *)
LEMMA CopySynced ==
  ASSUME TypeOK, NEW t \in Terminals, NEW f \in Files, Copy(t, f),
         InSync(t, job[t], manifest, disk, base, late)
  PROVE  InSync(t, job'[t], manifest', disk', base', late')
  <1>a. job[t] \in Jobs /\ base \in [Files -> Contents] /\ disk \in [Files -> Contents]
    BY DEF TypeOK
  <1>1. /\ job[t].pc = "copy" /\ job'[t].pc = "copy" /\ f \in job[t].todo
        /\ job'[t].kind = job[t].kind /\ job'[t].profile = job[t].profile
        /\ job'[t].src = job[t].src /\ job'[t].latest = job[t].latest
        /\ job'[t].todo = job[t].todo \ {f} /\ job'[t].book = job[t].book
    BY <1>a DEF Copy, TypeOK, Jobs
  <1>2. manifest' = manifest /\ late' = late
    BY DEF Copy
  <1>3. /\ base'[f] = job[t].src[f] /\ \A g \in Files \ {f} : base'[g] = base[g]
        /\ \A g \in Files \ {f} : disk'[g] = disk[g]
    BY <1>a DEF Copy
  <1>4. /\ job[t].profile \in Profiles /\ f \in job[t].latest
        /\ job[t].latest \subseteq Plan(job[t].profile, job[t].src)
        /\ job[t].todo \subseteq job[t].latest
        /\ \A g \in job[t].latest \ job[t].todo : base[g] = job[t].src[g]
    BY <1>1 DEF InSync, Written
  <1>5. job[t].latest \subseteq Files /\ f \in Owns[job[t].profile]
    BY <1>a, <1>4 DEF Jobs, Plan
  <1>6. Recorded(job'[t], manifest', base')
    BY <1>1, <1>2, <1>3, <1>4, <1>5 DEF InSync, Recorded, InHand, Exclusive
  <1>7. Written(job'[t], base')
    BY <1>1, <1>3, <1>4, <1>5 DEF Written
  <1>8. InMemory(job'[t], manifest')
    BY <1>1, <1>2 DEF InSync, InMemory
  <1>9. Restores(t, job'[t], disk', base', late')
    BY <1>1, <1>2, <1>3, <1>4, <1>5 DEF InSync, Restores
  <1> QED BY <1>6, <1>7, <1>8, <1>9 DEF InSync

(* A `cds get` reads the manifest, and changes the entry of its profile. *)
LEMMA GetSynced ==
  ASSUME \A s, u \in Terminals : s = u,
         TypeOK, NEW t \in Terminals, GetReadManifest(t) \/ GetWriteManifest(t),
         manifest # Malformed, InSync(t, job[t], manifest, disk, base, late)
  PROVE  /\ manifest' # Malformed
         /\ InSync(t, job'[t], manifest', disk', base', late')
  <1>a. job[t] \in Jobs /\ manifest \in Books
    BY DEF TypeOK
  <1>1. CASE GetReadManifest(t)
    <2>1. Found(t) = {manifest}
      BY DEF Found
    <2>2. PICK m \in Found(t) :
            job' = [job EXCEPT ![t].pc = "save",
                      ![t].book = [Parsed(m) EXCEPT ![job[t].profile] = Fetched(t)]]
      BY <1>1 DEF GetReadManifest
    <2> DEFINE book == [manifest EXCEPT ![job[t].profile] = Fetched(t)]
    <2>3. job' = [job EXCEPT ![t].pc = "save", ![t].book = book]
      BY <2>1, <2>2 DEF Parsed
    <2>4. /\ job'[t].pc = "save" /\ job'[t].kind = "get" /\ job[t].pc = "copy"
          /\ job'[t].profile = job[t].profile /\ job'[t].src = job[t].src
          /\ job'[t].latest = job[t].latest /\ job'[t].todo = {} /\ job[t].todo = {}
          /\ job'[t].book = book
      <3> HIDE DEF book
      <3> QED BY <1>1, <1>a, <2>3 DEF GetReadManifest, TypeOK, Jobs
    <2>5. UNCHANGED <<manifest, disk, base, late>>
      BY <1>1 DEF GetReadManifest
    <2>6. job[t].profile \in Profiles
      BY <2>4 DEF InSync, Written
    <2>7. book[job[t].profile] = Fetched(t) /\ \A p \in Profiles \ {job[t].profile} : book[p] = manifest[p]
      BY <1>a, <2>6 DEF Books
    <2>8. \A f \in Files : Fetched(t)[f] # Absent => f \in job[t].latest /\ Fetched(t)[f] = job[t].src[f]
      BY DEF Fetched
    <2> HIDE DEF book
    <2>9. InMemory(job'[t], manifest')
      BY <2>4, <2>5, <2>7, <2>8 DEF InMemory
    <2>10. Recorded(job'[t], manifest', base') /\ Written(job'[t], base')
      BY <2>4, <2>5 DEF InSync, Recorded, Written, InHand
    <2>11. Restores(t, job'[t], disk', base', late')
      BY <2>4 DEF Restores
    <2> QED BY <2>5, <2>9, <2>10, <2>11 DEF InSync
  <1>2. CASE GetWriteManifest(t)
    <2>1. /\ manifest' = job[t].book /\ UNCHANGED <<disk, base, late>>
          /\ job'[t].pc = "exit" /\ job[t].pc = "save" /\ job[t].kind = "get"
          /\ job'[t].kind = "get" /\ job'[t].todo = job[t].todo
      BY <1>2, <1>a DEF GetWriteManifest, TypeOK, Jobs
    <2>2. /\ job[t].profile \in Profiles /\ job[t].todo = {}
          /\ job[t].latest \subseteq Plan(job[t].profile, job[t].src)
          /\ \A f \in job[t].latest : base[f] = job[t].src[f]
          /\ \A p \in Profiles \ {job[t].profile} : job[t].book[p] = manifest[p]
          /\ \A f \in Files : job[t].book[job[t].profile][f] # Absent =>
               f \in job[t].latest /\ job[t].book[job[t].profile][f] = job[t].src[f]
      BY <2>1 DEF InSync, Written, InMemory
    <2>3. manifest' # Malformed
      BY <1>a, <2>1, MarkersAssumption DEF Jobs
    <2>4. Recorded(job'[t], manifest', base')
      BY <2>1, <2>2 DEF InSync, Recorded, InHand, Plan
    <2>5. Written(job'[t], base') /\ InMemory(job'[t], manifest')
          /\ Restores(t, job'[t], disk', base', late')
      BY <2>1, <2>2 DEF Written, InMemory, Restores
    <2> QED BY <2>3, <2>4, <2>5 DEF InSync
  <1> QED BY <1>1, <1>2

(* The record of an update that begins. *)
LEMMA UpdateBegins ==
  ASSUME TypeOK, NEW t \in Terminals, NEW wanted, NEW scope,
         BeginUpdate(t, wanted, scope)
  PROVE  /\ job'[t].kind = "update" /\ job'[t].pc \in {"exit", "next"}
         /\ job'[t].todo = {} /\ job'[t].conflicts = {}
         /\ \E m \in Found(t) : job'[t].book = Parsed(m)
  <1>1. PICK m \in Found(t) :
          LET book  == Parsed(m)
              queue == wanted \cap TrackedIn(book)
          IN  job' = [job EXCEPT ![t] =
                [Idle EXCEPT !.pc = IF queue = {} THEN "exit" ELSE "next",
                             !.kind = "update", !.scope = scope,
                             !.queue = queue, !.book = book,
                             !.errors = (queue = {})]]
    BY DEF BeginUpdate
  <1>2. /\ job'[t].kind = "update" /\ job'[t].pc \in {"exit", "next"}
        /\ job'[t].book = Parsed(m) /\ job'[t].todo = {} /\ job'[t].conflicts = {}
    BY <1>1 DEF TypeOK, Idle
  <1> QED BY <1>2

(* An update that begins has the manifest in memory and nothing to copy. *)
LEMMA BeginUpdateSynced ==
  ASSUME \A s, u \in Terminals : s = u,
         TypeOK, NEW t \in Terminals, NEW wanted, NEW scope,
         BeginUpdate(t, wanted, scope),
         manifest # Malformed, InSync(t, job[t], manifest, disk, base, late)
  PROVE  InSync(t, job'[t], manifest', disk', base', late')
  <1>1. Found(t) = {manifest}
    BY DEF Found
  <1>2. /\ job'[t].kind = "update" /\ job'[t].pc \in {"exit", "next"}
        /\ job'[t].book = manifest /\ job'[t].todo = {}
    BY <1>1, UpdateBegins DEF Parsed
  <1>3. UNCHANGED <<manifest, disk, base, late>> /\ job[t].pc = "idle"
    BY DEF BeginUpdate
  <1> QED
    BY <1>2, <1>3 DEF InSync, Recorded, Written, InMemory, Restores, InHand

(***************************************************************************)
(* The sorting of a profile's files.  What is current is accepted, so its  *)
(* content is `base`; what is outdated is missing or has the hash the      *)
(* manifest recorded, which is `base` while only this profile owns it.     *)
(***************************************************************************)
LEMMA CheckProfileSynced ==
  ASSUME TypeOK, UpdatesTracked, NEW t \in Terminals, NEW p \in Profiles,
         CheckProfile(t, p),
         InSync(t, job[t], manifest, disk, base, late)
  PROVE  InSync(t, job'[t], manifest', disk', base', late')
  <1> DEFINE plan   == Plan(p, upstream) \cap job[t].scope
             hash   == job[t].book[p]
             update == Outdated(plan, upstream, hash)
             same   == Current(plan, upstream)
  <1>a. job[t] \in Jobs /\ job = [u \in Terminals |-> job[u]]
    BY DEF TypeOK
  <1>1. /\ job[t].pc = "next" /\ job[t].kind = "update" /\ p \in job[t].queue
        /\ UNCHANGED <<manifest, disk, late>>
        /\ base' = [f \in Files |-> IF f \in same THEN upstream[f] ELSE base[f]]
    BY DEF CheckProfile, UpdatesTracked
  <1>2. job[t].book = manifest /\ job[t].todo = {} /\ hash # Untracked
    BY <1>1 DEF InSync, InMemory, UpdatesTracked, TrackedIn
  <1>3. \A q \in Profiles, f \in Files : manifest[q] # Untracked /\ manifest[q][f] # Absent =>
          f \in Owns[q] /\ (Exclusive(f) => manifest[q][f] = base[f])
    BY <1>1 DEF InSync, Recorded, InHand
  <1>4. /\ plan \subseteq Plan(p, upstream) /\ plan \subseteq Owns[p] /\ plan \subseteq Files
        /\ update \subseteq plan /\ same \subseteq plan /\ update \cap same = {}
    BY OwnsAssumption DEF Plan, Outdated, Current
  <1>5. /\ job'[t].kind = "update" /\ job'[t].book = job[t].book
        /\ job'[t].profile = p
    BY <1>1, <1>a DEF CheckProfile, Jobs
  <1>6. CASE plan = {}
    <2>1. job'[t].pc = "next" /\ job'[t].todo = {}
      BY <1>1, <1>2, <1>6, <1>a DEF CheckProfile, Jobs
    <2>2. \A f \in Files : base'[f] = base[f]
      BY <1>1, <1>4, <1>6
    <2> QED
      BY <1>1, <1>2, <1>3, <1>5, <2>1, <2>2
      DEF InSync, Recorded, Written, InMemory, Restores, InHand
  <1>7. CASE plan # {}
    <2>1. /\ job'[t].pc = "copy" /\ job'[t].src = upstream
          /\ job'[t].todo = update /\ job'[t].latest = update \cup same
      BY <1>1, <1>7, <1>a DEF CheckProfile, Jobs
    <2>2. \A f \in Files : base'[f] = IF f \in same THEN upstream[f] ELSE base[f]
      BY <1>1
    <2>3. ASSUME NEW f \in update, Exclusive(f)
          PROVE  disk[f] \in {base[f], Absent}
      <3>1. f \in Files /\ disk[f] \in {hash[f], Absent}
        BY <1>4, <2>3 DEF Outdated
      <3>2. hash[f] # Absent => hash[f] = base[f]
        BY <1>2, <1>3, <2>3, <3>1
      <3> QED BY <3>1, <3>2
    <2> HIDE DEF plan, hash, update, same
    <2>4. Recorded(job'[t], manifest', base')
      <3> SUFFICES ASSUME NEW q \in Profiles, NEW f \in Files,
                          manifest[q] # Untracked, manifest[q][f] # Absent
                   PROVE  /\ f \in Owns[q]
                          /\ Exclusive(f) => InHand(job'[t], q, f) \/ manifest[q][f] = base'[f]
        BY <1>1 DEF Recorded
      <3>1. CASE f \in same
        <4>1. Exclusive(f) => q = p
          BY <1>3, <1>4, <3>1 DEF Exclusive
        <4>2. f \in job'[t].latest \ job'[t].todo
          BY <1>4, <2>1, <3>1
        <4> QED BY <1>3, <1>5, <2>1, <4>1, <4>2 DEF InHand
      <3>2. CASE f \notin same
        BY <1>3, <2>2, <3>2
      <3> QED BY <3>1, <3>2
    <2>5. Written(job'[t], base')
      BY <1>4, <1>5, <2>1, <2>2 DEF Written
    <2>6. InMemory(job'[t], manifest')
      BY <1>1, <1>2, <1>5, <2>1 DEF InMemory
    <2>7. Restores(t, job'[t], disk', base', late')
      BY <1>1, <1>4, <2>1, <2>2, <2>3 DEF Restores
    <2> QED BY <2>4, <2>5, <2>6, <2>7 DEF InSync
  <1> QED BY <1>6, <1>7

(* What an update records of the files in its hands is what is there. *)
LEMMA UpdateWritesSynced ==
  ASSUME TypeOK, UpdatesTracked, NEW t \in Terminals, UpdateWritesManifest(t),
         InSync(t, job[t], manifest, disk, base, late)
  PROVE  /\ manifest' # Malformed
         /\ InSync(t, job'[t], manifest', disk', base', late')
  <1> DEFINE p     == job[t].profile
             entry == [f \in Files |-> IF f \in job[t].latest THEN job[t].src[f]
                                       ELSE job[t].book[p][f]]
  <1>a. job[t] \in Jobs /\ job = [u \in Terminals |-> job[u]]
    BY DEF TypeOK
  <1>1. /\ job[t].pc = "copy" /\ job[t].kind = "update" /\ job[t].todo = {}
        /\ manifest' = Merged(t) /\ UNCHANGED <<disk, base, late>>
    BY DEF UpdateWritesManifest
  <1>2. /\ job'[t].pc = "next" /\ job'[t].kind = "update" /\ job'[t].todo = {}
        /\ job'[t].book = Merged(t)
    BY <1>1, <1>a DEF UpdateWritesManifest, Jobs
  <1>3. /\ p \in Profiles /\ job[t].book = manifest
        /\ job[t].latest \subseteq Plan(p, job[t].src)
        /\ \A f \in job[t].latest : base[f] = job[t].src[f]
    BY <1>1 DEF InSync, Written, InMemory
  <1>4. Merged(t) \in Books
    BY <1>1, MergedIsBook
  <1>5. \A q \in Profiles : Merged(t)[q] = IF q = p THEN entry ELSE manifest[q]
    BY <1>a, <1>3 DEF Merged, Jobs, Books
  <1>6. manifest[p] # Untracked
    BY <1>1, <1>3 DEF UpdatesTracked, TrackedIn
  <1>7. \A f \in Files : entry[f] = IF f \in job[t].latest THEN base[f] ELSE manifest[p][f]
    BY <1>3
  <1> HIDE DEF entry
  <1>8. Recorded(job'[t], manifest', base')
    BY <1>1, <1>2, <1>3, <1>5, <1>6, <1>7 DEF InSync, Recorded, InHand, Plan
  <1>9. Written(job'[t], base') /\ InMemory(job'[t], manifest')
        /\ Restores(t, job'[t], disk', base', late')
    BY <1>1, <1>2 DEF Written, InMemory, Restores
  <1>10. manifest' # Malformed
    BY <1>1, <1>4, MarkersAssumption
  <1> QED BY <1>8, <1>9, <1>10 DEF InSync

(* The end of a command has nothing in its hands and nothing in memory. *)
LEMMA EndSynced ==
  ASSUME TypeOK, NEW t \in Terminals, EndUpdate(t) \/ Return(t),
         InSync(t, job[t], manifest, disk, base, late)
  PROVE  InSync(t, job'[t], manifest', disk', base', late')
  <1>a. job[t] \in Jobs /\ job = [u \in Terminals |-> job[u]]
    BY DEF TypeOK
  <1>1. UNCHANGED <<manifest, disk, base>> /\ job[t].pc \in {"next", "exit"}
    BY DEF EndUpdate, Return
  <1>2. job'[t].pc \in {"idle", "exit"} /\ job'[t].todo = {}
    <2>1. job[t].todo = {}
      BY <1>1 DEF InSync, InMemory
    <2>2. CASE EndUpdate(t)
      BY <2>1, <2>2, <1>a DEF EndUpdate, Jobs
    <2>3. CASE Return(t)
      BY <2>3, <1>a DEF Return, Idle
    <2> QED BY <2>2, <2>3
  <1> QED
    BY <1>1, <1>2 DEF InSync, Recorded, Written, InMemory, Restores, InHand

(* A file that is edited under a running command is late. *)
LEMMA EnvironmentSynced ==
  ASSUME TypeOK, NEW t \in Terminals, NEW f, NEW c, Edit(f, c) \/ Release(f, c),
         InSync(t, job[t], manifest, disk, base, late)
  PROVE  InSync(t, job'[t], manifest', disk', base', late')
  <1>1. UNCHANGED <<job, manifest, base>>
    BY DEF Edit, Release
  <1>2. Restores(t, job'[t], disk', base', late')
    <2>1. CASE Release(f, c)
      BY <2>1 DEF Release, InSync, Restores
    <2>2. CASE Edit(f, c)
      <3>1. \A g \in Files : disk'[g] # disk[g] => g = f
        BY <2>2 DEF Edit, TypeOK
      <3>2. late \subseteq late' /\ (Busy(t) => <<t, f>> \in late')
        BY <2>2 DEF Edit
      <3>3. job[t].todo # {} => Busy(t)
        BY DEF InSync, InMemory, Busy
      <3>4. job[t].todo \subseteq Files
        BY DEF TypeOK, Jobs
      <3> QED BY <1>1, <3>1, <3>2, <3>3, <3>4 DEF InSync, Restores
    <2> QED BY <2>1, <2>2
  <1> QED BY <1>1, <1>2 DEF InSync

LEMMA SyncedStep ==
  ASSUME \A s, u \in Terminals : s = u,
         TypeOK, UpdatesTracked, Synced, [Next]_vars
  PROVE  Synced'
  <1> SUFFICES ASSUME spent'["faults"] = 0
               PROVE  /\ manifest' # Malformed
                      /\ \A t \in Terminals : InSync(t, job'[t], manifest', disk', base', late')
    BY DEF Synced, InSync, Recorded, Written, InMemory, Restores, InHand
  <1>1. manifest # Malformed /\ \A t \in Terminals : InSync(t, job[t], manifest, disk, base, late)
    BY FaultsCounted DEF Synced
  <1> DEFINE InStep(t) == /\ manifest' # Malformed
                        /\ InSync(t, job'[t], manifest', disk', base', late')
  <1>2. ASSUME NEW t \in Terminals, GetStep(t)
        PROVE  InStep(t)
    <2>1. ASSUME NEW p \in Profiles, NEW force \in BOOLEAN, BeginGet(t, p, force)
          PROVE  InStep(t)
      BY <1>1, <2>1, BeginGetSynced DEF BeginGet
    <2> QED BY <1>1, <1>2, <2>1, GetSynced DEF GetStep
  <1>3. ASSUME NEW t \in Terminals, UpdateStep(t)
        PROVE  InStep(t)
    <2>1. ASSUME NEW wanted, NEW scope, BeginUpdate(t, wanted, scope)
          PROVE  InStep(t)
      <3>1. manifest' = manifest
        BY <2>1 DEF BeginUpdate
      <3>2. InSync(t, job'[t], manifest', disk', base', late')
        BY <1>1, <2>1, BeginUpdateSynced
      <3> QED BY <1>1, <3>1, <3>2
    <2>2. ASSUME NEW p \in Profiles, CheckProfile(t, p)
          PROVE  InStep(t)
      BY <1>1, <2>2, CheckProfileSynced DEF CheckProfile
    <2>3. ASSUME EndUpdate(t)
          PROVE  InStep(t)
      BY <1>1, <2>3, EndSynced DEF EndUpdate
    <2>4. ASSUME UpdateWritesManifest(t)
          PROVE  InStep(t)
      BY <1>1, <2>4, UpdateWritesSynced
    <2> QED BY <1>3, <2>1, <2>2, <2>3, <2>4, FaultsCounted DEF UpdateStep
  <1>4. ASSUME NEW t \in Terminals, NEW f \in Files, Copy(t, f)
        PROVE  InStep(t)
    BY <1>1, <1>4, CopySynced DEF Copy
  <1>5. ASSUME NEW t \in Terminals, Return(t)
        PROVE  InStep(t)
    BY <1>1, <1>5, EndSynced DEF Return
  <1>6. ASSUME NEW f, NEW c, Edit(f, c) \/ Release(f, c)
        PROVE  manifest' # Malformed /\ \A t \in Terminals : InStep(t)
    BY <1>1, <1>6, EnvironmentSynced DEF Edit, Release
  <1>7. CASE UNCHANGED vars
    BY <1>1, <1>7 DEF vars
  <1>8. CASE \E t \in Terminals : InStep(t)
    BY <1>8
  <1> HIDE DEF InStep
  <1>9. \/ UNCHANGED vars
        \/ \E t \in Terminals : InStep(t)
        \/ manifest' # Malformed /\ \A t \in Terminals : InStep(t)
    BY <1>2, <1>3, <1>4, <1>5, <1>6, FaultsCounted DEF Next
  <1> QED BY <1>7, <1>8, <1>9 DEF Kept

(* In every run of one terminal without a fault so far. *)
LEMMA SyncedAlways ==
  ASSUME \A s, u \in Terminals : s = u
  PROVE  Spec => []Synced
  <1>1. Init => Synced
    <2> SUFFICES ASSUME Init PROVE Synced
      OBVIOUS
    <2>1. manifest = NoProfiles /\ NoProfiles \in Books /\ manifest # Malformed
      BY MarkersAssumption DEF Init, NoProfiles, Books
    <2>2. \A t \in Terminals : job[t] = Idle
      BY DEF Init
    <2> QED
      BY <2>1, <2>2
      DEF Synced, InSync, Recorded, Written, InMemory, Restores, NoProfiles, Idle
  <1>2. TypeOK /\ UpdatesTracked /\ Synced /\ [Next]_vars => Synced'
    BY SyncedStep
  <1> QED BY <1>1, <1>2, TypeCorrect, PTL DEF Spec

(***************************************************************************)
(* With one terminal, an update overwrites a file that only the profile at *)
(* hand owns only if it is missing or as a command left it, as long as no  *)
(* command failed and it was not edited under the update: for any          *)
(* sequence of fetches, edits (an older version put back included),        *)
(* releases and updates of parts.                                          *)
(***************************************************************************)
THEOREM LocalEditsAreKept ==
  ASSUME \A s, u \in Terminals : s = u
  PROVE  Spec => EditsPreserved
  <1>1. TypeOK /\ UpdatesTracked /\ Synced /\ [Next]_vars =>
          [\A t \in Terminals, f \in Files :
             job[t].kind = "update" /\ WellTracked(f) /\ WrittenBy(t, f)
               => <<t, f>> \in late \/ disk[f] \in {base[f], Absent}]_vars
    <2> SUFFICES ASSUME Synced, NEW t \in Terminals, NEW f \in Files,
                        job[t].kind = "update", WellTracked(f), WrittenBy(t, f)
                 PROVE  <<t, f>> \in late \/ disk[f] \in {base[f], Absent}
      OBVIOUS
    <2>1. Restores(t, job[t], disk, base, late)
      BY DEF Synced, InSync, WellTracked
    <2> QED BY <2>1 DEF Restores, WellTracked, WrittenBy
  <1> QED
    BY <1>1, SyncedAlways, TypeCorrect, PTL DEF Spec, EditsPreserved

(***************************************************************************)
(* With one terminal, a tracked file that only one profile owns and an     *)
(* update reports as modified is no longer what a command left there, as   *)
(* long as no command failed.                                              *)
(***************************************************************************)
THEOREM ConflictsAreReal ==
  ASSUME \A s, u \in Terminals : s = u
  PROVE  Spec => ConflictsAreLocalEdits
  <1>1. TypeOK /\ UpdatesTracked /\ Synced /\ [Next]_vars =>
          [\A t \in Terminals, p \in Profiles, f \in Files :
             /\ <<p, f>> \in job'[t].conflicts \ job[t].conflicts
             /\ WellTracked(f)
             /\ job'[t].kind = "update"
             /\ job[t].book[p][f] # Absent
             => disk[f] # base[f]]_vars
    <2> SUFFICES ASSUME TypeOK, UpdatesTracked, Synced, Next,
                        NEW t \in Terminals, NEW p \in Profiles, NEW f \in Files,
                        <<p, f>> \in job'[t].conflicts, <<p, f>> \notin job[t].conflicts,
                        WellTracked(f), job'[t].kind = "update",
                        job[t].book[p][f] # Absent
                 PROVE  disk[f] # base[f]
      OBVIOUS
    <2>a. job[t] \in Jobs /\ job = [u \in Terminals |-> job[u]]
      BY DEF TypeOK
    <2>1. CheckProfile(t, p)
      <3>1. ASSUME NEW q \in Profiles, CheckProfile(t, q)
            PROVE  q = p
        BY <3>1, <2>a DEF CheckProfile, Jobs
      <3>2. ASSUME NEW q \in Profiles, NEW force \in BOOLEAN, BeginGet(t, q, force)
            PROVE  FALSE
        BY <3>2, <2>a DEF BeginGet, Idle
      <3>3. ASSUME NEW wanted, NEW scope, BeginUpdate(t, wanted, scope)
            PROVE  FALSE
        <4>1. job'[t].conflicts = {}
          BY <3>3, UpdateBegins
        <4> QED BY <4>1
      <3>4. ASSUME NEW g \in Files, Copy(t, g) \/ CopyFails(t, g)
            PROVE  FALSE
        BY <3>4, <2>a DEF Copy, CopyFails, Jobs
      <3>5. ASSUME \/ GetReadManifest(t) \/ GetWriteManifest(t) \/ EndUpdate(t)
                   \/ UpdateWritesManifest(t) \/ UpdateSaveFails(t)
                   \/ \E q \in Profiles : SourceFails(t, q)
            PROVE  job'[t].conflicts = job[t].conflicts
        <4>1. CASE GetReadManifest(t)
          BY <4>1, <2>a DEF GetReadManifest, Jobs
        <4>2. CASE GetWriteManifest(t) \/ EndUpdate(t)
          BY <4>2, <2>a DEF GetWriteManifest, EndUpdate, Jobs
        <4>3. CASE UpdateWritesManifest(t)
          BY <4>3, <2>a DEF UpdateWritesManifest, Jobs
        <4>4. CASE UpdateSaveFails(t)
          BY <4>4, <2>a DEF UpdateSaveFails, Jobs
        <4>5. CASE \E q \in Profiles : SourceFails(t, q)
          BY <4>5, <2>a DEF SourceFails, Jobs
        <4> QED BY <3>5, <4>1, <4>2, <4>3, <4>4, <4>5
      <3>6. ASSUME Return(t) \/ Crash(t)
            PROVE  job'[t].conflicts = {}
        BY <3>6, <2>a DEF Return, Crash, Idle
      <3>7. ASSUME NEW g, NEW c, Edit(g, c) \/ Release(g, c)
            PROVE  FALSE
        BY <3>7 DEF Edit, Release
      <3>8. GetStep(t) \/ UpdateStep(t) \/ Return(t) \/ Crash(t)
              \/ \E g \in Files : Copy(t, g) \/ CopyFails(t, g)
        BY <3>7 DEF Next
      <3> QED
        BY <3>1, <3>2, <3>3, <3>4, <3>5, <3>6, <3>8 DEF GetStep, UpdateStep
    <2> DEFINE plan == Plan(p, upstream) \cap job[t].scope
               hash == job[t].book[p]
    <2>2. /\ job[t].pc = "next" /\ job[t].kind = "update"
          /\ f \in InConflict(plan, upstream, hash)
                   \cup RemovedInConflict(plan, job[t].scope, hash)
      BY <2>1, <2>a DEF CheckProfile, UpdatesTracked, Jobs
    <2>3. Recorded(job[t], manifest, base) /\ InMemory(job[t], manifest)
      BY DEF Synced, InSync, WellTracked
    <2>4. hash = manifest[p] /\ hash # Untracked
      BY <2>1, <2>2, <2>3 DEF InMemory, CheckProfile, UpdatesTracked, TrackedIn
    <2>5. hash[f] = base[f]
      BY <2>2, <2>3, <2>4 DEF Recorded, InHand, WellTracked
    <2> QED
      BY <2>2, <2>5 DEF InConflict, RemovedInConflict, Current, Outdated
  <1> QED
    BY <1>1, SyncedAlways, TypeCorrect, PTL DEF Spec, ConflictsAreLocalEdits

-----------------------------------------------------------------------------
(***************************************************************************)
(* Where a selected file of the profile at hand is on its way: reported,   *)
(* edited meanwhile, still to be copied, or in place and to be recorded.   *)
(***************************************************************************)
Delivering(t, j, d, l) ==
  j.kind = "update" /\ j.pc = "copy" =>
    /\ \A f \in j.todo : f \in j.latest /\ (<<t, f>> \in l \/ d[f] # Dir)
    /\ \A f \in Plan(j.profile, j.src) \cap j.scope :
         \/ <<j.profile, f>> \in j.conflicts
         \/ <<t, f>> \in l
         \/ f \in j.todo
         \/ f \in j.latest /\ d[f] = j.src[f]

Underway == \A t \in Terminals : Delivering(t, job[t], disk, late)

LEMMA CheckProfileDelivers ==
  ASSUME TypeOK, UpdatesTracked, NEW t \in Terminals, NEW p \in Profiles,
         CheckProfile(t, p)
  PROVE  Delivering(t, job'[t], disk, late)
  <1> DEFINE plan   == Plan(p, upstream) \cap job[t].scope
             hash   == job[t].book[p]
             update == Outdated(plan, upstream, hash)
             same   == Current(plan, upstream)
  <1>a. job[t] \in Jobs /\ job = [u \in Terminals |-> job[u]]
    BY DEF TypeOK
  <1>1. job[t].pc = "next" /\ job[t].kind = "update" /\ p \in job[t].queue
    BY DEF CheckProfile, UpdatesTracked
  <1>2. hash \in Entries
    BY <1>a, <1>1, MarkersAssumption DEF UpdatesTracked, TrackedIn, Jobs, Books
  <1>3. CASE plan = {}
    BY <1>1, <1>3, <1>a DEF CheckProfile, Jobs, Delivering
  <1>4. CASE plan # {}
    <2>1. /\ job'[t].pc = "copy" /\ job'[t].src = upstream /\ job'[t].profile = p
          /\ job'[t].todo = update /\ job'[t].latest = update \cup same
          /\ job'[t].scope = job[t].scope
          /\ {p} \X InConflict(plan, upstream, hash) \subseteq job'[t].conflicts
      BY <1>1, <1>4, <1>a DEF CheckProfile, Jobs
    <2>2. ASSUME NEW f \in update PROVE disk[f] # Dir
      <3>1. f \in Files /\ disk[f] \in {Absent, hash[f]}
        BY <2>2, OwnsAssumption DEF Outdated, Plan
      <3> QED BY <1>2, <3>1, ContentsAssumption DEF Entries
    <2>3. \A f \in plan : f \in InConflict(plan, upstream, hash) \/ f \in update \/ f \in same
      BY DEF InConflict
    <2>4. \A f \in same : disk[f] = upstream[f]
      BY DEF Current
    <2> HIDE DEF update, same, hash
    <2> QED BY <2>1, <2>2, <2>3, <2>4 DEF Delivering
  <1> QED BY <1>3, <1>4

LEMMA UnderwayStep ==
  ASSUME \A s, u \in Terminals : s = u,
         TypeOK, UpdatesTracked, Underway, [Next]_vars
  PROVE  Underway'
  <1>a. \A t \in Terminals : job[t] \in Jobs /\ Delivering(t, job[t], disk, late)
    BY DEF TypeOK, Underway
  <1>b. job = [u \in Terminals |-> job[u]]
    BY DEF TypeOK
  <1>c. (\A t \in Terminals : Delivering(t, job'[t], disk', late')) => Underway'
    BY DEF Underway, Delivering
  <1>1. ASSUME NEW t \in Terminals, GetStep(t)
        PROVE  Delivering(t, job'[t], disk', late')
    <2>1. job'[t].kind = "get"
      <3>1. ASSUME NEW p, NEW force, BeginGet(t, p, force)
            PROVE  job'[t].kind = "get"
        BY <3>1, <1>b DEF BeginGet, Idle
      <3>2. CASE GetReadManifest(t)
        BY <3>2, <1>a, <1>b DEF GetReadManifest, Jobs
      <3>3. CASE GetWriteManifest(t)
        BY <3>3, <1>a, <1>b DEF GetWriteManifest, Jobs
      <3> QED BY <1>1, <3>1, <3>2, <3>3 DEF GetStep
    <2> QED BY <2>1 DEF Delivering
  <1>2. ASSUME NEW t \in Terminals, UpdateStep(t)
        PROVE  Delivering(t, job'[t], disk', late')
    <2>1. ASSUME NEW wanted, NEW scope, BeginUpdate(t, wanted, scope)
          PROVE  job'[t].pc # "copy"
      BY <2>1, UpdateBegins
    <2>2. ASSUME NEW p \in Profiles, CheckProfile(t, p)
          PROVE  Delivering(t, job'[t], disk', late')
      <3>1. disk' = disk /\ late' = late
        BY <2>2 DEF CheckProfile
      <3> QED BY <2>2, <3>1, CheckProfileDelivers
    <2>3. ASSUME NEW p \in Profiles, SourceFails(t, p)
          PROVE  job'[t].pc # "copy"
      BY <2>3, <1>a, <1>b DEF SourceFails, Jobs
    <2>4. CASE UpdateWritesManifest(t)
      <3>1. job'[t].pc # "copy"
        BY <2>4, <1>a, <1>b DEF UpdateWritesManifest, Jobs
      <3> QED BY <3>1 DEF Delivering
    <2>5. CASE UpdateSaveFails(t) \/ EndUpdate(t)
      <3>1. job'[t].pc # "copy"
        BY <2>5, <1>a, <1>b DEF UpdateSaveFails, EndUpdate, Jobs
      <3> QED BY <3>1 DEF Delivering
    <2>6. job'[t].pc # "copy" => Delivering(t, job'[t], disk', late')
      BY DEF Delivering
    <2> QED BY <1>2, <2>1, <2>2, <2>3, <2>4, <2>5, <2>6 DEF UpdateStep
  <1>3. ASSUME NEW t \in Terminals, NEW f \in Files, Copy(t, f)
        PROVE  Delivering(t, job'[t], disk', late')
    <2>1. /\ job'[t].kind = job[t].kind /\ job'[t].pc = job[t].pc /\ job'[t].src = job[t].src
          /\ job'[t].latest = job[t].latest /\ job'[t].conflicts = job[t].conflicts
          /\ job'[t].profile = job[t].profile /\ job'[t].scope = job[t].scope
          /\ job'[t].todo = job[t].todo \ {f} /\ f \in job[t].todo /\ late' = late
      BY <1>3, <1>a, <1>b DEF Copy, Jobs
    <2>2. /\ disk[f] # Dir => disk'[f] = job[t].src[f]
          /\ \A g \in Files \ {f} : disk'[g] = disk[g]
      BY <1>3 DEF Copy, Placed, TypeOK
    <2>3. job[t].todo \subseteq Files /\ job[t].scope \subseteq Files
      BY <1>a, ScopesAssumption DEF Jobs
    <2>4. CASE job[t].kind = "update"
      <3>1. job[t].pc = "copy"
        BY <1>3 DEF Copy
      <3>2. /\ \A g \in job[t].todo : g \in job[t].latest /\ (<<t, g>> \in late \/ disk[g] # Dir)
            /\ \A g \in Plan(job[t].profile, job[t].src) \cap job[t].scope :
                 \/ <<job[t].profile, g>> \in job[t].conflicts
                 \/ <<t, g>> \in late
                 \/ g \in job[t].todo
                 \/ g \in job[t].latest /\ disk[g] = job[t].src[g]
        BY <1>a, <2>4, <3>1 DEF Delivering
      <3>3. \A g \in job'[t].todo :
              g \in job'[t].latest /\ (<<t, g>> \in late' \/ disk'[g] # Dir)
        BY <2>1, <2>2, <2>3, <3>2
      <3>4. ASSUME NEW g \in Plan(job[t].profile, job[t].src) \cap job[t].scope
            PROVE  \/ <<job[t].profile, g>> \in job'[t].conflicts
                   \/ <<t, g>> \in late'
                   \/ g \in job'[t].todo
                   \/ g \in job'[t].latest /\ disk'[g] = job'[t].src[g]
        <4>1. CASE g = f
          BY <2>1, <2>2, <3>2, <4>1
        <4>2. CASE g # f
          BY <2>1, <2>2, <2>3, <3>2, <3>4, <4>2
        <4> QED BY <4>1, <4>2
      <3> QED BY <2>1, <3>3, <3>4 DEF Delivering
    <2> QED BY <2>1, <2>4 DEF Delivering
  <1>4. ASSUME NEW t \in Terminals, NEW f \in Files, CopyFails(t, f)
        PROVE  Delivering(t, job'[t], disk', late')
    <2>1. job'[t].pc # "copy"
      BY <1>4, <1>a, <1>b DEF CopyFails, Jobs
    <2> QED BY <2>1 DEF Delivering
  <1>5. ASSUME NEW t \in Terminals, Return(t) \/ Crash(t)
        PROVE  Delivering(t, job'[t], disk', late')
    <2>1. job'[t] = Idle
      BY <1>5, <1>b DEF Return, Crash
    <2> QED BY <2>1 DEF Delivering, Idle
  <1>6. ASSUME NEW f, NEW c, Edit(f, c), NEW t \in Terminals
        PROVE  Delivering(t, job'[t], disk', late')
    <2>1. job' = job /\ \A g \in Files : disk'[g] # disk[g] => g = f
      BY <1>6 DEF Edit, TypeOK
    <2>2. late \subseteq late' /\ (Busy(t) => <<t, f>> \in late')
      BY <1>6 DEF Edit
    <2>3. job[t].todo \subseteq Files /\ job[t].scope \subseteq Files
      BY <1>a, ScopesAssumption DEF Jobs
    <2> QED BY <1>a, <2>1, <2>2, <2>3 DEF Delivering, Busy
  <1>7. CASE UNCHANGED <<job, disk, late>>
    BY <1>7, <1>a, <1>c
  <1>8. CASE \E t \in Terminals : Delivering(t, job'[t], disk', late')
    BY <1>8, <1>c
  <1>9. CASE \A t \in Terminals : Delivering(t, job'[t], disk', late')
    BY <1>9, <1>c
  <1> QED
    BY <1>1, <1>2, <1>3, <1>4, <1>5, <1>6, <1>7, <1>8, <1>9 DEF Next, Release, vars

(***************************************************************************)
(* With one terminal, an update that finishes a profile has each selected  *)
(* file of it reported, edited meanwhile, or in the version of the source  *)
(* on the disk and in the manifest: for any files shared by any profiles,  *)
(* and whatever failed before.                                             *)
(***************************************************************************)
THEOREM UpdateIsComplete ==
  ASSUME \A s, u \in Terminals : s = u
  PROVE  Spec => UpdateDelivers
  <1>1. Init => Underway
    BY DEF Init, Underway, Delivering, Idle
  <1>2. TypeOK /\ UpdatesTracked /\ Underway /\ [Next]_vars => Underway'
    BY UnderwayStep
  <1>3. TypeOK /\ UpdatesTracked /\ Underway /\ [Next]_vars =>
          [\A t \in Terminals :
             /\ job[t].kind = "update" /\ job[t].pc = "copy" /\ job'[t].pc = "next"
             /\ spent' = spent
             => LET p == job[t].profile
                    src == job[t].src
                IN  \A f \in Plan(p, src) \cap job[t].scope :
                      \/ <<p, f>> \in job[t].conflicts
                      \/ <<t, f>> \in late
                      \/ disk[f] = src[f] /\ manifest'[p][f] = src[f]]_vars
    <2> SUFFICES ASSUME TypeOK, UpdatesTracked, Underway, Next, NEW t \in Terminals,
                        job[t].kind = "update", job[t].pc = "copy", job'[t].pc = "next",
                        spent' = spent,
                        NEW f \in Plan(job[t].profile, job[t].src) \cap job[t].scope
                 PROVE  \/ <<job[t].profile, f>> \in job[t].conflicts
                        \/ <<t, f>> \in late
                        \/ /\ disk[f] = job[t].src[f]
                           /\ manifest'[job[t].profile][f] = job[t].src[f]
      OBVIOUS
    <2>a. job[t] \in Jobs /\ job = [u \in Terminals |-> job[u]]
      BY DEF TypeOK
    <2>1. ASSUME NEW what \in {"commands", "edits", "releases", "faults"}, Spend(what)
          PROVE  FALSE
      BY <2>1 DEF Spend, TypeOK
    <2>2. UpdateWritesManifest(t)
      <3>1. ASSUME NEW p \in Profiles, CheckProfile(t, p) \/ SourceFails(t, p)
            PROVE  FALSE
        BY <3>1 DEF CheckProfile, SourceFails
      <3>2. ASSUME \E p \in Profiles, force \in BOOLEAN : BeginGet(t, p, force)
            PROVE  FALSE
        BY <3>2 DEF BeginGet
      <3>3. ASSUME NEW wanted, NEW scope, BeginUpdate(t, wanted, scope)
            PROVE  FALSE
        BY <3>3 DEF BeginUpdate
      <3>4. ASSUME NEW g \in Files, Copy(t, g)
            PROVE  FALSE
        BY <3>4, <2>a DEF Copy, Jobs
      <3>5. ASSUME NEW g \in Files, CopyFails(t, g)
            PROVE  FALSE
        BY <2>1, <3>5 DEF CopyFails
      <3>6. ~UpdateSaveFails(t) /\ ~Crash(t)
        BY <2>1 DEF UpdateSaveFails, Crash
      <3>7. ~GetReadManifest(t) /\ ~GetWriteManifest(t) /\ ~EndUpdate(t) /\ ~Return(t)
        BY DEF GetReadManifest, GetWriteManifest, EndUpdate, Return
      <3>8. ASSUME NEW g, NEW c, Edit(g, c) \/ Release(g, c)
            PROVE  FALSE
        BY <2>1, <3>8 DEF Edit, Release
      <3>9. GetStep(t) \/ UpdateStep(t) \/ Return(t) \/ Crash(t)
              \/ \E g \in Files : Copy(t, g) \/ CopyFails(t, g)
        BY <3>8 DEF Next
      <3> QED
        BY <3>1, <3>2, <3>3, <3>4, <3>5, <3>6, <3>7, <3>9 DEF GetStep, UpdateStep
    <2>3. manifest' = Merged(t) /\ job[t].todo = {}
      BY <2>2 DEF UpdateWritesManifest
    <2>4. f \in Files /\ job[t].profile \in Profiles
      BY <2>a, ScopesAssumption DEF Jobs, UpdatesTracked, TrackedIn
    <2>5. f \in job[t].latest => Merged(t)[job[t].profile][f] = job[t].src[f]
      BY <2>4, <2>a DEF Merged, Jobs, Books
    <2>6. Delivering(t, job[t], disk, late)
      BY DEF Underway
    <2> QED BY <2>3, <2>5, <2>6 DEF Delivering
  <1> QED
    BY <1>1, <1>2, <1>3, TypeCorrect, PTL DEF Spec, UpdateDelivers

=============================================================================

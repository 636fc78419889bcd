# Composable Data Stack: specifications

TLA+ models of the Composable Data Stack (`cds`), the TLC configurations that
check them on small instances, and TLAPS proofs of their most important
properties. Paths are relative to the root of the repository.

`cds` composes a data platform from modules: a profile (YAML) names modules,
the planner binds their contracts, a renderer writes a Compose file or a Helm
chart, and `cds up` / `cds down` run it. `cds get` / `cds update` fetch modules
and profiles from a source repository and keep them current. Deployed workloads
use the runtime library `cds-runtime` to reach databases, and the Dagster
workdir picks up files that users drop.

| Module | Models | Checked by (`.cfg`) | Proofs |
|---|---|---|---|
| `TrackedAssets` | `cds get`, `cds update` (`cli/getter.py`) | `TrackedAssets_sequential`, `TrackedAssets_concurrent` | `TrackedAssets_proofs` |
| `ConnectionRegistry` | registry and engines of the runtime library (`runtime/cds_runtime/connections.py`, `database.py`) | `ConnectionRegistry_mixed`, `ConnectionRegistry_close_race` | `ConnectionRegistry_proofs` |
| `BulkInsert` | `insert_rows` (`runtime/cds_runtime/database.py`) | `BulkInsert_calls`, `BulkInsert_uncounted` | `BulkInsert_proofs` |
| `CommandReport` | abstract: the exit code and audit entries of a command (`cli/audit_log.py`) | refined by `ComposeUp` and `HelmRelease` | theirs |
| `ComposeUp` | `cds up` on Docker Compose (`cli/main.py`, `cli/up_runner.py`) | `ComposeUp_watch` | `ComposeUp_proofs` |
| `HelmRelease` | `cds up` / `cds down --target helm` (`cli/k8s_runner.py`) | `HelmRelease_commands` | `HelmRelease_proofs` |
| `IncomingSensor` | sensor and pickup job (`workdirs/dagster/definitions.py`) | `IncomingSensor_pickup` | `IncomingSensor_proofs` |
| `ProfileResolution` | `extends`, overlays, merging (`cli/overlay.py`, `cli/loader.py`) | by `ProfileProject` | `ProfileProject_proofs` |
| `ProfileTerms` | values, references, dependency check (`cli/resolver.py`, `cli/graph.py`) | by `ProfileProject` | - |
| `ProfileValidation` | `cds validate` (`cli/validator.py`) | by `ProfileProject` | - |
| `ProfilePlan` | `build_plan` (`cli/planner.py`, `cli/secrets.py`) | by `ProfileProject` | - |
| `ProfileComposer` | `cds compose-profile` (`cli/composer.py`) | by `ProfileProject` | - |
| `StackRendering` | the Compose file (`cli/renderer.py`) | by `ProfileProject` | - |
| `HelmRendering` | the Helm chart (`cli/k8s_renderer.py`) | by `ProfileProject` | - |
| `ProfileProject` | a profile whose files change, and the pipeline above on every state of them | `ProfileProject_edits`, `ProfileProject_conditions` | `ProfileProject_proofs` |
| `ProjectCommands` | `plan`, `render`, `up`, `down`, `use`, `config` in several terminals (`cli/main.py`) | `ProjectCommands_terminals` | `ProjectCommands_proofs` |

The modules from `ProfileResolution` to `ProjectCommands` extend each other in
that order: each stage of the pipeline is defined on the results of the one
before it, `ProfileProject` puts a state under them, and `ProjectCommands` puts
concurrent commands on that state.

A module `MCX` gives the constants of `X` their values for TLC.
Definitions marked `Mutant` are variants with a plausible bug; they are used to
make sure that each property can fail, and no specification refers to them.
Run, from this directory:

    tlc -workers 2 -config TrackedAssets_sequential.cfg MCTrackedAssets
    tlapm TrackedAssets_proofs.tla

## 1. Inventory

### Modelled, wholly or in part

**Fetched and tracked assets** (`cli/getter.py`). State: the project directory,
the manifest `.cds/get-manifest.json` with a hash per profile and file, the
source repository. Operations: `cds get [--force]` plans the copies of a
profile, refuses when a destination differs, copies, and adds the profile to
the manifest; `cds update` reads the manifest, classifies each tracked file
(current, outdated, edited, removed upstream), copies the outdated ones, merges
the hashes and saves, profile by profile. It meets the user's edits, upstream
releases, other terminals, failed copies and crashes. Hard: the check of a file and its copy are
two steps; the manifest is rewritten from what was read earlier; a profile's
failure must not spoil the next; profiles share files. Correct if no content of
the user's own is overwritten, no file is reported as edited that is not, every
other selected file is refreshed, and a tracked file is never forgotten.

**Connection registry and connections** (`runtime/cds_runtime`). State: a
dictionary of connections under a lock, and in each connection an engine under
a lock of its own. Operations: `database`, `engine`, `close`, `close_all`,
`insert_rows`. Hard: double-checked locking twice, `close` without a lock, a
creation that raises under a lock, a sweep while others open. Correct if names
share one connection, a connection has one engine at a time, which is disposed
of before it is dropped, every lock is released, and a bulk insert is atomic.

**Compose deployment** (`cli/main.py`, `cli/up_runner.py`, `cli/state.py`).
State: the containers, the child processes `docker compose up` and `docker
compose logs -f`, the log file, the last snapshot, the clock, the exit code.
Operations: build, launch, poll, time out, Ctrl-C, reap, clean up, report.
Hard: four parties (command, `up`, daemon, user) interleave at every step; the
snapshots show more than the services of the file, and Ctrl-C arrives anywhere.
Correct if the exit code tells what was seen, the log has one writer, the audit
log has an entry with the truth, and the command ends unless Docker hangs.

**Helm deployment** (`cli/k8s_runner.py`, `cli/main.py`). State: workloads,
replicas, volume claims, the temporary file of secret values, a time budget
shared by `helm` and the polling. Operations: `up` (prepare, upgrade, list,
poll) and `down [--delete-pvcs]` (list, uninstall, delete claims). Hard: any
step fails or is interrupted halfway and the user tries again on what is left.
Correct if the secrets are removed, the budget bounds the watch, and volume
claims go only when asked for and safe, and then all of them.

**Audit log** (`cli/audit_log.py`). State: an append-only file. Modelled as
which outcome a command records, and when: `CommandReport`, the promise that
`ComposeUp` and `HelmRelease` implement.

**Incoming-file sensor** (`workdirs/dagster/definitions.py`). State: the
incoming and processed directories, the sensor's cursor, Dagster's run keys,
runs in progress, rows in the database. Operations: drop, sensor tick, and a
run's read, ingest, choose a name, move. Hard: runs overlap, fail and die, and
the file under a name changes while a run is going on. Correct if every file is
ingested once, archived after that, never lost, and picked up in the end.

**Profile loading and composition** (`cli/overlay.py`, `cli/loader.py`,
`cli/composer.py`). State: the profile's files. A profile may extend others,
which may extend others, and an overlay is laid over the result; modules are
merged by id, sections by key, and each value's origin is recorded.
`compose-profile` adds a module and binds what it consumes. Hard: cycles and
diamonds of `extends`, files that are missing or malformed in the middle of a
chain, partial entries. Correct if a profile resolves exactly when its files can
be put together, to what they say in their order, and a composed module leaves the
profile sound.

**Validator** (`cli/validator.py`) and **planner** (`cli/planner.py`,
`cli/resolver.py`, `cli/graph.py`, `cli/secrets.py`). Stateless, over the same
document: each resolves references, contracts and conditions by itself, one on
the configuration as written, the other on the configuration with its defaults and the options of
the command line. Hard: they must agree, for every combination of edits.
Correct if what validates can be planned, a plan's bindings are to enabled modules of
the right kind, and dependencies are refused exactly when nothing can be started.

**Compose renderer** (`cli/renderer.py`) and **Helm renderer**
(`cli/k8s_renderer.py`). Stateless, over a plan. Gates, production overrides and
names decide which services, volumes, workloads and policies there are; waits,
mounts, routes, wait gates and network policies refer to them. Correct if what
is referred to is there, nothing waits in a circle, and the policies open what
bindings need and no more.

**Project configuration** (`cli/main.py` `use`, `config`; `cli/utils.py`
`_atomic_write`) and **the commands** (`plan`, `render`, `up`, `down`). State:
the settings, a saved plan, the Compose file, the chart directory, the
deployment, all shared by every terminal of a project without a lock. Hard: a
command reads the files twice; what it renders may be replaced before it is
applied; a chart is exchanged by two renames. Correct if nothing is made of a profile
that was not valid, a chart is never lost, and `down` finds what `up` made.

### Not modelled yet

**Security rules** (`cli/security*.py`, `cli/k8s_security.py`,
`cli/confinement.py`): independent rules over a rendered document, each of which
looks at one service. **Image updates** (`cli/image_updates.py`): choosing a
version by comparing tags. **Image verification** (`cli/image_verification.py`,
`image_digest_check.py`): tables of findings of registries and cosign. **Secret
redaction of output** (`cli/secret_leak.py`): a buffer over the output stream.
**Connection settings** of the runtime library (`resolution.py`,
`redaction.py`): environment variables to a URI. **Backup sidecars**
(`images/postgres/cds-backup-scheduler`, `images/restic/*`): schedules and
retention in shell.

### Not going to be modelled

**Cluster provisioning** (`cli/k8s_provision.py`; one step of `HelmRelease` that
may fail), **preflight** (`cli/preflight.py`), **release check**
(`cli/update_check.py`): independent probes and wrappers of other programs.
**Reports** (`cli/maturity.py`, `report.py`): formatting. **Container entry
points** (`images/*`), **sample workloads** (`workdirs/dlt`, `shared/`,
`tender_analytics.py`): straight-line calls. **Modules, profiles, schemas**:
data. **`scripts/`**: tools of the repository.

## 2. How the models correspond to the code

### TrackedAssets

A file is a path; a content is a published version, a draft (anything only the
user has), absent, half written, or an obstacle (a symlink or a directory). The
manifest is a function from profiles to file hashes, where a profile may be
untracked, or the manifest malformed. `job[t]` is the local state of the
command in terminal `t`; `pc = "next"` is the loop over profiles, `"copy"` the loop of
`_write_actions`, `"save"` the writing of the manifest by `cds get`.

* `BeginGet` is `fetch_profile` up to the copies (plan, conflicts, early
  exits); `GetReadManifest` and `GetWriteManifest` are the two halves of
  `_write_tracking_manifest`.
* `BeginUpdate` reads the manifest and selects profiles; `CheckProfile` is the
  classification in `_update_tracked_profile`; `UpdateWritesManifest` merges and
  saves. The order of classification, copies, merge and save is the code's.
* `Copy` is one turn of `_write_actions`, with its unlinking of symlinks and its
  copying into directories. `Interrupted` is a copy stopped halfway.
* `SourceFails`, `CopyFails`, `UpdateSaveFails` are the exceptions the update
  loop handles; `Crash` is the end of the process anywhere. `cds get` writes the
  manifest in place, so a crash may leave it malformed; `cds update` publishes by
  a rename, so it may not.
* `Edit` and `Release` are the user and the maintainers, at any time. `late`
  records the files edited under a running command.

Left out: the download, the allowlist of sources, categories as such (a scope
is a set of files), messages. `CheckProfile` takes the source as it is at the check
(`job[t].src`), as it is for a fetched archive. With `--local` the source is a
live directory (`cli/getter.py:722`), and `cds get` hashes it again after the
copies (`:1489`): that a maintainer's edit comes between the two is not modelled.

### ConnectionRegistry

One action per read or write of shared state, since threads switch between
bytecodes: the unlocked test (`Lookup`, `CallEngine`), taking the lock, the test
under it, the assignment. `Register` and `CreateEngine` end the `with` block;
`CreateEngineFails` leaves it by an exception. `ReturnEngine` is the last,
unlocked read `return self._engine`. `close` is `CallClose` (read), `Dispose`
(second read and call), `ClearEngine`; `close_all` holds the registry's lock
through `SweepNext` and `ClearRegistry`. `Bypass` is a connection with an
explicit environment. `called` records which of `close` and `close_all` were ever
called, and `"overlap"`: that a `close` and another close of its connection were
between their test of the attribute and their end at the same time. `close` takes
no lock, so the second of them may raise, or clear an engine that was created
after the first had cleared the one both disposed of (see 6). As long as only
`close_all` closes, its lock keeps two apart and `"overlap"` is never there.

### BulkInsert

A call with any number of rows and batch size; each statement of the
transaction succeeds with or without a row count, or raises. `pending` is what
the transaction holds, `committed` what the table has. `RollBack` is the exit of
the `with` block by an exception, `Commit` its normal exit, also after the early
`return -1`.

### ComposeUp and CommandReport

`pc` follows the `up` command in `cli/main.py`: build, launch, stream (attached
to the output of `up`), fetch and check (one turn of `_poll_until_settled`),
reap, clean up, verdict. The environment: `Create`, `Start`, `Change` are the Docker daemon
carrying out `docker compose up`; `UpExits` is that process's end. `Init` has every state
an earlier run can leave, in which case the containers are `outdated`, to be replaced.

`Others` are the containers that `docker compose ps -a` lists besides those of the
services: orphans of an earlier file, which `up` leaves alone (it is called without
`--remove-orphans`), and containers of `docker compose run`, which are listed under a
service's name (`Label`). `Settled` is `_is_settled` on what `group_services_by_health`
makes of a snapshot: nothing is pending, and at least as many names are listed, counted once per
status, as there are services. It does not ask which ones.

Everything from the build to the reaping is inside a `try`, also the record of an
outcome and the `return` after it. `Ends` records and goes to `"leave"`, `Leave` is the
return; `Interrupt` in between is handled like any other and makes a second entry.
While polling, Ctrl-C has a handler of its own, which records and returns (`Ends`);
elsewhere `Handle` records in the outer one. `LateInterrupt` is Ctrl-C in a handler
or after the `try`: it ends the command with an exception.

`CommandReport` is the abstract promise: a command begins, records an outcome and
returns an exit code that equals its last entry (`Record`, `Return`; `Finish` is both
in one step), may record `"interrupted"` after the first entry (`RecordInterrupt`), or
ends by an exception (`Raise`). `audited` tells `up` from `down`, which leaves no
entry. `ComposeUp` runs one command and maps `entries` and `exit` to themselves; its
refinement is `ReportsFaithfully`, of `Audit!Safety`, since a hanging Docker command
keeps it from ending. `HelmRelease` runs several, maps `audited` to `verb = "up"`, `entries`
to the one entry of its `report`, and `exit` to `"none"` before the first; its `ReportsOnce` is `Audit!Spec`, with
the fairness.

### HelmRelease

`Begin` starts `up`, `down` or `down --delete-pvcs`; `Prepare` is everything
before Helm; `HelmUpgrade` applies some of the workloads and succeeds only with
all, within `Timeout + Grace`, and its `finally` removes the secrets; `List`
counts or derives the claims; `Poll` is a turn of the shared polling loop;
`Uninstall` and `DeleteClaims` may stop halfway. `Escapes` is an exception no
handler catches, a hanging `kubectl` or Ctrl-C. `RollOut`, `Change`, `Claim` are
controllers of the cluster. Time advances by polls, and by Helm as a whole.

### IncomingSensor

Names are numbered in sorted order, a version stands for a file's name, content, size
and modification time, so the directory's state is the signature that serves as
cursor and run key. `Drop` is the user: a new version, or one that the name has had
before, put back as it was (`mv`, `cp -p`), which gives the directory an earlier signature. `Tick` is a
sensor evaluation and Dagster's rule that a run key launches once. A run is `Read`,
`Ingest` (one transaction; a failure is logged and the file left), `Choose` and `Move`;
`Dies` is a worker's end.

`Target` says which processed file a name and a counter make,
`<stem>_<counter><suffix>`: counters tell the copies of one file apart, but files of
two names may meet (`a.csv` with counter 1 and `a_1.csv`). `MCIncomingSensor` has two
names that do. `Choose` takes the first that does not exist, and `Move` replaces what
is there by then.

`puts`, `early`, `rewritten`, `together` and `clash` record what the user and the
schedule did, so that properties can name their exceptions.

### ProfileResolution to HelmRendering

The pipeline is pure: operators on documents. A document is its `extends`, its
sections (mappings from keys to values) and its modules (a sequence of ids with
fields, or `BadModules`, an entry that is no list, to which nothing can be appended); `IsContent`
says what a file can hold. YAML is abstracted to readable, `Absent` and `Unreadable`, a path to a
file or `Outside`. A configuration is a function from dotted paths to values, and a
value is tagged with what the code can tell of it: text, flag, secret,
certificate, binding, port, image tag. A module definition is what the code
reads of `module.yaml`: the schema of its fields as sets of allowed values with defaults, its
contracts, its Compose services and volumes, its Kubernetes workloads. Errors
are sets of `<<code, where>>` with the code's own numbers; warnings and wording
are left out.

* `Resolve` is `resolve_extends` and the overlay; its recursion over `extends`
  is a function of the depth, bounded by the number of files, with the visited
  files as the stack the code carries. `MergeMapping`, `MergeSections` and
  `MergeModules` follow `_merge_value` and `_merge_modules`, provenance included.
* `ValidateDependencies` is the depth-first search of `cli/graph.py`, in its order. `Visit` is one call
  of `dfs` and `VisitAll` its loop; the set `visiting`, which a call enters and leaves as it found
  it, is a parameter, and the rest of what the calls share (`visited`, the cycles reported) is passed
  on from call to call. A `dependsOn` that is no list is not modelled (`Contents`).
* Of entries with one name the validator takes the first (`Earliest`), and the planner and
  `compose-profile`, which put them in dictionaries, the last (`Latest`).
* `Validate` is the union of the validator's rules in the order that matters:
  an error in shape or loading ends it, the others add up.
* `BuildPlan` loads again, applies defaults, `--hardened` and `--image-source`,
  and resolves secrets, provided and consumed contracts and outputs.
* `ComposeProfile` checks a request, chooses a contract for each consume entry,
  and appends the instance with its secrets.
* `RenderCompose` gives services (`module`, `needs`, `healthy`, `mounts`),
  volumes, routes and errors; `RenderHelm` gives Services, workloads, policy edges
  `<<from, to, pod port>>`, destinations outside the chart and errors.

`ProfileProject` has two variables: the files, and how often they were changed.
`EditModule`, `EditSection`, `EditExtends` and `ReplaceFile` are the user;
`ComposeModule` is `compose-profile --write` or `--output`; `GenerateProfile` writes a
new file. Its properties evaluate the pipeline on each state of the files.

What a module definition may say is narrower than its schema, and the later stages
rely on it; `Definitions` names it, and TLC evaluates it on the definitions of the runs:

* no two contracts of a definition have one name (`NamesDiffer`); what its schema
  presets is no secret and no certificate (`IsSound`);
* what it consumes is the profile's to bind: the path is in the schema, belongs to that
  entry alone, has nothing bound as a default, and none of what it depends on is about
  the image (`IsBindable`);
* a contract advertises its host by the name or the id of its module, and neither engine
  nor encryption is a secret (`IsAdvertised`);
* where the schema presets an image tag, it is a tag of the base image, the same in every
  environment, and there is a source to choose, which is not preset to the registry (`HasBaseTag`). A
  variant is not asked for: `dagster` has one, `superset` has none;
* a workload runs something; one with a Service is behind no gate and does not name it
  otherwise, and forwards to single ports; a wait gate names a host, a Service of its
  own module, or a binding on the binding's port (`IsDeployable`);
* in every environment a service of a Compose template waits for services of the template
  that are there with it, for the health only of those with a check, and not in a circle; it mounts
  volumes that are there with it; and the volumes that contracts advertise are in every
  environment (`IsComposable`). Gates on a volume or on a health check are not part of
  it: `postgres` has both, and `StackHoldsTogether` names what they take out.

The modules of the repository keep to it: each clause was compared with each
`modules/*/*/module.yaml`. A module of a user's need not, and then the theorems that rest on `Definitions` say nothing of it.

### ProjectCommands

`session[t]` is the command in terminal `t`. `Validated`, `Plan` and what follows
are separate steps, since the code reads the files in `resolve_profile` and
again in `build_plan`. `MoveAside`, `MoveIn` and `RestoreChart` are the renames
of `_write_chart`, each atomic. A failing second rename is followed by `RestoreChart`. `LoseChart` is
Ctrl-C between the two, which `except Exception` does not catch, or a restore that
fails as well: `finally` removes what was set aside, and `losses` counts it. `Kill` is the end
of the process between any two steps, after which what it had set aside stays
(`orphans`). `Down` finds the release by `BestEffort`, without validation; it may end
with an exception where the overlay is YAML but no mapping (`MayCrash`), which the files
do not tell from one that is no YAML and is left out. `Deploy` and
`InstallRelease` take the file that is there by then. `ReadSettings` and
`WriteSettings` are the halves of `use` and `config`. What is rendered carries
its `source`: the overlay, whether the document it was planned from was valid, and what the files said of
the release's name; only properties read it.

## 3. What the runs check

| Run | Instance | Shows |
|---|---|---|
| `TrackedAssets_sequential` | 2 files, 2 profiles sharing one, 1 terminal, 3 commands, 1 edit, 2 releases, 1 fault | `EditsPreserved`, `ConflictsAreLocalEdits`, `UpdateDelivers`, `UpdateKeepsTracking` |
| `TrackedAssets_concurrent` | 1 file, 2 profiles, 2 terminals, 3 commands, 1 edit, 1 release, 1 fault | `DraftsSurvive` |
| `ConnectionRegistry_mixed` | 3 threads, 1 name, 2 connections, 2 engines | locks exclude and are released, one object per name, one engine per object, disposed before it is dropped, `SweepDisposes` |
| `ConnectionRegistry_close_race` | 2 threads, 1 connection | `EngineReturned` fails: see 6 |
| `BulkInsert_calls` | up to 5 rows, batches up to 3, 1 failure | `AllOrNothing` |
| `BulkInsert_uncounted` | the same | `WholeCall` fails: see 6 |
| `ComposeUp_watch` | 2 services, an orphan or a container of `docker compose run`, timeout of 2 polls | `SuccessWasSeen`, `FailureWasSeen`, `OneLogWriter`, `ReportsFaithfully` (refinement of `CommandReport`), `EndsUnlessDockerHangs` |
| `HelmRelease_commands` | a Deployment, a StatefulSet of up to 2 replicas, 3 commands, timeout 2, grace 1 | secrets, budget, readiness, claims, `CommandEnds`, refinement of `CommandReport` |
| `IncomingSensor_pickup` | 2 names that meet, 3 drops, 6 runs | `IngestedOnce`, `ArchivedWasIngested`, `NothingLost`, `PickedUpInOrder` |
| `ProfileProject_edits` | 5 module definitions, 6 files, any 2 of the changes listed in `MCProfileProject`, with and without the overlay, 2 sets of options | what each stage promises the next: see below |
| `ProfileProject_conditions` | the same | `MissingBindingsFailValidation` fails: see 6 |
| `ProjectCommands_terminals` | 2 terminals, 6 commands to choose from and 2 changes of settings, 3 commands, 1 edit, 1 fault | `ChartKept`, `OutputsAreSound`, `DownFindsRelease` |

The properties of `ProfileProject_edits` relate one stage to another, or a
recursive algorithm to a reference definition that does not follow it:

* `ResolvedAsWritten`: resolution succeeds exactly if the files can be put
  together (no ancestor of itself, all readable, all well shaped), and then the document
  is the overlay of the files in the order of `Lineage`, the last word winning.
* `DependencyVerdict`: the search in `cli/graph.py` complains exactly if some
  set of modules cannot be started (`Startable` quantifies over all subsets).
* `ValidIsPlannable`: what validates is planned without errors, but for three
  checks only the planner makes, if conditions are about what the profile sets.
* `PlannedBindingsHold`, `TagsFitVariants`: what a plan without errors promises
  the renderers. A contract that names no host passes as well: not all kinds have one.
  Of tags: where the image comes from the registry, because of `--image-source` or
  because the profile says so, and the profile leaves the tag to the planner, the tag is of
  the variant (`VariantOf`) in the planned configuration. A tag that the profile sets is its own, and a profile that
  writes `image.source: registry` without one is not valid (E103, `validate_image_source_config`).
* `ComposedStaysSound`: composing a module into any valid profile. What `--set` binds is
  the user's own and is left out, and so is what a condition asks for and an
  engine that nothing names: the validator reports those.
* `StackHoldsTogether`: the Compose file refers only to what is in it, and, in plans
  in which no two names come to the same (`Colliding`), waits form no circle (again over all
  subsets), what is waited for can become healthy, what is mounted is declared, and each service is
  its module's. Exceptions are what gates take out of a template
  (`GatedVolumes`, `Unwatched`) and the contracts of a module without any service, which
  E150 leaves alone.
* `PoliciesFollowBindings`: the chart's policies open each binding, route and
  gate on the pod's port, and nothing else between modules. That the Service a
  binding or a gate names is the module's own is asked only of plans in which no id begins
  with the parts of another (`Clashing`); and of a gate that spells out another module's
  Service only the host is asked, since the renderer checks no more (see 6).

**Why the bounds are enough.** *Commands, edits, releases.* The shortest
behaviour in which a command acts on wrong records is fetch, update (stops in
the middle or resolves one profile of two), update; three commands and two
releases allow it with an edit and a fault anywhere. Two files tell "selected"
from "not selected" and "shared" from "own"; two versions tell current from
outdated, and a draft is neither. Two terminals suffice for a race of a check
and a copy; one file suffices because files are checked and copied independently.
*Threads.* Three threads allow an opener, a closer and a witness; two
connections and engines allow one to be replaced by another, which is what every
property forbids; each engine and connection is created once. *Rows.* Five rows
in batches of 1 to 3 give one to five batches, with a last one that is
full or short. *Services and workloads.* Two tell "some" from "all"; one other container
is enough to be counted for one of them.
*Time.* A timeout of two polls has a first, a middle and a last poll; a grace
of one lets Helm use more than the timeout. *Claims.* Two replicas have an
ordinal that a smaller StatefulSet lacks. *Sensor.* Three drops give a new name,
a second name and a rewritten one or one put back; six runs exceed the directory states
that three drops can produce in one behaviour, so a launch never fails for want of a run.
*Profile edits.* Each stage's rules relate at most two entries (a binding and
the module it is bound to, a gate and the service behind it, an overlay and the
file under it); two edits change both. The modules have between them every kind
of template, gate, contract, consume entry and image choice that the rules tell apart, cut
down from `postgres`, `superset`, `dagster`, `dbt` and `traefik` of the repository. *Commands.*
Two terminals and three commands allow two to meet over the chart and a third to
use what is left; the one edit that can come between invalidates the profile, breaks its rendering
or renames the release.

Deadlock checking is off where the system may stop: when the bounds are used up, when the command has
ended, and when nothing more is dropped, edited or started. It is on for `BulkInsert`.

**History variables** (`late`, `base`, `owned`, `before`, `called`, `puts`,
`early`, `rewritten`, `together`, `clash`, `losses`, and the `source` of what `ProjectCommands`
makes) are read by properties only; no guard reads them. `base`, the content a command last
copied to a path or found there, is recorded in `CheckProfile`, the step that
compares: recorded any later, it could differ from what was compared.

**Symmetry** is used for `ConnectionRegistry` (threads, names, objects) and
`ProjectCommands` (terminals), where only safety is checked.

## 4. Fairness

* `ComposeUp`: `WF(Command)`: the command is a single thread that never waits for
  the user, so it takes the steps that are its own. Of Docker nothing is assumed:
  `docker compose build`, `ps` and `up` are called without a timeout (`cli/main.py:3062`,
  `cli/up_runner.py:400`, `cli/main.py:3186`), so the steps that wait for one (`Awaiting`) are under
  no fairness, and `EndsUnlessDockerHangs` says that the command ends or stays at one of
  them for ever. Containers may never become healthy.
* `HelmRelease`: `WF(Command)`: Helm is killed after `timeout + 30` seconds and
  each `kubectl` call of `cli/k8s_runner.py` has a timeout, so these steps return. That
  `Prepare` does is an assumption: `docker build` and `k3d` have no timeout
  (`cli/k8s_provision.py:306, 435, 492`). The cluster is under no fairness.
* `IncomingSensor`: `WF(Tick)`: Dagster evaluates a running sensor every 30
  seconds. `WF(Step(r))`: a launched run goes on unless its worker dies (`Dies`).
  No fairness on the user.
* `TrackedAssets`, `ConnectionRegistry`, `BulkInsert`, `ProfileProject`,
  `ProjectCommands`: safety only. That no
  lock is kept for ever is stated as an invariant, `LocksReleased`: a holder is at a
  step that waits for no one.

## 5. What is proved

For every value of the constants that satisfies the named `ASSUME`s, with no
bound on steps:

* `TrackedAssets_proofs`. `TypeCorrect`; `PendingCopiesAreSafe` (what a command
  without `--force` is about to overwrite is no draft, unless it was saved while that
  command ran) and from it `DraftsAreSafe` (`DraftsSurvive`). `DraftsSurvive`
  speaks of a step and is not inductive: the check that protects a copy was made
  several steps earlier, by a command that others have interleaved with since.
  `PendingIsReplaceable` carries it across: commands put no drafts on the disk
  (`CommandsWriteNoDrafts`), so another terminal cannot turn a checked file into
  a draft; only `Edit` can, and it marks it `late`. For updates, that the hash
  compared is one from the manifest needs `UpdatesTracked`, proved with the types.
  `TrackingIsKept` (`UpdateKeepsTracking`) assumes a single terminal, as the run does: with two, an
  update writes back a manifest it read before the other's fetch; its invariant `BooksKept` says that
  what an update has in memory covers what the disk tracks, also after a save that failed.
  `LocalEditsAreKept`, `ConflictsAreReal` and `UpdateIsComplete` (`EditsPreserved`,
  `ConflictsAreLocalEdits`, `UpdateDelivers`) are about one terminal for the same reason. The first two
  rest on `Synced`: while nothing has failed, disk, manifest, the user's edits and what a running
  command still has to copy and to save account for each other, file by file, so a hash that differs
  is an edit and one that agrees is what a command wrote. The third rests on `Underway`: at every
  step of a profile's update, each selected file is a conflict, still to be copied, or
  already the source's version, both on disk and in what will be saved. Assumptions: versions,
  drafts and the special contents are disjoint; each profile owns some of the files; a
  scope is a set of files.
* `ConnectionRegistry_proofs`. `LocksExclude` (types, and what a thread decided
  under a lock still holds), inductive as it stands because each conjunct is about
  the step after the test; `NoLockLeftBehind`; `OneConnectionPerName` (an action property,
  from it). What closes do is proved as long as no `close` overlaps another close of its connection, and rests on
  `SweptInOrder`: the engine that a close found stays until it clears the attribute and is disposed by
  then (`ClosesApart`), because nothing but a close takes an engine away and no second one is there
  (while only `close_all` closes, by its lock: `SweepsAlone`).
  From it: `OneEnginePerConnection` (`EngineStays`: an engine is only ever cleared, and disposed of
  before that), `RotationIsSafe` (no close raises, and an open engine is some connection's,
  `OpenIsHeldApart`) and `SweepIsComplete` (with `SweepCovers`: each engine the sweep set
  out to dispose of is disposed, still ahead of it, or in its hands). `HandlesAreShared` is about programs
  that close nothing.
* `BulkInsert_proofs`. `InsertIsAtomic`, strengthened by `SentIsCounted`: until
  the commit nothing is in the table, and the running count is what was sent.
* `ComposeUp_proofs`. `TypeCorrect`, `SuccessIsTrue` and `FailureIsTrue` (each exit
  code is one of what the last poll saw), `LogHasOneWriter`, by an
  invariant that says for each `pc` what the children are doing and what the
  last snapshot implies. `SuccessIsTrue` is a count, as the code's test is: names listed, counted once per
  status, are no more than the containers listed (`Missing`, `Strays`), so if as many are listed as
  there are services, no more services are missing than others are there. `AuditIsFaithful`: the initial states
  and each step map to `CommandReport`; its invariant says how many entries there are at each `pc`.
* `HelmRelease_proofs`. `SecretsAreRemoved`, `PollingIsBounded`,
  `ReadyIsBacked`, `ClaimsAreDeleted`, `ClaimsAreKept`, from one invariant: types; `secrets` only while
  `pc = "apply"`; what `elapsed` can be in a poll; that a success of a watched `up` has its snapshot;
  and that from the listing on, no claim of an `owned` StatefulSet is outside
  `names`, which needs that the cluster creates claims only for workloads that are
  still applied. `AuditIsFaithful`: each step maps to `CommandReport`.
* `IncomingSensor_proofs`. `TypeCorrect`, and three invariants that are not inductive as
  they stand. `ArchiveIsIngested` needs `Backed`: a run past the ingestion finds nothing, or
  a version with rows, or one in `early`. `NoFileIsLost` needs `Free` (the
  destination of a run about to move is still free while `early` is empty and nothing clashed, since
  a second run for the name that moves first takes the file with it), `Apart` (runs about to move
  for two names have two destinations until `clash`) and `Known` (a version is under one name only, and
  where it is it was dropped). `RowsAreBounded` needs `Paid`: a version
  that still waits, with no run past the ingestion, has a drop or a death to spare over its
  rows. Assumption: there is at least one name, and counters tell one name's processed files apart.
* `ProfileProject_proofs`. `FilesStayDocuments` (whatever is edited, composed or
  generated, every file stays one that the commands can read) and
  `ProfilesResolveAsWritten` (`ResolvedAsWritten`), for any number of files and any
  shape of `extends` among them. Resolving is recursive, over parents and over the references of one
  file, and so are its reference definitions; the library's theorems on recursion take the recursion's
  body as an operator, which the provers cannot instantiate. The module therefore has one concrete body,
  `Level`, with a tag for each recursion, and `RecursionUnfolds` proves once, from well-foundedness,
  that such a definition has a solution. Induction is then by a least counterexample: `NoLastStack`
  over the stack of visited files, which only grows in a finite set, and
  `NoFirstRound` over the rounds of a loop. The argument has three parts. `FailuresExplained`: resolving fails
  with a code of its own, or ends in a document of the right shape. `AllExtendable`: it ends in one exactly if
  no file of its `Ancestry` is missing, malformed or its own ancestor. `MergeOverlays`:
  if two documents are overlays of two sequences of files, merging them gives the overlay of one sequence
  after the other, for sections, fields and the order of modules, which is what lets the recursion
  be followed upwards.
  `DependencyCheckIsRight` (`DependencyVerdict`): the search has a solution too (`SearchUnfolds`), and what
  holds of a call if it holds of the calls below it, which all visit one node more, holds of every
  call (`NoLastSet`). Each call keeps two things. While it reports nothing, what is finished needs only
  what is finished and goes round in no circle (`Settled`, `Visited`), so a search without a report
  has found an order to start in. And each node being visited needs another of them or the next
  (`LeadsOn`), so meeting one again shows a circle: without circles nothing is
  reported (`Explores`). `LoadErrors` plays no part in the proof. Assumptions: `ProfileFiles` and `Contents` (the profile and the overlays are files,
  files hold contents, and `dependsOn` is a list wherever it is written), and the hypothesis `NotAList`, that `BadModules` is no sequence: what
  the model value stands for, but TLC cannot evaluate a quantifier over all sets as an `ASSUME`.

  The rest of the module is about the stages after resolving, on a document that the validator finds
  nothing wrong with; they assume `Definitions` as well (see 2). `FoldLeft` and `SelectSeq` take
  operators, which the provers see nothing of, so the model selects by a set (`Only`), and a lemma
  says once what is in the result and in which order. `ValidDocument` turns the validator's
  empty set of errors into facts about each entry (`IsLoadable`, `IsFaultless`), and `SameModules`
  says that validator and planner look at the same instances, which differ in their
  configuration only, and there only by defaults and options (`IsPlanned`). From it:
  `ValidProfilesArePlanned` (`ValidIsPlannable`), check by check;
  `BindingsOfPlansHold` (`PlannedBindingsHold`), because a reference that the validator followed leads,
  in the plan, to the contract of the same entry, whose advertisements are substituted on a
  configuration that has the engine and the encryption that the validator looked at;
  `TagsOfPlansFit` (`TagsFitVariants`), by the cases of the two image options: a preset tag is a base tag
  (`PresetTag`), which the planner replaces wherever it turns the source to the registry or hardens; and a valid
  profile that turns to the registry itself sets its tag (E103).
  `ComposedProfilesStaySound` (`ComposedStaysSound`) compares two documents instead: `GrowsBy` says
  that one module, and secrets, were added and nothing else changed; what was bound or could be started
  stays so (`StaysBound`, `StaysStartable`, the new module being last in the order), and what is bound
  for the new module was chosen among what is there (hence `NotAList`, since a document with
  `BadModules` cannot be added to).

  `PoliciesOpenWhatIsBound` (`PoliciesFollowBindings`) is about the chart. The checks of
  `render_helm` ask whether *some* module has a Service of a name; the policies open the ports of *one* module.
  That these agree needs that names tell modules apart: the name of a Service and the host of a contract
  both begin with the parts of their module's id (`FullNameIs`, `HostIsOwn`), of two
  beginnings of one name one begins the other (`PrefixesOfOne`), and that is what `Clashing`
  excludes. `IsWired` is what a plan of a valid profile gives the renderer, `IsCharted` what a chart without
  errors was checked for; `ForwardedInScope` says that a Service forwards to pod ports that the policy of its
  advertised port covers. Each binding, route and gate then follows (`BindingReaches`, `RouteReaches`,
  `GateIsOpen`), and no edge leads elsewhere (`EdgesLeadToPartners`). Assumption: `NamesHaveParts`, that what `Parts` splits
  has parts; a name it does not list is one part (`PartsOf`).

  `StackIsConsistent` (`StackHoldsTogether`) is about the Compose file, in the same three steps. `IsLinked` is
  what a plan gives the renderer: bindings that lead to planned contracts, whose volumes last in every
  environment (`Lasting`), templates that are `IsComposable`, and no set of modules that cannot be
  started. `IsComposed` is what a file without errors was checked for, and `IsFrom` says from which
  template a service of the file is made. What a service waits for is in its own template or was added
  for a module that its own depends on (`NeedIs`). So a circle of services
  (`NoneWaitInACircle`) touches a set of modules, one of which depends on none of the
  others, by the order in which modules start; its services in the circle wait for its own only, and its
  template has no circle. That step, the health of what is waited for and the mounts need `OneOwner`: without
  `Colliding`, a full name is of one service of one module.
* `ProjectCommands_proofs`. `ChartIsKept`, an action property of the composed
  system for every number of terminals, commands and faults, with the one exception that `losses`
  counts; the invariant is `AsideInUse` (only a terminal between the two renames has something set
  aside), without which a `MoveAside` could overwrite the last copy.
  `NothingUnsoundIsMade` (`OutputsAreSound`): what a session holds in memory,
  between any two steps, is as sound as what is on disk, and a plan without errors was resolved
  from a profile that resolves. `ReleasesAreFound` (`DownFindsRelease`): every release's identity, in a session, a
  saved plan, a chart or installed, comes from files that resolved when it was read (`AllNamed`);
  files that say the same of names give the same identity although everything else in them differs
  (`ResolvedAlike`, again through both recursions), and files that can be put together resolve now (by
  `ProfilesResolveAsWritten`'s lemma, hence `NotAList`).

**What the proofs changed.** Attempts that failed for a reason corrected the models. `IsBound` and the
exceptions in `ComposedStaysSound`, the port that `ChartConnects` asks for only where a contract has one, and
`Definitions` are what the invariants had to say to hold beyond the definitions of the runs. `GateHosts` had let a
gate name a route's host that is no Service, which `_check_wait_gate_hosts` does not (`cli/k8s_renderer.py:2956`).
`Earliest` and `Latest` were one operator. `StackHoldsTogether` had held of the runs only because no
names collide there, every module has a service and no health check has a gate: `Colliding`, the
condition on E150 and `Unwatched` are what it had to say to hold of other definitions, and the health check
of `postgres` has its gate in the runs now. `render_compose` is written without a
fold (`RenderedNames`, `OwnerOf`), since folds take operators.

**Only model-checked.** Liveness: `EndsUnlessDockerHangs`, `CommandEnds`, `PickedUpInOrder` and the
fairness part of `ReportsOnce` (temporal reasoning with `ENABLED` is out of the
prover's reach). Every other property of
the runs is stated by a theorem.

## 6. Where code and documentation differ

Three runs end in a violation, each of a sentence of the documentation, a docstring or a log message:

* `engine()` may return `None` when `close()` runs between its two reads
  (`runtime/cds_runtime/database.py:92`; `docs/runtime-api.md:107`).
* With a driver that reports no row counts, `insert_rows` commits the first
  batch and never sends the rest (`database.py:192`; its docstring, 147-152).
* `cds validate` evaluates `requiredIf` on the configuration as written, so a
  binding that a default makes necessary is missed until `cds plan`
  (`cli/validator.py:702`; `modules/transformation/dbt/module.yaml:64-67`).

Others contradict a sentence too. The models have the behaviour, and the
properties are stated so that they hold with it. The first five name the
exception; without it TLC finds the property violated.

* A `close()` that overlaps another close of its connection may drop an engine
  that nobody disposes of (`runtime/cds_runtime/database.py:209-211`;
  `docs/runtime-api.md:145-146`; `"overlap"` in `EngineStays`).
* `cds up` may exit 0 before a service is there, if an orphan is counted for it,
  and exit 1 for an orphan that failed (`cli/up_runner.py:226`; `README.md:495`;
  `SuccessWasSeen` and `FailureWasSeen` speak of what was listed).
* Of two runs whose files meet on one processed name, the second replaces the
  first's file (`workdirs/dagster/definitions.py:388`; the message at 394;
  `clash` in `NothingLost`).
* A file put back with its modification time is skipped for ever
  (`definitions.py:661`; `README.md:518`; `Revisited` in `PickedUpInOrder`).
* Ctrl-C between the two renames of a chart, or a restore that fails, leaves
  neither the old nor the new one (`cli/k8s_renderer.py:3189`;
  `docs/kubernetes.md:56-57`; `losses` in `ChartKept`).
* `cds up` exits 0 on the health of containers that `up` is about to replace
  (`cli/up_runner.py:313`; `README.md:495`).
* `cds down --delete-pvcs` after a failed one deletes nothing and succeeds
  (`cli/k8s_runner.py:252`; `cli/main.py:1830`).
* A file that cannot be ingested and sorts first keeps later files from being
  picked up (`workdirs/dagster/definitions.py:677`; `README.md:518`): hence
  "or one that sorts before it" in `PickedUpInOrder`.
* `down` and `state` resolve the profile "best effort" so as to find the release of
  a profile that has become invalid, but duplicate module ids or an ill-shaped overlay make them
  fall back to the default or the base's release (`cli/main.py:284`; `Composable` in
  `DownFindsRelease`), and an overlay that is YAML but no mapping ends them with an
  exception (`cli/overlay.py:140`; `MayCrash`).

Others were met while modelling; the models have them and the properties name
them as exceptions. An edit saved after `cds update` classified the file and
before it copied is overwritten (`cli/getter.py:457`; `late`). Profiles that
share a file each keep a hash of it: after one is updated, the other reports the
file as modified, or takes a local revert for its own version (`getter.py:438,
444`; `WellTracked`). `--force` onto a directory copies into it
(`getter.py:1449`; `Placed`). Two `close()` at once: the second may call
`dispose()` on `None` (`database.py:210`; `called`). A handle kept across
`close_all()` reconnects outside the registry (`connections.py:78`). Ctrl-C
before or after the watched phase of `cds up`, anywhere in the Helm branch, and
a `kubectl` that hangs end the command without an audit entry
(`cli/main.py:2959, 3205`; `exit = "raised"`). Ctrl-C reaches `docker compose
up` too, which shares the terminal's process group (`main.py:3170`; `UpExits`
needs no cause). Ctrl-C between an audit entry of `cds up` and the return leaves a second entry
(`main.py:3176, 3205`; `RecordInterrupt`). `helm upgrade` is called without waiting, so the workloads that are
polled may be those of the old revision (`k8s_runner.py:152`; `current`). The
claims of replicas scaled away are not named (`k8s_runner.py:363`). Overlapping
runs for one name may choose the same destination, and a file rewritten between
ingestion and move is archived unread (`definitions.py:397`; `early`, `together`).

In the pipeline: a module's services may take the name of another's when one id
begins with the parts of the other (`Clashing`), and a mount of a module's own volume is
taken for another's if its name spells that one's full name (`cli/renderer.py:1509`;
`Colliding`). The hosts of a module whose services are all gated out are not checked (`cli/renderer.py:390`;
`HostErrors`), so bindings to it lead nowhere. With three merged documents or more
a value's provenance can name the wrong file, and a diamond of `extends` reverts
an override made on one side of it (`cli/overlay.py:275`; `Lineage` has a file
as often as it is reached). With `storage.enabled` false, `postgres` still mounts
the volume that the gate took out (`modules/warehouse/postgres/module.yaml:364,
529`; `GatedVolumes`), and with its health check off, its backup service waits for a health that
is never reported (`module.yaml:443`). Its contract advertises the host-side
port, which inside the network is another (`module.yaml:255, 353`). A list of
consumed contracts gets no policy edges but those of its routes
(`SingleBindings`). Wait gates accept a service of a workload that is switched
off, and look at the host only: a gate that spells out the Service of a bound module with another
port is let through, and the policy then denies it (`cli/k8s_renderer.py:2983`). The check that a binding has a
Service is content with any module's (`BindingServiceErrors`). Of two contracts of one name in a definition,
which the schema allows, the validator checks the first (`cli/validator.py:781`) and the planner binds the
last (`cli/planner.py:923`). Of the commands: `render` writes the Compose file even with errors, `up`
deploys whatever Compose file is there by then (`cli/main.py:3030`), a saved plan is rendered without
validation, two terminals that change settings lose one change, and a chart write that is killed leaves
the old chart under its `.previous-` name, from which nothing restores it (`orphans`).

**Not covered.** A process that is killed outright leaves the file of secret
values (no handler runs), and so does a failure between writing it
(`k8s_runner.py:133`) and entering the `try` (`:152`).

## 7. What is left

1. *Security rules*: the rules over a rendered Compose file and chart, on top of
   `StackRendering` and `HelmRendering`.
2. *Image updates*: choosing a version, against a reference order.
3. *Backup sidecars*: what the schedule and retention leave restorable.
4. *Two `cds up` at once* on one Compose project: `ComposeUp` under `ProjectCommands`.

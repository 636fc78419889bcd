--------------------------- MODULE ProjectCommands ---------------------------
(***************************************************************************)
(* The commands of cli/main.py that take a profile through the pipeline    *)
(* and leave something behind: `cds plan --output`, `cds render`, `cds up` *)
(* and `cds down`, with the project settings of `cds use` and `cds config` *)
(* they take their defaults from.  They run in several terminals of one    *)
(* project while its files are edited: a command reads the files once to   *)
(* validate and again to plan, and what it renders lies where every other  *)
(* command renders to.                                                     *)
(*                                                                         *)
(* A command asks for [name, target, environment, force]; Saved stands for *)
(* an option that is left out.  What is made of a plan carries its source: *)
(* [overlay, valid, text], whether the document was valid when it was read *)
(* and the words of the files that name the release.                       *)
(***************************************************************************)
EXTENDS ProfileProject

CONSTANTS Terminals,
          Asks,             \* what can be asked of plan, render, up and down
          SettingCommands,  \* [key, value]: config set, use; value Absent: unset, use --clear
          InitialSettings,  \* the settings file: key -> value, or Absent
          InitialChart,     \* what lies where a chart is rendered to: {} or {a directory}
          Saved,
          Foreign,          \* a directory that is not a chart of CDS
          ProfileDir,       \* the name of the profile's directory
          MaxCommands,      \* bound on the commands that are started
          MaxFaults         \* bound on kills, interrupts and failing renames

\* The overlays that an environment can stand for: the profile itself is none.
OverlayFiles == (Files \ {Profile}) \cup {Absent, Outside}

ASSUME StartingPoint ==
    /\ InitialChart \subseteq {Foreign}
    /\ \A ask \in Asks : ask.environment \in OverlayFiles \cup {Saved}
    /\ \A c \in SettingCommands : c.key = "environment" => c.value \in OverlayFiles
    /\ InitialSettings # Absent => At(InitialSettings, "environment", Absent) \in OverlayFiles

VARIABLES settings,   \* .cds/config.json
          session,    \* terminal -> the command that runs in it
          started, faults,
          losses,     \* history: how often what was set aside was removed, nothing put in its place
          planFile, stackFile,
          chart,      \* {}, or {Foreign}, or {a rendered chart}
          aside,      \* terminal -> {} or {the .previous- directory it has made}
          orphans,    \* .previous- directories that no command will remove
          deployed,   \* the stack that Docker Compose runs, or Absent
          releases    \* the Helm releases on the cluster

commandVars == <<settings, session, started, faults, losses, planFile, stackFile, chart, aside,
                 orphans, deployed, releases>>
allVars == <<disk, edits, commandVars>>

Idle == [at |-> "idle"]

CommandInit ==
    /\ Init
    /\ settings = InitialSettings
    /\ session = [t \in Terminals |-> Idle]
    /\ started = 0 /\ faults = 0 /\ losses = 0
    /\ planFile = Absent /\ stackFile = Absent /\ chart = InitialChart
    /\ aside = [t \in Terminals |-> {}]
    /\ orphans = {}
    /\ deployed = Absent /\ releases = {}

At2(t, place) == session[t].at = place
Goto(t, state) == session' = [session EXCEPT ![t] = state]
End(t) == Goto(t, Idle)

Begin(t) ==
    /\ At2(t, "idle")
    /\ started < MaxCommands
    /\ started' = started + 1

(***************************************************************************)
(* Settings: read the whole file, change one key, write the whole file     *)
(***************************************************************************)

\* _read_config: a file that is not there is an empty one.
ReadConfig == IF settings = Absent THEN Nothing ELSE settings

\* _config_value, under the load_saved_ functions
Value(key) == At(ReadConfig, key, Absent)

\* What save_profile, clear_saved_profile, set_config_value and
\* unset_config_value make of the settings they have read.
Changed(data, key, value) == WithField(data, key, value)

\* `cds use` and `cds config` up to there; to unset what is not set ends the
\* command.  Only values that the command accepts are among SettingCommands.
ReadSettings(t) ==
    \E c \in SettingCommands :
        /\ Begin(t)
        /\ IF c.value = Absent /\ Value(c.key) = Absent THEN End(t)
           ELSE Goto(t, [at |-> "setting", key |-> c.key, value |-> c.value,
                         data |-> Changed(ReadConfig, c.key, c.value)])
        /\ UNCHANGED <<disk, edits, settings, faults, losses, planFile, stackFile, chart, aside,
                       orphans, deployed, releases>>

\* _write_config: the file is replaced as a whole, or removed when nothing is
\* left.  To remove one that is gone is a ConfigIOError.
WriteSettings(t) ==
    /\ At2(t, "setting")
    /\ settings' = IF session[t].data = Nothing THEN Absent ELSE session[t].data
    /\ End(t)
    /\ UNCHANGED <<disk, edits, started, faults, losses, planFile, stackFile, chart, aside, orphans,
                   deployed, releases>>

(***************************************************************************)
(* The release and the namespace of a profile                              *)
(***************************************************************************)

\* _helm_identity
HelmIdentity(doc) ==
    <<At(Section(doc, "metadata"), "name", ProfileDir),
      At(Section(doc, "runtime"), "namespace", "cds-local")>>

\* Mutant: only a valid document will do.
BestEffortIfValid(overlay) ==
    LET resolved == Resolve(disk, Profile, overlay)
    IN IF resolved.ok /\ Validate(resolved.doc) = {} THEN resolved.doc
       ELSE [extends |-> NoExtends, sections |-> Nothing, modules |-> <<>>]

\* _resolve_profile_document_best_effort: without validation; an overlay that is
\* no YAML or cannot be merged is left out.
OverlaidIfPossible(base, overlay) ==
    IF ~base.ok THEN [extends |-> NoExtends, sections |-> Nothing, modules |-> <<>>]
    ELSE IF overlay \in {Absent, Outside} \/ ~IsDocument(disk[overlay]) THEN base.doc
    ELSE LET both == MergeDocuments(base.doc, disk[overlay], Profile, overlay, base.prov)
         IN IF both.ok THEN both.doc ELSE base.doc

BestEffort(overlay) == OverlaidIfPossible(ComposeExtends(disk, Profile), overlay)

\* _k8s_runtime_defaults: the release that `down` and `state` are about.
ReleaseOf(overlay) == HelmIdentity(BestEffort(overlay))

\* An overlay that is YAML but no mapping, which is Unreadable too, has no
\* get(): the command ends there.
MayCrash(overlay) ==
    /\ ComposeExtends(disk, Profile).ok
    /\ overlay \in Files /\ disk[overlay] = Unreadable

\* What the files say of the identity: their extends, names and namespaces.
IdentityText ==
    [f \in Files |->
        IF IsDocument(disk[f])
        THEN <<disk[f].extends, Section(disk[f], "metadata"), Section(disk[f], "runtime")>>
        ELSE <<disk[f]>>]

(***************************************************************************)
(* plan, render and up: validate, plan, render                             *)
(***************************************************************************)

\* The options that are left out come from the settings.
Chosen(ask) ==
    [name |-> ask.name, force |-> ask.force,
     overlay |-> IF ask.environment = Saved THEN Value("environment") ELSE ask.environment,
     target  |-> IF ask.target # Saved THEN ask.target
                 ELSE IF Value("target") # Absent THEN Value("target") ELSE "compose"]

\* The first look at the files; a profile that is not valid ends the command.
Validated(t) ==
    \E ask \in Asks :
        LET command == Chosen(ask)
        IN /\ command.name # "down"
           /\ Begin(t)
           /\ IF ValidateProfile(disk, Profile, command.overlay) = {}
              THEN Goto(t, [at |-> "validated", command |-> command])
              ELSE End(t)
           /\ UNCHANGED <<disk, edits, settings, faults, losses, planFile, stackFile, chart, aside,
                          orphans, deployed, releases>>

Options == CHOOSE options \in OptionSets : ~options.allowMissing

Planned(t, doc, plan) ==
    LET command == session[t].command
        source  == [overlay |-> command.overlay, valid |-> Validate(doc) = {}, text |-> IdentityText]
    IN IF plan.errors = {}
       THEN Goto(t, [at |-> "planned", command |-> command, plan |-> plan, source |-> source,
                     identity |-> HelmIdentity(doc)])
       ELSE End(t)

\* build_plan, which takes a second look.
Plan(t) ==
    /\ At2(t, "validated")
    /\ LET overlay == session[t].command.overlay
       IN Planned(t, Resolve(disk, Profile, overlay).doc, BuildPlan(disk, Profile, overlay, Options))
    /\ UNCHANGED <<disk, edits, settings, started, faults, losses, planFile, stackFile, chart,
                   aside,
                   orphans, deployed, releases>>

\* plan --output
SavePlan(t) ==
    /\ At2(t, "planned")
    /\ session[t].command.name = "plan"
    /\ planFile' = session[t]
    /\ End(t)
    /\ UNCHANGED <<disk, edits, settings, started, faults, losses, stackFile, chart, aside, orphans,
                   deployed, releases>>

\* render of a saved plan: an environment is refused, an environment that is
\* only saved is not looked at, and nothing is validated.
RenderSaved(t) ==
    \E ask \in Asks :
        /\ ask.name = "render"
        /\ ask.environment = Saved
        /\ planFile # Absent
        /\ Begin(t)
        /\ Goto(t, [planFile EXCEPT !.command = Chosen(ask)])
        /\ UNCHANGED <<disk, edits, settings, faults, losses, planFile, stackFile, chart, aside,
                       orphans, deployed, releases>>

Renders(t, target) ==
    /\ At2(t, "planned")
    /\ session[t].command.name \in {"render", "up"}
    /\ session[t].command.target = target

\* render_compose writes its file whatever the errors; with errors the command
\* ends there.
WriteStack(t) ==
    /\ Renders(t, "compose")
    /\ \E stack \in {RenderCompose(session[t].plan)} :
          /\ stackFile' = [errors |-> stack.errors, names |-> DOMAIN stack.services,
                           source |-> session[t].source]
          /\ IF stack.errors = {} /\ session[t].command.name = "up"
             THEN Goto(t, [at |-> "stack"])
             ELSE End(t)
    /\ UNCHANGED <<disk, edits, settings, started, faults, losses, planFile, chart, aside, orphans,
                   deployed, releases>>

\* docker compose -f docker-compose.yml up: the file as it is by now.
Deploy(t) ==
    /\ At2(t, "stack")
    /\ deployed' = stackFile
    /\ End(t)
    /\ UNCHANGED <<disk, edits, settings, started, faults, losses, planFile, stackFile, chart,
                   aside,
                   orphans, releases>>

(***************************************************************************)
(* The chart                                                               *)
(***************************************************************************)

\* _render_helm_chart up to the first rename of _write_chart: `render` leaves a
\* directory that is not a chart of CDS alone unless it is forced, `up` always
\* forces, and a chart with errors is not written.
RenderChart(t) ==
    /\ Renders(t, "helm")
    /\ \E command \in {session[t].command},
          made \in {[errors |-> RenderHelm(session[t].plan).errors, source |-> session[t].source]} :
          IF \/ command.name = "render" /\ ~command.force /\ chart = {Foreign}
             \/ made.errors # {}
          THEN End(t)
          ELSE Goto(t, [at |-> "staged", made |-> made, up |-> command.name = "up",
                        identity |-> session[t].identity])
    /\ UNCHANGED <<disk, edits, settings, started, faults, losses, planFile, stackFile, chart,
                   aside,
                   orphans, deployed, releases>>

Carry(t, place) ==
    Goto(t, [at |-> place, made |-> session[t].made, up |-> session[t].up,
             identity |-> session[t].identity])

\* _write_chart: what is there is moved to a .previous- directory of its own.
MoveAside(t) ==
    /\ At2(t, "staged")
    /\ Carry(t, "aside")
    /\ aside' = [aside EXCEPT ![t] = chart]
    /\ chart' = {}
    /\ UNCHANGED <<disk, edits, settings, started, faults, losses, planFile, stackFile, orphans,
                   deployed, releases>>

\* The staged chart takes its place and the one set aside is removed.  A
\* directory that is there again cannot be replaced: then the command fails.
MoveIn(t) ==
    /\ At2(t, "aside")
    /\ IF chart = {}
       THEN /\ chart' = {session[t].made}
            /\ IF session[t].up THEN Carry(t, "chart") ELSE End(t)
       ELSE UNCHANGED chart /\ End(t)
    /\ aside' = [aside EXCEPT ![t] = {}]
    /\ UNCHANGED <<disk, edits, settings, started, faults, losses, planFile, stackFile, orphans,
                   deployed, releases>>

\* Mutant: what was set aside is not put back.
LeaveChart(t) ==
    /\ At2(t, "aside")
    /\ faults < MaxFaults
    /\ faults' = faults + 1
    /\ aside' = [aside EXCEPT ![t] = {}]
    /\ End(t)
    /\ UNCHANGED <<disk, edits, settings, started, losses, planFile, stackFile, chart, orphans,
                   deployed, releases>>

\* The rename fails: what was set aside is put back unless another command has
\* put a chart there.
RestoreChart(t) ==
    /\ At2(t, "aside")
    /\ faults < MaxFaults
    /\ faults' = faults + 1
    /\ chart' = IF chart = {} THEN aside[t] ELSE chart
    /\ aside' = [aside EXCEPT ![t] = {}]
    /\ End(t)
    /\ UNCHANGED <<disk, edits, settings, started, losses, planFile, stackFile, orphans, deployed,
                   releases>>

\* Ctrl-C between the renames is no Exception, so nothing is put back, or the
\* rename that puts it back fails too; what was set aside is removed all the same.
LoseChart(t) ==
    /\ At2(t, "aside")
    /\ faults < MaxFaults
    /\ faults' = faults + 1
    /\ losses' = losses + 1
    /\ aside' = [aside EXCEPT ![t] = {}]
    /\ End(t)
    /\ UNCHANGED <<disk, edits, settings, started, planFile, stackFile, chart, orphans, deployed,
                   releases>>

\* The process is killed; what it has set aside stays where it is.  Ctrl-C does
\* the same where nothing is set aside.
Kill(t) ==
    /\ ~At2(t, "idle")
    /\ faults < MaxFaults
    /\ faults' = faults + 1
    /\ orphans' = orphans \cup aside[t]
    /\ aside' = [aside EXCEPT ![t] = {}]
    /\ End(t)
    /\ UNCHANGED <<disk, edits, settings, started, losses, planFile, stackFile, chart, deployed,
                   releases>>

(***************************************************************************)
(* Releases                                                                *)
(***************************************************************************)

\* helm_up: the chart as it is by now, under the identity of the plan.
InstallRelease(t) ==
    /\ At2(t, "chart")
    /\ releases' = IF chart \in {{}, {Foreign}} THEN releases
                   ELSE {r \in releases : r.identity # session[t].identity}
                        \cup {[identity |-> session[t].identity, chart |-> c,
                               overlay |-> session[t].made.source.overlay,
                               text |-> session[t].made.source.text] : c \in chart}
    /\ End(t)
    /\ UNCHANGED <<disk, edits, settings, started, faults, losses, planFile, stackFile, chart,
                   aside,
                   orphans, deployed>>

\* down: the release that the files name by now, or the stack of the file
\* that is there by now.
Down(t) ==
    \E ask \in Asks :
        LET command == Chosen(ask)
        IN /\ command.name = "down"
           /\ Begin(t)
           /\ End(t)
           /\ IF command.target = "helm"
              THEN /\ \/ releases' = {r \in releases :
                                        r.identity # ReleaseOf(command.overlay)}
                      \/ MayCrash(command.overlay) /\ UNCHANGED releases
                   /\ UNCHANGED deployed
              ELSE /\ deployed' = IF stackFile = Absent THEN deployed ELSE Absent
                   /\ UNCHANGED releases
           /\ UNCHANGED <<disk, edits, settings, faults, losses, planFile, stackFile, chart,
                          aside, orphans>>

EditFiles == Next /\ UNCHANGED commandVars

Step(t) ==
    \/ ReadSettings(t) \/ WriteSettings(t)
    \/ Validated(t) \/ Plan(t) \/ SavePlan(t) \/ RenderSaved(t)
    \/ WriteStack(t) \/ Deploy(t)
    \/ RenderChart(t) \/ MoveAside(t) \/ MoveIn(t)
    \/ RestoreChart(t) \/ LoseChart(t) \/ Kill(t)
    \/ InstallRelease(t) \/ Down(t)

CommandNext == EditFiles \/ \E t \in Terminals : Step(t)

CommandSpec == CommandInit /\ [][CommandNext]_allVars

(***************************************************************************)
(* What the commands promise                                               *)
(***************************************************************************)

\* A release that is running is the one that `down` and `state` go for, as
\* long as nobody has changed the names in the files and the files can still
\* be put together, however invalid the profile has become since.
\* (_resolve_profile_document_best_effort, its docstring at main.py:284.)
DownFindsRelease ==
    \A r \in releases :
        r.text = IdentityText /\ Composable(Profile, r.overlay) =>
            ReleaseOf(r.overlay) = r.identity

HasChart == \/ chart # {}
            \/ orphans # {}
            \/ \E t \in Terminals : aside[t] # {}

\* A directory that was where the chart goes is only ever exchanged for
\* another: whatever fails or is killed, and whatever other terminals do at the
\* same time, one of them is there or beside it, unless Ctrl-C or a second
\* failure hits a command between its renames (_write_chart).
ChartKept == [][HasChart => HasChart' \/ losses' > losses]_allVars

\* What is made of a profile with an environment was valid when it was planned,
\* though it was validated in another look at the files; a chart on the disk or
\* on the cluster was rendered without errors.
OutputsAreSound ==
    LET charts == (chart \cup (UNION Range(aside)) \cup orphans \cup {r.chart : r \in releases})
                  \ {Foreign}
        made   == charts \cup ({planFile, stackFile, deployed} \ {Absent})
    IN /\ \A c \in charts : c.errors = {}
       /\ \A m \in made : m.source.overlay # Absent => m.source.valid

=============================================================================

------------------------ MODULE ProjectCommands_proofs ------------------------
(***************************************************************************)
(* Nobody loses a chart, and nothing is made of a profile that was not     *)
(* valid, for any number of terminals, commands, edits and faults.         *)
(***************************************************************************)
EXTENDS ProjectCommands, ProfileProject_proofs

(* A terminal has set something aside only between the two renames.        *)
AsideInUse ==
    /\ DOMAIN session = Terminals
    /\ aside = [t \in Terminals |-> aside[t]]
    /\ \A t \in Terminals : ~At2(t, "aside") => aside[t] = {}
    /\ losses \in Nat

LEMMA InitAside == CommandInit => AsideInUse
BY DEF CommandInit, AsideInUse, At2, Idle

(* A step of one terminal that touches no chart keeps things as they are. *)
LEMMA ElsewhereAside ==
    ASSUME AsideInUse, NEW t \in Terminals, ~At2(t, "aside"), UNCHANGED <<aside, losses>>,
           NEW state, session' = [session EXCEPT ![t] = state]
    PROVE  AsideInUse'
BY DEF AsideInUse, At2

LEMMA StepAside ==
    ASSUME AsideInUse, NEW t \in Terminals, Step(t)
    PROVE  AsideInUse'
<1> USE DEF Goto, End, Begin, Carry
<1>1. CASE ReadSettings(t)
  BY <1>1, ElsewhereAside DEF ReadSettings, At2
<1>2. CASE WriteSettings(t) \/ SavePlan(t) \/ Deploy(t) \/ InstallRelease(t) \/ Down(t)
  BY <1>2, ElsewhereAside DEF WriteSettings, SavePlan, Deploy, InstallRelease, Down, At2
<1>3. CASE Validated(t)
  BY <1>3, ElsewhereAside DEF Validated, At2
<1>4. CASE Plan(t)
  BY <1>4, ElsewhereAside DEF Plan, Planned, At2
<1>5. CASE RenderSaved(t)
  BY <1>5, ElsewhereAside DEF RenderSaved, At2
<1>6. CASE WriteStack(t)
  BY <1>6, ElsewhereAside DEF WriteStack, Renders, At2
<1>7. CASE RenderChart(t)
  BY <1>7, ElsewhereAside DEF RenderChart, Renders, At2
<1>8. CASE MoveAside(t)
  BY <1>8 DEF MoveAside, AsideInUse, At2
<1>9. CASE MoveIn(t) \/ RestoreChart(t) \/ Kill(t)
  BY <1>9 DEF MoveIn, RestoreChart, Kill, AsideInUse, At2, Idle
<1>10. CASE LoseChart(t)
  <2>1. losses' \in Nat
    BY <1>10 DEF LoseChart, AsideInUse
  <2>2. /\ session' = [session EXCEPT ![t] = Idle] /\ aside' = [aside EXCEPT ![t] = {}]
        /\ DOMAIN session = Terminals /\ DOMAIN aside = Terminals
    BY <1>10 DEF LoseChart, AsideInUse
  <2> QED BY <2>1, <2>2 DEF AsideInUse, At2, Idle
<1> QED BY <1>1, <1>2, <1>3, <1>4, <1>5, <1>6, <1>7, <1>8, <1>9, <1>10 DEF Step

LEMMA AsideAlways == CommandSpec => []AsideInUse
<1>1. ASSUME AsideInUse, EditFiles \/ UNCHANGED allVars PROVE AsideInUse'
  BY <1>1 DEF EditFiles, allVars, commandVars, AsideInUse, At2
<1>2. AsideInUse /\ [CommandNext]_allVars => AsideInUse'
  BY <1>1, StepAside DEF CommandNext
<1> QED BY InitAside, <1>2, PTL DEF CommandSpec

(***************************************************************************)
(* However many terminals render charts into one directory, a directory    *)
(* that was there is still there, or set aside beside it: after a rename   *)
(* that failed, which _write_chart undoes, and after a kill.  The only step *)
(* that takes it away is the one of `finally` after Ctrl-C between the two *)
(* renames, or after a failing os.replace in `except`, which `losses` counts. *)
(***************************************************************************)
THEOREM ChartIsKept == CommandSpec => ChartKept
<1>1. ASSUME AsideInUse, HasChart, NEW t \in Terminals, Step(t)
      PROVE  HasChart' \/ losses' > losses
  <2> USE DEF AsideInUse, HasChart, At2
  <2>1. CASE ReadSettings(t) \/ WriteSettings(t) \/ Validated(t) \/ Plan(t) \/ SavePlan(t) \/ RenderSaved(t)
             \/ WriteStack(t) \/ Deploy(t) \/ RenderChart(t) \/ InstallRelease(t) \/ Down(t)
    <3>1. UNCHANGED <<chart, aside, orphans>>
      BY <2>1 DEF ReadSettings, WriteSettings, Validated, Plan, SavePlan, RenderSaved, WriteStack,
         Deploy, RenderChart, InstallRelease, Down
    <3> QED BY <1>1, <3>1
  <2>2. CASE MoveAside(t)
    BY <2>2, <1>1 DEF MoveAside
  <2>3. CASE MoveIn(t)
    BY <2>3, <1>1 DEF MoveIn
  <2>4. CASE RestoreChart(t)
    BY <2>4, <1>1 DEF RestoreChart
  <2>5. CASE Kill(t)
    BY <2>5, <1>1 DEF Kill
  <2>6. CASE LoseChart(t)
    BY <2>6, <1>1 DEF LoseChart
  <2> QED BY <1>1, <2>1, <2>2, <2>3, <2>4, <2>5, <2>6 DEF Step
<1>2. AsideInUse /\ [CommandNext]_allVars => [HasChart => HasChart' \/ losses' > losses]_allVars
  BY <1>1 DEF CommandNext, EditFiles, commandVars, HasChart
<1> QED BY <1>2, AsideAlways, PTL DEF CommandSpec, ChartKept

(***************************************************************************)
(* What is made of a profile                                               *)
(***************************************************************************)

\* What is made of a document carries whether the document was valid.
Sound(made) == made.source.overlay # Absent => made.source.valid

IsPlan(plan) ==
    /\ {"at", "command", "source"} \subseteq DOMAIN plan
    /\ plan.at = "planned"
    /\ Sound(plan)

IsChart(c) == c = Foreign \/ (c.errors = {} /\ Sound(c))

(* From the plan in a terminal to what runs: nothing in between is unsound. *)
SoundSessions(s) ==
    \A t \in Terminals :
        /\ s[t].at = "planned" => IsPlan(s[t])
        /\ s[t].at \in {"staged", "aside", "chart"} => s[t].made.errors = {} /\ Sound(s[t].made)

SoundPlan(plan)   == plan = Absent \/ IsPlan(plan)
SoundStack(stack) == stack = Absent \/ Sound(stack)

SoundCharts ==
    /\ \A c \in chart \cup orphans : IsChart(c)
    /\ \A t \in Terminals : \A c \in aside[t] : IsChart(c)
    /\ \A r \in releases : IsChart(r.chart)

AllSound ==
    /\ SoundSessions(session)
    /\ SoundPlan(planFile) /\ SoundStack(stackFile) /\ SoundStack(deployed)
    /\ SoundCharts

Inductive == TypeOK /\ AsideInUse /\ AllSound

LEMMA InitSound == CommandInit => Inductive
<1>1. CommandInit => TypeOK
  BY Contents DEF CommandInit, Init, TypeOK
<1>2. CommandInit => AllSound
  BY StartingPoint DEF CommandInit, AllSound, SoundSessions, SoundPlan, SoundStack, SoundCharts, IsChart, Idle
<1> QED BY <1>1, <1>2, InitAside DEF Inductive

(* A terminal goes on to what is sound, or to where nothing has been made. *)
LEMMA SessionsStaySound ==
    ASSUME AsideInUse, SoundSessions(session), NEW t \in Terminals, NEW state,
           state.at = "planned" => IsPlan(state),
           state.at \in {"staged", "aside", "chart"} => state.made.errors = {} /\ Sound(state.made)
    PROVE  SoundSessions([session EXCEPT ![t] = state])
BY DEF AsideInUse, SoundSessions

LEMMA EndSound ==
    ASSUME AsideInUse, SoundSessions(session), NEW t \in Terminals, End(t)
    PROVE  SoundSessions(session')
BY SessionsStaySound DEF End, Goto, Idle

LEMMA PlanSound ==
    ASSUME Inductive, NEW t \in Terminals, Plan(t)
    PROVE  SoundSessions(session')
<1> DEFINE overlay == session[t].command.overlay
           doc     == Resolve(disk, Profile, overlay).doc
           plan    == BuildPlan(disk, Profile, overlay, Options)
           source  == [overlay |-> overlay, valid |-> Validate(doc) = {}, text |-> IdentityText]
           state   == [at |-> "planned", command |-> session[t].command, plan |-> plan,
                       source |-> source, identity |-> HelmIdentity(doc)]
<1>1. CASE plan.errors # {}
  BY <1>1, EndSound DEF Plan, Planned, Inductive, AllSound
<1>2. CASE plan.errors = {}
  <2>1. session' = [session EXCEPT ![t] = state]
    BY <1>2 DEF Plan, Planned, Goto
  <2>2. overlay # Absent => Validate(doc) = {}
    BY <1>2, PlannedWasValid DEF Inductive
  <2>3. IsPlan(state)
    <3> HIDE DEF overlay, doc, plan
    <3> QED BY <2>2 DEF IsPlan, Sound
  <2>4. state.at = "planned"
    OBVIOUS
  <2> HIDE DEF state
  <2> QED BY <2>1, <2>3, <2>4, SessionsStaySound DEF Inductive, AllSound
<1> QED BY <1>1, <1>2

LEMMA StepSound ==
    ASSUME Inductive, NEW t \in Terminals, Step(t)
    PROVE  AllSound'
<1>0. AsideInUse /\ AllSound /\ t \in DOMAIN aside
  BY DEF Inductive, AsideInUse
<1>1. CASE ReadSettings(t) \/ WriteSettings(t) \/ Validated(t)
  <2>1. UNCHANGED <<planFile, stackFile, deployed, chart, aside, orphans, releases>>
    BY <1>1 DEF ReadSettings, WriteSettings, Validated
  <2>2. SoundSessions(session')
    BY <1>0, <1>1, SessionsStaySound, EndSound DEF ReadSettings, WriteSettings, Validated, Goto, AllSound
  <2> QED BY <1>0, <2>1, <2>2 DEF AllSound, SoundCharts
<1>2. CASE Plan(t)
  <2>1. UNCHANGED <<planFile, stackFile, deployed, chart, aside, orphans, releases>>
    BY <1>2 DEF Plan
  <2> QED BY <1>0, <1>2, <2>1, PlanSound DEF AllSound, SoundCharts
<1>3. CASE SavePlan(t)
  <2>1. UNCHANGED <<stackFile, deployed, chart, aside, orphans, releases>> /\ SoundSessions(session')
    BY <1>0, <1>3, EndSound DEF SavePlan, AllSound
  <2>2. SoundPlan(planFile')
    BY <1>0, <1>3 DEF SavePlan, At2, AllSound, SoundSessions, SoundPlan
  <2> QED BY <1>0, <2>1, <2>2 DEF AllSound, SoundCharts
<1>4. CASE RenderSaved(t)
  <2>1. UNCHANGED <<planFile, stackFile, deployed, chart, aside, orphans, releases>>
    BY <1>4 DEF RenderSaved
  <2>2. PICK command : planFile # Absent /\ session' = [session EXCEPT ![t] = [planFile EXCEPT !.command = command]]
    BY <1>4 DEF RenderSaved, Goto
  <2>3. IsPlan([planFile EXCEPT !.command = command]) /\ [planFile EXCEPT !.command = command].at = "planned"
    BY <1>0, <2>2 DEF AllSound, SoundPlan, IsPlan, Sound
  <2>4. SoundSessions(session')
    BY <1>0, <2>2, <2>3, SessionsStaySound DEF AllSound
  <2> QED BY <1>0, <2>1, <2>4 DEF AllSound, SoundCharts
<1>5. CASE WriteStack(t)
  <2>1. UNCHANGED <<planFile, deployed, chart, aside, orphans, releases>>
    BY <1>5 DEF WriteStack
  <2>2. PICK errors, names : stackFile' = [errors |-> errors, names |-> names, source |-> session[t].source]
    BY <1>5 DEF WriteStack
  <2>3. SoundStack(stackFile')
    BY <1>0, <1>5, <2>2 DEF WriteStack, Renders, At2, AllSound, SoundSessions, IsPlan, SoundStack, Sound
  <2>4. SoundSessions(session')
    BY <1>0, <1>5, SessionsStaySound, EndSound DEF WriteStack, Goto, AllSound
  <2> QED BY <1>0, <2>1, <2>3, <2>4 DEF AllSound, SoundCharts
<1>6. CASE Deploy(t)
  BY <1>0, <1>6, EndSound DEF Deploy, AllSound, SoundCharts
<1>7. CASE RenderChart(t)
  <2>1. UNCHANGED <<planFile, stackFile, deployed, chart, aside, orphans, releases>>
    BY <1>7 DEF RenderChart
  <2> DEFINE made == [errors |-> RenderHelm(session[t].plan).errors, source |-> session[t].source]
  <2>2. Sound(made)
    BY <1>0, <1>7 DEF RenderChart, Renders, At2, AllSound, SoundSessions, IsPlan, Sound
  <2>3. CASE End(t)
    BY <1>0, <2>1, <2>3, EndSound DEF AllSound, SoundCharts
  <2>4. CASE ~End(t)
    <3>1. PICK up : /\ made.errors = {}
                    /\ session' = [session EXCEPT ![t] = [at |-> "staged", made |-> made, up |-> up,
                                                          identity |-> session[t].identity]]
      BY <1>7, <2>4 DEF RenderChart, Goto
    <3> HIDE DEF made
    <3>2. SoundSessions(session')
      BY <1>0, <2>2, <3>1, SessionsStaySound DEF AllSound
    <3> QED BY <1>0, <2>1, <3>2 DEF AllSound, SoundCharts
  <2> QED BY <2>3, <2>4
<1>8. ASSUME NEW place \in {"aside", "chart"}, Carry(t, place), At2(t, "staged") \/ At2(t, "aside")
      PROVE  SoundSessions(session')
  BY <1>0, <1>8, SessionsStaySound DEF Carry, Goto, At2, AllSound, SoundSessions
<1>9. CASE MoveAside(t)
  <2>1. SoundSessions(session')
    BY <1>8, <1>9 DEF MoveAside
  <2>2. /\ \A c \in chart : IsChart(c)
        /\ chart' = {} /\ aside' = [aside EXCEPT ![t] = chart]
        /\ UNCHANGED <<planFile, stackFile, deployed, orphans, releases>>
    BY <1>0, <1>9 DEF MoveAside, AllSound, SoundCharts
  <2>3. \A u \in Terminals : \A c \in aside'[u] : IsChart(c)
    BY <1>0, <2>2 DEF AsideInUse, AllSound, SoundCharts
  <2>4. \A c \in chart' \cup orphans' : IsChart(c)
    BY <1>0, <2>2 DEF AllSound, SoundCharts
  <2>5. \A r \in releases' : IsChart(r.chart)
    BY <1>0, <2>2 DEF AllSound, SoundCharts
  <2>6. SoundPlan(planFile') /\ SoundStack(stackFile') /\ SoundStack(deployed')
    BY <1>0, <2>2 DEF AllSound
  <2> QED BY <2>1, <2>3, <2>4, <2>5, <2>6 DEF AllSound, SoundCharts
<1>10. CASE MoveIn(t)
  <2>1. SoundSessions(session')
    BY <1>0, <1>8, <1>10, EndSound DEF MoveIn, AllSound
  <2>2. \A c \in chart' : IsChart(c)
    BY <1>0, <1>10 DEF MoveIn, At2, AllSound, SoundSessions, SoundCharts, IsChart
  <2> QED BY <1>0, <1>10, <2>1, <2>2 DEF MoveIn, AllSound, SoundCharts
<1>11. CASE RestoreChart(t) \/ LoseChart(t) \/ Kill(t)
  <2>1. SoundSessions(session')
    BY <1>0, <1>11, EndSound DEF RestoreChart, LoseChart, Kill, AllSound
  <2>2. \A c \in chart' \cup orphans' : IsChart(c)
    BY <1>0, <1>11 DEF RestoreChart, LoseChart, Kill, AllSound, SoundCharts
  <2>3. \A u \in Terminals : aside'[u] \subseteq aside[u]
    BY <1>0, <1>11 DEF RestoreChart, LoseChart, Kill, AsideInUse
  <2>4. UNCHANGED <<planFile, stackFile, deployed, releases>>
    BY <1>11 DEF RestoreChart, LoseChart, Kill
  <2> QED BY <1>0, <2>1, <2>2, <2>3, <2>4 DEF AllSound, SoundCharts
<1>12. CASE InstallRelease(t)
  <2>1. SoundSessions(session') /\ UNCHANGED <<planFile, stackFile, deployed, chart, aside, orphans>>
    BY <1>0, <1>12, EndSound DEF InstallRelease, AllSound
  <2>2. \A r \in releases' : r \in releases \/ r.chart \in chart
    BY <1>12 DEF InstallRelease
  <2> QED BY <1>0, <2>1, <2>2 DEF AllSound, SoundCharts
<1>13. CASE Down(t)
  <2>1. SoundSessions(session') /\ UNCHANGED <<planFile, stackFile, chart, aside, orphans>>
    BY <1>0, <1>13, EndSound DEF Down, AllSound
  <2>2. releases' \subseteq releases /\ deployed' \in {deployed, Absent}
    BY <1>13 DEF Down
  <2> QED BY <1>0, <2>1, <2>2 DEF AllSound, SoundCharts, SoundStack
<1> QED BY <1>1, <1>2, <1>3, <1>4, <1>5, <1>6, <1>7, <1>9, <1>10, <1>11, <1>12, <1>13 DEF Step

LEMMA InductiveAlways == CommandSpec => []Inductive
<1>1. ASSUME Inductive, NEW t \in Terminals, Step(t) PROVE Inductive'
  <2>1. UNCHANGED vars
    BY <1>1 DEF Step, ReadSettings, WriteSettings, Validated, Plan, SavePlan, RenderSaved, WriteStack,
       Deploy, RenderChart, MoveAside, MoveIn, RestoreChart, LoseChart, Kill, InstallRelease, Down, vars
  <2> QED BY <1>1, <2>1, StepAside, StepSound DEF Inductive, TypeOK, vars
<1>2. ASSUME Inductive, EditFiles \/ UNCHANGED allVars PROVE Inductive'
  <2>1. TypeOK'
    BY <1>2, TypesStep DEF Inductive, EditFiles, allVars, TypeOK
  <2>2. UNCHANGED commandVars
    BY <1>2 DEF EditFiles, allVars
  <2>3. AsideInUse'
    BY <1>2, <2>2 DEF Inductive, AsideInUse, commandVars, At2
  <2>4. AllSound'
    BY <1>2, <2>2 DEF Inductive, AllSound, SoundCharts, commandVars
  <2> QED BY <2>1, <2>3, <2>4 DEF Inductive
<1>3. Inductive /\ [CommandNext]_allVars => Inductive'
  BY <1>1, <1>2 DEF CommandNext
<1> QED BY InitSound, <1>3, PTL DEF CommandSpec

(***************************************************************************)
(* The files are read twice, edited in between, and what one command has   *)
(* rendered is deployed by another; still nothing that is made for an      *)
(* environment comes from a profile that was not valid when it was         *)
(* planned, and no chart with errors is ever where one is installed from.  *)
(***************************************************************************)
THEOREM NothingUnsoundIsMade == CommandSpec => []OutputsAreSound
<1>1. Inductive => OutputsAreSound
  <2>1. SUFFICES ASSUME Inductive PROVE OutputsAreSound
    OBVIOUS
  <2>2. \A c \in chart \cup (UNION Range(aside)) \cup orphans \cup {r.chart : r \in releases} : IsChart(c)
    <3>1. \A c \in (UNION Range(aside)) : \E t \in Terminals : c \in aside[t]
      <4>1. DOMAIN aside = Terminals
        BY <2>1 DEF Inductive, AsideInUse
      <4> QED BY <4>1 DEF Range
    <3>2. \A c \in chart \cup orphans : IsChart(c)
      BY <2>1 DEF Inductive, AllSound, SoundCharts
    <3>3. \A t \in Terminals : \A c \in aside[t] : IsChart(c)
      BY <2>1 DEF Inductive, AllSound, SoundCharts
    <3>4. \A c \in {r.chart : r \in releases} : IsChart(c)
      BY <2>1 DEF Inductive, AllSound, SoundCharts
    <3> QED BY <3>1, <3>2, <3>3, <3>4
  <2>3. \A m \in {planFile, stackFile, deployed} \ {Absent} : Sound(m)
    BY <2>1 DEF Inductive, AllSound, SoundPlan, SoundStack, IsPlan
  <2> QED BY <2>2, <2>3 DEF OutputsAreSound, IsChart, Sound
<1> QED BY <1>1, InductiveAlways, PTL

(***************************************************************************)
(* Releases and the profiles that name them                                *)
(***************************************************************************)

\* An environment that is saved, as one that is asked for, stands for an overlay.
SavedIsOverlay(data) == At(data, "environment", Absent) \in OverlayFiles

\* The release is the one of some files that said this of themselves, and that
\* could be put together when they did.
NamedBy(identity, overlay, text) ==
    /\ overlay \in OverlayFiles
    /\ \E files : /\ \A f \in Files : IsContent(files[f])
                  /\ TextOf(files) = text
                  /\ Resolve(files, Profile, overlay).ok
                  /\ identity = HelmIdentity(Resolve(files, Profile, overlay).doc)

Named(identity, source) == NamedBy(identity, source.overlay, source.text)

NamedState(state) ==
    /\ state.at = "setting" => SavedIsOverlay(state.data)
    /\ state.at = "validated" => state.command.overlay \in OverlayFiles
    /\ state.at = "planned" => Named(state.identity, state.source)
    /\ state.at \in {"staged", "aside", "chart"} => Named(state.identity, state.made.source)

NamedSessions(s) == \A t \in Terminals : NamedState(s[t])

AllNamed ==
    /\ SavedIsOverlay(ReadConfig)
    /\ NamedSessions(session)
    /\ planFile # Absent => Named(planFile.identity, planFile.source)
    /\ \A r \in releases : NamedBy(r.identity, r.overlay, r.text)

LEMMA InitNamed == CommandInit => AllNamed
<1>1. SavedIsOverlay(Nothing)
  BY DEF SavedIsOverlay, At, Nothing, OverlayFiles
<1> QED BY <1>1, StartingPoint
       DEF CommandInit, AllNamed, NamedSessions, NamedState, ReadConfig, SavedIsOverlay, Idle

LEMMA SessionsStayNamed ==
    ASSUME AsideInUse, NamedSessions(session), NEW t \in Terminals, NEW state, NamedState(state)
    PROVE  NamedSessions([session EXCEPT ![t] = state])
BY DEF AsideInUse, NamedSessions

LEMMA EndNamed ==
    ASSUME AsideInUse, NamedSessions(session), NEW t \in Terminals, End(t)
    PROVE  NamedSessions(session')
<1>1. NamedState(Idle)
  BY DEF NamedState, Idle
<1> QED BY <1>1, SessionsStayNamed DEF End, Goto

LEMMA ChangedIsOverlay ==
    ASSUME NEW data, SavedIsOverlay(data), NEW key, NEW value, key = "environment" => value \in OverlayFiles
    PROVE  SavedIsOverlay(Changed(data, key, value))
<1>1. Absent \in OverlayFiles
  BY DEF OverlayFiles
<1> QED BY <1>1 DEF SavedIsOverlay, Changed, WithField, Put, Override, At

LEMMA ChosenIsOverlay ==
    ASSUME SavedIsOverlay(ReadConfig), NEW ask \in Asks
    PROVE  Chosen(ask).overlay \in OverlayFiles
BY StartingPoint DEF SavedIsOverlay, Chosen, Value

LEMMA PlanNamed ==
    ASSUME Inductive, AllNamed, NEW t \in Terminals, Plan(t)
    PROVE  NamedSessions(session')
<1> DEFINE overlay == session[t].command.overlay
           doc     == Resolve(disk, Profile, overlay).doc
           plan    == BuildPlan(disk, Profile, overlay, Options)
           source  == [overlay |-> overlay, valid |-> Validate(doc) = {}, text |-> IdentityText]
           state   == [at |-> "planned", command |-> session[t].command, plan |-> plan,
                       source |-> source, identity |-> HelmIdentity(doc)]
<1>1. CASE plan.errors # {}
  BY <1>1, EndNamed DEF Plan, Planned, Inductive, AllNamed
<1>2. CASE plan.errors = {}
  <2>1. session' = [session EXCEPT ![t] = state]
    BY <1>2 DEF Plan, Planned, Goto
  <2>2. /\ overlay \in OverlayFiles /\ Resolve(disk, Profile, overlay).ok
        /\ \A f \in Files : IsContent(disk[f])
    BY <1>2, PlannedWasResolved DEF Inductive, TypeOK, AllNamed, NamedSessions, NamedState, Plan, At2
  <2>3. IdentityText = TextOf(disk)
    BY DEF IdentityText, TextOf
  <2> HIDE DEF overlay, plan
  <2>4. NamedBy(HelmIdentity(doc), overlay, IdentityText)
    BY <2>2, <2>3 DEF NamedBy
  <2>5. NamedState(state)
    <3> HIDE DEF doc
    <3> QED BY <2>4 DEF NamedState, Named
  <2> HIDE DEF state
  <2> QED BY <2>1, <2>5, SessionsStayNamed DEF Inductive, AllNamed
<1> QED BY <1>1, <1>2

LEMMA StepNamed ==
    ASSUME Inductive, AllNamed, NEW t \in Terminals, Step(t)
    PROVE  AllNamed'
<1>0. AsideInUse /\ SavedIsOverlay(ReadConfig) /\ NamedSessions(session) /\ NamedState(session[t])
  BY DEF Inductive, AllNamed, NamedSessions
<1>1. CASE ReadSettings(t)
  <2>1. UNCHANGED <<settings, planFile, releases>>
    BY <1>1 DEF ReadSettings
  <2>2. PICK c \in SettingCommands :
           End(t) \/ Goto(t, [at |-> "setting", key |-> c.key, value |-> c.value,
                              data |-> Changed(ReadConfig, c.key, c.value)])
    BY <1>1 DEF ReadSettings
  <2>3. SavedIsOverlay(Changed(ReadConfig, c.key, c.value))
    BY <1>0, StartingPoint, ChangedIsOverlay
  <2>4. NamedSessions(session')
    BY <1>0, <2>2, <2>3, SessionsStayNamed, EndNamed DEF Goto, NamedState
  <2> QED BY <2>1, <2>4 DEF AllNamed, ReadConfig
<1>2. CASE WriteSettings(t)
  <2>1. UNCHANGED <<planFile, releases>> /\ NamedSessions(session')
    BY <1>0, <1>2, EndNamed DEF WriteSettings
  <2>2. SavedIsOverlay(session[t].data) /\ SavedIsOverlay(Nothing)
    BY <1>0, <1>2 DEF WriteSettings, At2, NamedState, SavedIsOverlay, At, Nothing, OverlayFiles
  <2>3. SavedIsOverlay(ReadConfig')
    BY <1>2, <2>2 DEF WriteSettings, ReadConfig
  <2> QED BY <2>1, <2>3 DEF AllNamed, SavedIsOverlay
<1>3. CASE Validated(t)
  <2>1. UNCHANGED <<settings, planFile, releases>>
    BY <1>3 DEF Validated
  <2>2. PICK ask \in Asks : End(t) \/ Goto(t, [at |-> "validated", command |-> Chosen(ask)])
    BY <1>3 DEF Validated
  <2>3. NamedSessions(session')
    BY <1>0, <2>2, ChosenIsOverlay, SessionsStayNamed, EndNamed DEF Goto, NamedState
  <2> QED BY <2>1, <2>3 DEF AllNamed, ReadConfig
<1>4. CASE Plan(t)
  <2>1. UNCHANGED <<settings, planFile, releases>>
    BY <1>4 DEF Plan
  <2> QED BY <1>4, <2>1, PlanNamed DEF AllNamed, ReadConfig
<1>5. CASE SavePlan(t)
  <2>1. UNCHANGED <<settings, releases>> /\ NamedSessions(session')
    BY <1>0, <1>5, EndNamed DEF SavePlan
  <2>2. Named(planFile'.identity, planFile'.source)
    BY <1>0, <1>5 DEF SavePlan, At2, NamedState
  <2> QED BY <2>1, <2>2 DEF AllNamed, ReadConfig, Named
<1>6. CASE RenderSaved(t)
  <2>1. UNCHANGED <<settings, planFile, releases>>
    BY <1>6 DEF RenderSaved
  <2>2. PICK command : planFile # Absent /\ session' = [session EXCEPT ![t] = [planFile EXCEPT !.command = command]]
    BY <1>6 DEF RenderSaved, Goto
  <2> DEFINE state == [planFile EXCEPT !.command = command]
  <2>3. state.at = "planned" /\ state.identity = planFile.identity /\ state.source = planFile.source
    BY <2>2 DEF Inductive, AllSound, SoundPlan, IsPlan
  <2> HIDE DEF state
  <2>4. NamedState(state)
    BY <2>2, <2>3 DEF AllNamed, NamedState
  <2>5. NamedSessions(session')
    BY <1>0, <2>2, <2>4, SessionsStayNamed DEF state
  <2> QED BY <2>1, <2>5 DEF AllNamed, ReadConfig
<1>7. CASE WriteStack(t)
  <2>1. UNCHANGED <<settings, planFile, releases>>
    BY <1>7 DEF WriteStack
  <2>2. End(t) \/ Goto(t, [at |-> "stack"])
    BY <1>7 DEF WriteStack
  <2>3. NamedSessions(session')
    BY <1>0, <2>2, SessionsStayNamed, EndNamed DEF Goto, NamedState
  <2> QED BY <2>1, <2>3 DEF AllNamed, ReadConfig
<1>8. CASE RenderChart(t)
  <2>1. UNCHANGED <<settings, planFile, releases>>
    BY <1>8 DEF RenderChart
  <2>2. CASE End(t)
    BY <1>0, <2>1, <2>2, EndNamed DEF AllNamed, ReadConfig
  <2>3. CASE ~End(t)
    <3>1. PICK errors, up :
              session' = [session EXCEPT ![t] =
                            [at |-> "staged", made |-> [errors |-> errors, source |-> session[t].source],
                             up |-> up, identity |-> session[t].identity]]
      BY <1>8, <2>3 DEF RenderChart, Goto
    <3>2. Named(session[t].identity, session[t].source)
      BY <1>0, <1>8 DEF RenderChart, Renders, At2, NamedState
    <3>3. NamedSessions(session')
      BY <1>0, <3>1, <3>2, SessionsStayNamed DEF NamedState
    <3> QED BY <2>1, <3>3 DEF AllNamed, ReadConfig
  <2> QED BY <2>2, <2>3
<1>9. ASSUME NEW place \in {"aside", "chart"}, Carry(t, place), At2(t, "staged") \/ At2(t, "aside")
      PROVE  NamedSessions(session')
  <2>1. Named(session[t].identity, session[t].made.source)
    BY <1>0, <1>9 DEF At2, NamedState
  <2> QED BY <1>0, <1>9, <2>1, SessionsStayNamed DEF Carry, Goto, NamedState
<1>10. CASE \/ MoveAside(t) \/ MoveIn(t) \/ RestoreChart(t) \/ LoseChart(t)
            \/ Kill(t) \/ Deploy(t)
  <2>1. UNCHANGED <<settings, planFile, releases>>
    BY <1>10 DEF MoveAside, MoveIn, RestoreChart, LoseChart, Kill, Deploy
  <2>2. NamedSessions(session')
    BY <1>0, <1>9, <1>10, EndNamed DEF MoveAside, MoveIn, RestoreChart, LoseChart, Kill, Deploy
  <2> QED BY <2>1, <2>2 DEF AllNamed, ReadConfig
<1>11. CASE InstallRelease(t)
  <2>1. UNCHANGED <<settings, planFile>> /\ NamedSessions(session')
    BY <1>0, <1>11, EndNamed DEF InstallRelease
  <2>2. Named(session[t].identity, session[t].made.source)
    BY <1>0, <1>11 DEF InstallRelease, At2, NamedState
  <2>3. \A r \in releases' :
           \/ r \in releases
           \/ /\ r.identity = session[t].identity /\ r.overlay = session[t].made.source.overlay
              /\ r.text = session[t].made.source.text
    BY <1>11 DEF InstallRelease
  <2> QED BY <2>1, <2>2, <2>3 DEF AllNamed, Named, ReadConfig
<1>12. CASE Down(t)
  <2>1. UNCHANGED <<settings, planFile>> /\ releases' \subseteq releases /\ NamedSessions(session')
    BY <1>0, <1>12, EndNamed DEF Down
  <2> QED BY <2>1 DEF AllNamed, ReadConfig
<1> QED BY <1>1, <1>2, <1>3, <1>4, <1>5, <1>6, <1>7, <1>8, <1>10, <1>11, <1>12 DEF Step

LEMMA NamedAlways == CommandSpec => [](Inductive /\ AllNamed)
<1>1. ASSUME AllNamed, EditFiles \/ UNCHANGED allVars PROVE AllNamed'
  <2>1. UNCHANGED commandVars
    BY <1>1 DEF EditFiles, allVars
  <2> QED BY <1>1, <2>1 DEF commandVars, AllNamed, ReadConfig
<1>2. Inductive /\ AllNamed /\ [CommandNext]_allVars => AllNamed'
  BY <1>1, StepNamed DEF CommandNext
<1> QED BY InitNamed, InductiveAlways, <1>2, PTL DEF CommandSpec

(* What `down` goes for is the document that `up` would plan, if there is  *)
(* one.                                                                    *)
LEMMA BestEffortIsResolved ==
    ASSUME NEW overlay \in OverlayFiles, Resolve(disk, Profile, overlay).ok
    PROVE  BestEffort(overlay) = Resolve(disk, Profile, overlay).doc
<1> DEFINE base == ComposeExtends(disk, Profile)
<1>1. /\ Resolve(disk, Profile, overlay) = ApplyEnvironment(disk, Profile, base, overlay)
      /\ BestEffort(overlay) = OverlaidIfPossible(base, overlay)
  BY DEF Resolve, BestEffort
<1> HIDE DEF base
<1>2. base.ok /\ (overlay # Absent =>
          /\ overlay # Outside
          /\ IsDocument(disk[overlay])
          /\ ApplyEnvironment(disk, Profile, base, overlay) =
                MergeDocuments(base.doc, disk[overlay], Profile, overlay, base.prov))
  BY <1>1, ResultsAreFit DEF ApplyEnvironment, IsDocument
<1> QED BY <1>1, <1>2 DEF OverlaidIfPossible, ApplyEnvironment

(***************************************************************************)
(* `cds down` finds what `cds up` has installed, whatever else has been    *)
(* edited in between, as long as the files say the same of the release and *)
(* of each other and can be put together.                                  *)
(***************************************************************************)
THEOREM ReleasesAreFound ==
    ASSUME NotAList
    PROVE  CommandSpec => []DownFindsRelease
<1>1. ASSUME Inductive, AllNamed, NEW r \in releases, r.text = IdentityText, Composable(Profile, r.overlay)
      PROVE  ReleaseOf(r.overlay) = r.identity
  <2>1. r.overlay \in OverlayFiles /\ TypeOK /\ \A f \in Files : IsContent(disk[f])
    BY <1>1 DEF AllNamed, NamedBy, Inductive, TypeOK
  <2>2. PICK files : /\ \A f \in Files : IsContent(files[f])
                     /\ TextOf(files) = r.text
                     /\ Resolve(files, Profile, r.overlay).ok
                     /\ r.identity = HelmIdentity(Resolve(files, Profile, r.overlay).doc)
    BY <1>1 DEF AllNamed, NamedBy
  <2>3. Profile \in Files /\ r.overlay \in Files \cup {Absent, Outside}
    BY <2>1, Contents DEF OverlayFiles
  <2>4. r.overlay \in Files \cup {Absent} /\ r.overlay # Profile
    <3>1. ASSUME r.overlay = Outside, Outside # Absent PROVE FALSE
      BY <2>2, <3>1, ResultsAreFit DEF Resolve, ApplyEnvironment
    <3> QED BY <2>1, <2>3, <3>1, ProfileFiles DEF OverlayFiles
  <2>5. Resolve(disk, Profile, r.overlay).ok
    BY <1>1, <2>1, <2>3, <2>4, ResolvedIfExtendable
  <2>6. TextOf(disk) = TextOf(files)
    BY <1>1, <2>2 DEF IdentityText, TextOf
  <2>7. AlikeDocuments(Resolve(disk, Profile, r.overlay).doc, Resolve(files, Profile, r.overlay).doc)
    BY <2>1, <2>2, <2>3, <2>5, <2>6, ResolvedAlike DEF AlikeResults
  <2>8. \A a, b : AlikeDocuments(a, b) => HelmIdentity(a) = HelmIdentity(b)
    BY DEF AlikeDocuments, Alike, Naming, HelmIdentity, At
  <2>9. ReleaseOf(r.overlay) = HelmIdentity(Resolve(disk, Profile, r.overlay).doc)
    BY <2>1, <2>5, BestEffortIsResolved DEF ReleaseOf
  <2> QED BY <2>2, <2>7, <2>8, <2>9
<1>2. Inductive /\ AllNamed => DownFindsRelease
  BY <1>1 DEF DownFindsRelease
<1> QED BY <1>2, NamedAlways, PTL
=============================================================================

-------------------------- MODULE MCProjectCommands --------------------------
(***************************************************************************)
(* Two terminals in the project of MCProfileProject, whose overlay names   *)
(* the release and the namespace.                                          *)
(***************************************************************************)
EXTENDS MCProfileProject, ProjectCommands

MCNamedDisk ==
    [MCInitialDisk EXCEPT
       !["production"].sections = Put(Put(@, "metadata", Put(@["metadata"], "name", "shop")),
                                      "runtime", "namespace" :> "live")]

\* What invalidates the profile, what keeps a chart from being rendered, and
\* what renames the release.
MCNamingFieldEdits ==
    {<<"production", "superset", "webServer.mode", Text("development")>>,
     <<"right", "dbt", "enabled", TRUE>>}
MCNamingSectionEdits == {<<"base", "metadata", "name", "desk">>}
MCNamingContentEdits == {<<"right", [RightFile EXCEPT !.modules = <<Entry("x", Nothing), Entry("x", Nothing)>>]>>}

Command(name, target, environment, force) ==
    [name |-> name, target |-> target, environment |-> environment, force |-> force]

MCAsks ==
    {Command("plan", Saved, Saved, FALSE), Command("render", Saved, Saved, FALSE),
     Command("up", Saved, Saved, FALSE), Command("up", "helm", "production", FALSE),
     Command("render", "helm", "production", TRUE),
     Command("down", Saved, Saved, FALSE)}

MCSettingCommands ==
    {[key |-> "environment", value |-> "production"], [key |-> "target", value |-> Absent]}

MCInitialSettings == "target" :> "helm"

Symmetry == Permutations(Terminals)

=============================================================================

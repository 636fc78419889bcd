CHECK_DEADLOCK FALSE
CONSTANTS
    Outside = Outside
    NoExtends = NoExtends
    BadExtends = BadExtends
    BadModules = BadModules
    NoId = NoId
    Absent = Absent
    Unreadable = Unreadable
    NoKey = NoKey
    NoGate = NoGate
    NoPath = NoPath
    NoService = NoService
    AllPorts = AllPorts
    Profile = "profile"
    Overlay = "production"
    Copy = "composed"
    Files <- MCFiles
    Parts <- MCParts
    ConfigPaths <- MCConfigPaths
    CredentialPaths <- MCCredentialPaths
    Unsupported <- MCUnsupported
    Catalog <- MCCatalog
    Requests = {}
    OptionSets <- MCOptionSets
    MaxEdits = 1
    InitialDisk <- MCNamedDisk
    FieldEdits <- MCNamingFieldEdits
    SectionEdits <- MCNamingSectionEdits
    ExtendsEdits = {}
    ContentEdits <- MCNamingContentEdits
    Saved = Saved
    Foreign = Foreign
    ProfileDir = "project"
    Terminals = {t1, t2}
    Asks <- MCAsks
    SettingCommands <- MCSettingCommands
    InitialSettings <- MCInitialSettings
    InitialChart = {Foreign}
    MaxCommands = 3
    MaxFaults = 1
SPECIFICATION CommandSpec
SYMMETRY Symmetry
INVARIANT DownFindsRelease OutputsAreSound
PROPERTY ChartKept

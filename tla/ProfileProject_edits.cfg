SPECIFICATION Spec
CHECK_DEADLOCK FALSE
CONSTANTS
    Outside = Outside
    NoExtends = NoExtends
    BadExtends = BadExtends
    BadModules = BadModules
    NoId = NoId
    Absent = Absent
    Unreadable = Unreadable
    NoKey = NoKey
    NoGate = NoGate
    NoPath = NoPath
    NoService = NoService
    AllPorts = AllPorts
    Profile = "profile"
    Overlay = "production"
    Copy = "composed"
    MaxEdits = 2
    Files <- MCFiles
    Parts <- MCParts
    ConfigPaths <- MCConfigPaths
    CredentialPaths <- MCCredentialPaths
    Unsupported <- MCUnsupported
    Catalog <- MCCatalog
    InitialDisk <- MCInitialDisk
    FieldEdits <- MCFieldEdits
    SectionEdits <- MCSectionEdits
    ExtendsEdits <- MCExtendsEdits
    ContentEdits <- MCContentEdits
    Requests <- MCRequests
    OptionSets <- MCOptionSets
INVARIANT ResolvedAsWritten DependencyVerdict ValidIsPlannable PlannedBindingsHold TagsFitVariants ComposedStaysSound StackHoldsTogether PoliciesFollowBindings

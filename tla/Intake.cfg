\* Two sources and a listed child, one of them served badly, an edit of config.yaml
\* and a kill; three refreshes, choices and core starts; two configuration commands
\* at a time, four proxy file commands, two profile commands at a time over a server
\* that publishes once, two terminals over a log of two entries, three resets.
SPECIFICATION IntakeSpec
CONSTANTS
    Sources = {1, 2}
    Children = {3}
    KindsOf <- MCKindsOf
    MaxPublished = 1
    Cadences <- MCCadences
    NoCadence = NoCadence
    MaxAge = 1
    MaxSnapshot = 2
    MaxCrashes = 1
    MaxEdits = 1
    Nodes = {n1, n2}
    Names = {"a", "b"}
    Feeds = {f1, f2}
    EventCap = 1
    MaxCalls = 3
    Editors = {p1, p2}
    EditCommands <- MCEditCommands
    MaxCommands = 2
    StartConfig <- MCStartConfig
    LegacyUrl = "no url"
    RuleSets = {"r1"}
    Uris = {"a", "b", "bad"}
    ProxyUris = {"a", "b"}
    ProxyGroups = {"none", "g"}
    ImportFiles <- MCImportFiles
    MaxJobs = 4
    Commands = {c1, c2}
    Versions = {"v1", "v2"}
    OwnBodies = {"own"}
    Length <- MCLength
    Tagged = {"v1"}
    Interval = 1
    MaxNow = 1
    MaxPublishes = 1
    MaxStarts = 2
    Terminals = {t1, t2}
    MaxEntries = 2
    MaxRecords = 4
    Fragments = {"tun", "dns"}
    MaxResets = 3
INVARIANTS
    SubInv
    SelInv
    FilesInv
PROPERTIES
    PickSurvivesRestart
    FilesKept
CHECK_DEADLOCK FALSE

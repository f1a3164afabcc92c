SPECIFICATION Spec
CONSTANTS
    Host = "macos-arm64"
    BadSegments = {"if", "Upper"}
    Home <- MCHome
    Worlds <- MCWorlds
    Edits <- MCEdits
    Commands <- MCCommands
    MaxCommands = 2
    RuntimeMembers <- MCMembers
    RuntimeLicence = "runtime licence"
    PipeSize = 1
    Sysroots <- MCSysroots
    LldInArchive = TRUE
    CrtFound = TRUE
    BadSpecs = {"bad"}
INVARIANTS ExitZeroMeansBuilt ErrorsTouchNothing LibrariesResolved NoticeComplete CommandsFit
PROPERTY CommandEnds
CHECK_DEADLOCK FALSE

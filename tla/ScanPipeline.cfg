\* Trees, schemas, policy folders and pairs of snapshots, each limit small enough to be met.
SPECIFICATION Spec
CONSTANTS
    None = None
    Null = Null
    Bad = Bad
    Absent = Absent
    Gone = Gone
    JsonNull = JsonNull
    Misshapen = Misshapen
    Unhashable = Unhashable
    Tool <- Tools
    Identity = {"read", "fetch", "vault", "mail"}
    IdentityOf <- Fold
    NonAscii <- NoNames
    NameSays <- Says
    CapId = {"shell.execute", "filesystem.write", "filesystem.read", "network.external", "secrets.access", "email.send", "github.write"}
    Value <- Values
    Literal <- Literals
    SchemaNode <- Nodes
    Schema <- Schemas
    Source = {"p", "q", "r", "s"}
    Object = {"list", "a", "b", "c"}
    MaxEntries = 3
    MaxDocuments = 2
    MaxFileBytes = 2
    MaxTotalBytes = 3
    MaxDepth = 2
    MaxNodes = 3
    PolicyFile = {"main", "left", "right", "base"}
    RootPolicy = "main"
    CapSpelling <- Spelled
    CapOf <- Unspelled
    Today = 1
    MaxPolicyFiles = 4
    MaxPolicyFileBytes = 3
    MaxPolicyTotalBytes = 5
    MaxInheritance = 3
    MaxSnapshotSize = 3
    Scans <- Situations
    Target <- Places
    Fresh = "c"
INVARIANTS
    TypeOK FindsWhatIsThere StopsForCause ParsesWithinBudget LoadsTheInheritance
    SpellingFailsClosed PolicyReadsWithinBudget BoundIsSound SealHolds ContradictionIsRefused
    ExpansionMeansGrowth WorsePathIsEscalated CrashesOnlyWhereUnchecked
PROPERTIES ScanEnds
CHECK_DEADLOCK FALSE

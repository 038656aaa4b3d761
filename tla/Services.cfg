SPECIFICATION ServicesSpec
CONSTANTS
    Requests = {t1, t2}
    UploadTypes = {"Manual"}
    Names = {name}
    name = name
    Docs = {d1, d2}
    Profiles = {p1, p2}
    NameOf <- OneName
    LinkedTags = {tag}
    Stamps = {s1, s2}
    None = None
    Failures = {"move", "profile", "index", "crash"}
    MaxResources = 2
    MaxVersions = 2
    MaxTokens = 1
    MaxDiskFaults = 1
    Writers = {t1, t2}
    Images = {i1}
    Texts = {x1}
    FileNames = {f1, f2, f3, f4}
    NoFile = NoFile
    MaxSaves = 3
    MaxStops = 2
    Healers = {t1, t2}
    Creators = {c1}
    Nobody = Nobody
    Projects <- ThreeProjects
    Browsed = {4}
    MaxMishaps = 1
    MaxHeals = 2
    Networks = {upper, lower}
    upper = upper
    lower = lower
    Addresses = {ip}
    Scanners = {t1, t2}
    Unassigned = Unassigned
    Configs <- TwoConfigs
    Pings <- AnyPing
    MaxRuns = 2
    MaxEvents = 1
    lineA = lineA
    lineB = lineB
    tagA = tagA
    tagB = tagB
    Tags = {tagA, tagB}
    Lines = {lineA, lineB}
    NoLine = NoLine
    Registries <- FourRegistries
    ChannelsOf <- OneChannelEach
    Values = {v1, v2, Unwritable}
    Unwritable = Unwritable
    NoValue = NoValue
    MaxValueChanges = 2
    MaxFailedWrites = 2
INVARIANTS
    IndexedFilesExist
    UploadsAreDistinct
    RevisionFollowsProfile
    ActiveIsWhole
    CreatedIsShown
    BootstrapCompletes
    HistoryProtects
    ProgressAddsUp
    PointsAreOfTheLine
    LatestValuesAreStored
PROPERTIES
    HistoryIsKept
    VersionsAdvance
    OwnershipIsRespected
SYMMETRY Interchangeable
CHECK_DEADLOCK FALSE

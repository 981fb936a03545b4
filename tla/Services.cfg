SPECIFICATION ServicesSpec
CONSTANTS
    Max16 = 2
    Max32 = 4
    JumpThreshold = 2
    Bursts = {1, 3}
    FirstTags = {0, 4}
    Typed = {2}
    MaxMade = 3
    MaxReports = 1
    CountFaults = {"plc_restart", "crash", "advance_fails", "enqueue_fails", "repeat", "lose", "log_fails"}
    MaxCountFaults = 1
    JobStyles = {A, B}
    NoStyle = NoStyle
    Clerks = {c1, c2}
    MaxRestarts = 1
    MaxLogErrors = 1
    Tags = {"t1", "t2"}
    Styles = {"s1"}
    Admins = {a1, a2}
    MaxPoints = 2
    MaxRequests = 3
    SetupFaults = {"call_fails", "others_publish", "others_unpublish", "lag", "crash", "overlap"}
    MaxSetupFaults = 1
    Nodes = {n1, n2}
    Payloads = {p1, p2}
    NoNode = NoNode
    NoPayload = NoPayload
    MaxForms = 1
    MaxMoves = 2
    MaxAway = 1
    Locations = {l1, l2}
    Areas = {r1, r2}
    NoArea = NoArea
    NoName = NoName
    FormZones = {NoArea}
    Syncers = {y1, y2}
    MaxIds = 2
    MaxSceneForms = 1
    MaxScenes = 1
    MaxSyncRuns = 2
    Clients = {d1, d2}
    MaxItems = 2
    Quantities = {1, 2}
    MaxCorrections = 3
    MaxPlain = 1
    MaxLogFaults = 1
    Loggers = {g1, g2}
    Subsystems = {"rds", "kafka"}
    FileFilters = {NoFile, {}, {"rds"}}
    NoFile = NoFile
    NoEntry = NoEntry
    RingSize = 2
    MaxLogged = 5
INVARIANT ServicesTypeOK
INVARIANT NoPartLost
INVARIANT NoPartInvented
INVARIANT TalliesAgree
INVARIANT ProducedIsLogged
INVARIANT LogIsMemory
PROPERTY LogTellsChangeovers
INVARIANT PointHasItsTag
INVARIANT NoTagLeft
INVARIANT CopyFollowsMoves
PROPERTY SyncedNodes
INVARIANT LogTellsManifest
INVARIANT RingKeepsLast
CHECK_DEADLOCK FALSE

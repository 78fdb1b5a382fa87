SPECIFICATION MCSpec
CONSTANTS
    Caller = {c1, c2}
    Capability <- MCCapability
    Request <- MCRequest
    Principal = {"worker"}
    Tick = {0, 1, 2}
    Result = {"x", "y"}
    None = None
    MaxEntries = 3
    s1 = s1
    s2 = s2
    s3 = s3
    client = client
    other = other
    Servers = {s1, s2, s3}
    Clients = {client, other}
    KernelSid = "kernel"
    WorkerSid = "worker"
    ProcessSid <- MCProcessSid
    ClientSid <- MCClientSid
    Nobody = Nobody
    Qualifier = {q1, q2}
    Version = {"v1", "v2"}
    Main = {"m1", "m2"}
    InputOf <- OwnInput
    RunCounts = {1, 2}
    MaxWorkers = 2
    MaxTreeEdits = 2
    MaxMainEdits = 1
    MaxKills = 1
    Absent = Absent
    Torn = Torn
SYMMETRY Symmetry
INVARIANTS
    FreshMeansNew
    DuplicateRepeats
    RetryIsAnswered
    EverythingReleased
    ProcessorServesTheWorker
    MisreportTakesEdits
PROPERTIES
    SettledFilesAreFinal
    RefusalTakesEdits

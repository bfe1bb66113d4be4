SPECIFICATION RuntimeSpec
CONSTANTS
    j1 = j1
    j2 = j2
    e = e
    r = r
    NoWorker = NoWorker
    None = None
    Jobs <- BothJobs
    Workers <- BothWorkers
    Embedded <- JustEmbedded
    Deployments <- MCCrash
    JobSpec <- MCJobSpec
    WorkerSpec <- MCWorkerSpec
    Policy <- MCPolicy
    LeaseDuration = 2
    WorkerTimeout = 0
    RetryDelays = {0}
    ScanLimit = 2
INVARIANTS
    CapacityAlways

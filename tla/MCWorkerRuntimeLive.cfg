SPECIFICATION FairRuntimeSpec
CONSTANTS
    j1 = j1
    j2 = j2
    e = e
    r = r
    NoWorker = NoWorker
    None = None
    Jobs <- SecondJob
    Workers <- BothWorkers
    Embedded <- JustEmbedded
    Deployments <- MCProgress
    JobSpec <- MCJobSpec
    WorkerSpec <- MCWorkerSpec
    Policy <- MCPolicy
    LeaseDuration = 1
    WorkerTimeout = 0
    RetryDelays = {0}
    ScanLimit = 2
PROPERTIES
    OrphanLeaseEnds
    EveryJobEnds

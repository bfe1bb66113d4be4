SPECIFICATION Spec
CONSTANTS
    j1 = j1
    j2 = j2
    j3 = j3
    w1 = w1
    w2 = w2
    NoWorker = NoWorker
    None = None
    Jobs <- ThreeJobs
    Workers <- OneWorker
    JobSpec <- MCJobSpec
    WorkerSpec <- MCWorkerSpec
    Policy <- MCPolicy
    LeaseDuration = 1
    WorkerTimeout = 0
    RetryDelays = {0, 1}
    ScanLimit = 2
INVARIANTS
    PolicyRespected
    CancelWins
    AttemptsBounded
PROPERTIES
    ImplementsLifecycle

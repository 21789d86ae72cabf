SPECIFICATION MCSpec
CONSTANTS
    ann = ann
    bob = bob
    Users <- MCUsers
    Tasks <- MCTasks
    NoCred = NoCred
    MaxWrites = 3
    Limit = 2
    MaxTrouble = 2
INVARIANTS
    OwnStream
    AnswersMatchPipeline
    PipelineIsQueuePrefix
    CallbackOfItsBatch
    AckedIsStored
    WaiterToldAfter
    IdleHasNothingToSend
    CredIsUser
    TaskRunsAsIssued
    ResumeFindsStarting
PROPERTIES
    DropsOnlySent
    RefinesStreamLife
    RefinesWriteQueue
    QueueDrains
CHECK_DEADLOCK FALSE

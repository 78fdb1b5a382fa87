SPECIFICATION MCSpec
CONSTANTS
    Worker = {w1, w2}
    NoWorker = NoWorker
    Genesis <- MCGenesis
    TxHash <- MCTxHash
    MaxFaults = 2
    NoHead = NoHead
    NoHash = NoHash
    NoCall = NoCall
    NoAnswer = NoAnswer
    NoRead = NoRead
INVARIANTS
    JournalConsistent
    BooksFollowLifecycle
    OrderedPostsSucceed
    OnlyHeadLags
PROPERTY
    LifecycleCompletes
CHECK_DEADLOCK FALSE

SPECIFICATION MCSpec
CONSTANTS
    Worker = {w1, w2}
    Reader = {r1}
    NoWorker = NoWorker
    NoAnswer = NoAnswer
    NoCall = NoCall
    NoHead = NoHead
    NoHash = NoHash
    Proposal <- MCProposal
    Key <- MCKey
    Hash <- MCHashes
    Genesis <- MCGenesis
    EventHash <- MCHash
    MaxEvents = 3
INVARIANT
    ErrorsMeanCorrupt

SPECIFICATION MCSpec
CONSTANTS
    NoRole = NoRole
    NotGiven = NotGiven
    NotAsked = NotAsked
    Ledgers <- MCLedgers
    Registries <- MCRegistries
    Works <- MCWorks
    Roles <- MCRoles
    Requests <- MCRequests
    Launches = 2
    MinLaunches = 2
    MaxEdits = 3
INVARIANTS
    DecisionWasCurrent
    PassIsBound
    RoutesAreEarned
PROPERTY
    CallsAnswered

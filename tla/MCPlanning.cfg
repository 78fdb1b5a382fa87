SPECIFICATION MCSpec
CHECK_DEADLOCK FALSE
CONSTANTS
    Resource = {"responsible_counsel", "billing_operations"}
    Capacity <- MCCapacity
    Proposal <- MCProposal
    Attempt <- MCAttempt
    RoleResource <- MCRoleResource
    VerbClass <- MCVerbClass
    ServiceTicks <- MCServiceTicks
    Count = 4
    MaxWait = 3
    MaxFinish = 5
    PopulationSizes = {1, 2, 3, 4, 5, 6, 7, 10}
    MaxEdits = 2
    NodeCount = 3
    Depth = 2
INVARIANTS
    NoOvertaking
    NoIdleWait
    Equivalent
    PassMeansFeasible
    PopulationIsProportional
    VerdictsAreRight

SPECIFICATION MCSpec
CONSTANTS
    Amount = {0, 1, 2}
    MaxWork = 3
    MaxPaid = 5
    Artifact = {"E-MGREMAIL-004", "E-HREMAIL-005", "E-PAYROLL-006", "E-NOISE-008"}
    Producible = {"E-MGREMAIL-004", "E-HREMAIL-005", "E-PAYROLL-006"}
    ExpertAuthorized = {"E-MGREMAIL-004", "E-HREMAIL-005", "E-PAYROLL-006"}
    FiledDay = {0, 7}
    Resolution = "settle_case"
    NoDay = NoDay
    Arm <- MCArm
    MaxTapeEdits = 2
    FactClaims <- MCFactClaims
    Declared <- MCDeclared
    AuthorOf <- MCAuthorOf
CONSTRAINT
    BoundedMatter
INVARIANTS
    WorkInOrder
    OnlyProducibleLeaves
    AuditMeansVerified
    LedgerSound
    AuditMeansFaithful
    FaithfulTapePasses
PROPERTY
    ForgottenPaymentBlocks

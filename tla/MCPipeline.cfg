SPECIFICATION AuditSpec
CHECK_DEADLOCK FALSE
CONSTANTS
    Authors <- MCAuthors
    NeedsRecipients = {"email", "expert"}
    Nothing = Nothing
    Required = {"email", "expert"}
    WriterOf <- MCWriterOf
    Planner = "architect"
    Renderer = "renderer"
    Checkers = {"continuity", "voice"}
    Facts <- MCFacts
    Specs <- MCSpecs
    Scopes = {"A", "B"}
    MaxArtifacts = 4
    MaxPerMatter = 3
    MaxRework = 2
    Sections <- MCSections
    AssertionSection <- MCAssertionSection
INVARIANTS
    QualifiedHoldsUp
    AuditedIsCurrent
    RebuildQualifies

SPECIFICATION Spec
CONSTANTS
    Amount = {0, 1, 2}
    MaxWork = 3
    MaxPaid = 5
    Artifact = {"E-HREMAIL-005", "E-NOISE-008"}
    Producible = {"E-HREMAIL-005"}
    ExpertAuthorized = {"E-HREMAIL-005"}
    FiledDay = {}
    Resolution = "settle_case"
    NoDay = NoDay
PROPERTY
    CloseOnReconciledBooks

SPECIFICATION Spec
CONSTANTS
    Amount = {0}
    MaxWork = 0
    MaxPaid = 0
    Artifact = {"E-HREMAIL-005", "E-NOISE-008"}
    Producible = {"E-HREMAIL-005"}
    ExpertAuthorized = {"E-HREMAIL-005"}
    FiledDay = {0, 7}
    Resolution = "settle_case"
    NoDay = NoDay
INVARIANT
    ProducedHaveCustody

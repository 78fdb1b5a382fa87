SPECIFICATION MCSpec
SYMMETRY Scripts
CONSTANTS
    Qualifier = {q1, q2}
    Version = {"v1", "v2"}
    Main = {"m1", "m2"}
    InputOf <- SameInput
    RunCounts = {1, 2}
    MaxWorkers = 2
    MaxTreeEdits = 0
    MaxMainEdits = 1
    MaxKills = 0
    Absent = Absent
    Torn = Torn
INVARIANT
    CodeChangeIsAMiss

SPECIFICATION DriverSpec
CONSTANTS
    Items <- MCItems
    VDeg <- MCVDeg
    HasTruth = {1, 3}
    SeedFiles <- MCSeedFiles
    Algorithms = {"Exact", "ASC", "KASC", "Truth", "Truncated"}
    CommandLines <- MCCommandLines
    DefaultCount = 2
    MaxRuns = 2
INVARIANTS DriverTypeOK StructuresBuilt QueriesCounted HeadersFit

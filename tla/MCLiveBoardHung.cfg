SPECIFICATION BoardSpec
CONSTANTS
    MaxVersion = 2
    MaxFaults = 1
INVARIANTS LiveMeansFresh

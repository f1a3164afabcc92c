SPECIFICATION Spec
CONSTANTS
    Bits <- MCBits
    Fuel = 300
    Programs <- MCPrograms
    Runs <- MCRuns
    MaxRounds = 12
    LowerModule <- lower_module
    MeaningOf <- Meaning
INVARIANTS
    SameBehaviour
    Verified
    PassesEnd
CHECK_DEADLOCK FALSE

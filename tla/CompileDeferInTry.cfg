SPECIFICATION Spec
CONSTANTS
    Bits <- MCBits
    Fuel = 300
    Programs <- DeferInTry
    Runs <- MCRuns
    MaxRounds = 12
    LowerModule <- lower_module
    MeaningOf <- Meaning
INVARIANT
    SameBehaviour
CHECK_DEADLOCK FALSE

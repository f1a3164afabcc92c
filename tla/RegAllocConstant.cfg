SPECIFICATION AllocSpec
CONSTANTS
    VRegs <- mc_VRegs
    Pregs <- mc_Pregs
    VCount <- mc_VCount
    floats <- mc_floats
    allocatable <- mc_allocatable
    scratch <- mc_scratch
    beyond <- mc_beyond
    callee_saved <- mc_callee_saved
    Programs <- mc_ConstantZero
    fp_save_size = 16
    frame_limit = 64
INVARIANTS
    ReadsMatch
CHECK_DEADLOCK FALSE

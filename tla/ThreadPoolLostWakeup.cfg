SPECIFICATION FairSpec
CONSTANTS
    Main = Main
    Jobs = {j1, j2}
    Calls = {}
    Workers = {w1, w2}
    Objects = {o1, o2}
    MaxCount = 0
    ByValues = {}
    Callers <- NestedCallers
    None = None
    Absent = Absent
    Loop = Loop
PROPERTIES JoinReturns
CHECK_DEADLOCK FALSE

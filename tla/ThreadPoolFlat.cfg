SPECIFICATION FairSpec
CONSTANTS
    Main = Main
    Jobs = {j1, j2}
    Calls = {c1}
    Workers = {w1, w2}
    Objects = {o1, o2}
    MaxCount = 3
    ByValues = {0}
    Callers <- FlatCallers
    None = None
    Absent = Absent
    Loop = Loop
PROPERTIES JoinReturns ParallelReturns JobsFinish
CHECK_DEADLOCK FALSE

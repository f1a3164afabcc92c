SPECIFICATION Spec
CONSTANTS
    Main = Main
    Jobs = {j1, j2, j3}
    Calls = {}
    Workers = {w1, w2}
    Objects = {o1, o2}
    MaxCount = 0
    ByValues = {}
    Callers <- NestedCallers
    None = None
    Absent = Absent
    Loop = Loop
INVARIANTS OneWorkerPerObject NoUseAfterFree JoinAnswers QueueEndsAtLast QueuedIsWaiting
PROPERTIES ImplementsBoard
CHECK_DEADLOCK FALSE

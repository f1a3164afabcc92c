SPECIFICATION Spec
CONSTANTS
    Main = Main
    Jobs = {j1}
    Calls = {c1, c2}
    Workers = {w1, w2}
    Objects = {o1}
    MaxCount = 3
    ByValues = {2}
    Callers <- NestedCallers
    None = None
    Absent = Absent
    Loop = Loop
INVARIANTS TypeOK CallOutlivesChunks EveryChunkOnce ChunksPartition
PROPERTIES ImplementsBoard
CHECK_DEADLOCK FALSE

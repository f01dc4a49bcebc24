SPECIFICATION ServerSpec
CONSTANTS
    MaxTurns = 5
    Tool = {t1, t2}
    Depth = 2
    Request = {r1, r2}
    FallbackTtl = 2
    LastTime = 3
    MaxChunks = 2
    MaxErrorBody = 1
    MaxItems = 3
    MaxDeltas = 2
    MaxParts = 2
    PartLength = 2
    MaxCommit = 1
    MaxVersion = 1
    MaxRestarts = 1
    AutoUpdate = TRUE
    MaxRelease = 2
    MaxOpen = 2
    LastProcess = 3
INVARIANTS ConversationKept TuplesKept ResponsesArrive AnswersKept UpdatesInOrder OneSuccessor
PROPERTIES Http2Retried
SYMMETRY Symmetry
CONSTRAINTS OneKindOfUpdate TwoAtWork OneMixedTurn OneLongItem WhileClientThere
CHECK_DEADLOCK FALSE

SPECIFICATION Spec
CONSTANTS
    N = 4
    Floor = 250000000
    MIN_GRAPH_RESULTS = 2
    Wanted = {2, 3}
    Graphs <- SmallGraphs
    Changes <- UpToTwo
    Actives = {1, 4}
    Existing <- AllOrAllButOne
    Scanned <- NoneOrAll
    Matches <- UpToOne
    Bm25Answers <- ShortAnswers
    Multipliers <- SomeMultipliers
INVARIANTS TypeOK HandedOver ScoresMeanPaths EdgesDominate ActiveRanked
CHECK_DEADLOCK FALSE

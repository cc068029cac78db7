SPECIFICATION Spec

CONSTANTS
    Entities = {"a", "b", "c", "d", "x"}
    Known = {"a", "b", "c", "d"}
    Searchable = {"a", "b"}
    None = None
    Chunks = {"k1", "k2", "k3", "k4"}
    Bare = {"k2", "k4"}
    Graphs <- RetrievalGraphs
    Linkings <- RetrievalLinkings
    Requests <- RetrievalRequests
    Sections <- RetrievalSections
    AnchorChars <- RetrievalAnchorChars
    ChunkChars <- RetrievalChunkChars
    Score <- RetrievalScore
    Near <- RetrievalNear
    EdgeChars = 7
    MaxHops = 2
    MaxPerHop = 2
    MaxTotal = 2
    SeedCount = 2
    AnchorBudget = 2
    SubgraphBudget = 2
    WikiBudget = 3
    Instruction = 2

INVARIANTS
    TypeOK
    WalkIsExact
    WithinBudget
    NoChunkRepeated
    MissingChunkExplained

\* The request ends.
CHECK_DEADLOCK FALSE

CONSTANTS
    QueryBufferSize = 221
    IdBufferSize = 112
    ContentBufferSize = 64
    CsvBufferSize = 64
    AgentWidth = 29
    Requests <- SmallCalls
SPECIFICATION Spec
INVARIANTS TypeOK RequestIsWhole NullMeansError NullMeansTooLarge

CONSTANTS
    QueryBufferSize = 256
    IdBufferSize = 64
    ContentBufferSize = 64
    CsvBufferSize = 128
    AgentWidth = 29
    Requests <- ShortestRange
SPECIFICATION Spec
INVARIANT RangeCanBeDeleted

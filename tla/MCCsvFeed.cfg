CONSTANTS
    MaxStreams = 3
    NameSize = 3
    ValueSize = 4
    Letters = {"a", "b", "v"}
    Contents <- ThreeLines
SPECIFICATION Spec
INVARIANTS TypeOK DecodesFeeds GoodRowsSurvive OneRowPerLine NoHalfRows

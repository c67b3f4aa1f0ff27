SPECIFICATION ReaderSpec
CONSTANTS
    Byte <- MCByte
    Newline <- MCNewline
    Carriage <- MCCarriage
    Whitespace <- MCWhitespace
    MaxLineBytes = 3
    Capacity = 3
    MaxText = 5
INVARIANTS
    Gathered
PROPERTIES
    HandsOutLines
    CallsReturn
CHECK_DEADLOCK FALSE

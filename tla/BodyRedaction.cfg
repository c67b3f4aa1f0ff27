SPECIFICATION Spec
CONSTANTS
    Byte <- MCByte
    Newline <- MCNewline
    Carriage <- MCCarriage
    Whitespace <- MCWhitespace
    MaxU64 = 3
    Utf8 <- MCUtf8
    Json <- MCJson
    OfValue <- MCOfValue
    OfText <- MCOfText
    ReportOfValue <- MCReportOfValue
    ReportOfText <- MCReportOfText
    Denied <- MCDenied
    Bodies <- MCBodies
    ContentTypes <- MCContentTypes
INVARIANTS
    TypeOK
    DeniedFieldsHidden
    ReportCoversBody
    KeylessForwardsBlanks
PROPERTIES
    RedactsLines
CHECK_DEADLOCK FALSE

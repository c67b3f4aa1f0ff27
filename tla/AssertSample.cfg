SPECIFICATION CliSpec
CONSTANTS
    Byte <- MCByte
    Newline <- MCNewline
    Carriage <- MCCarriage
    Whitespace <- MCWhitespace
    Utf8 <- MCUtf8
    Json <- MCJson
    OfValue <- MCOfValue
    OfText <- MCOfText
    FoundInValue <- MCFoundInValue
    FoundInText <- MCFoundInText
    Texts <- MCTexts
    Limits <- MCLimits
    MaxLineBytes = 4
    Capacity = 3
    MaxText = 8
    MaxU64 = 2
INVARIANTS
    AssertFailsOnDetections
CHECK_DEADLOCK FALSE

SPECIFICATION WireSpec
CONSTANTS
    Bits <- MCBits
    Precision <- MCPrecision
    MaxScale <- MCMaxScale
    NoSchema = NoSchema
    NoMessage <- MCNoMessage
    Type <- MCType
    Fields <- MCFields
    Before <- MCBefore
    Input <- MCInput
    Depth = 4
    Str <- MCStr
    FromBase64 <- MCFromBase64
    ToBase64 <- MCToBase64
    Utf8 <- MCUtf8
    Sent <- MCSent
    Receiver <- MCReceiver
INVARIANTS TypeOK OrderIsFree WholeFields RoundTrip CanBeSentOn
CHECK_DEADLOCK FALSE

SPECIFICATION WireSpec
CONSTANTS
    GroupSize = 32
    Groups = 2
    LastSize = 2
    Size32 = 16
    Fixed32 = 1
    Fixed64 = 2
    NoSchema = NoSchema
    NoMessage <- MCNoMessage
    Type <- MCType
    Fields <- MCFields
    Top = "Any"
    Depth = 1
    Before <- MCBefore
    Symbol = {0, 2, 8, 18, 26, 33}
    MaxInput = 4
    Input <- MCInput
    Receiver <- MCReceiver
    Sent = {}
PROPERTY DecodeReturns
CHECK_DEADLOCK FALSE

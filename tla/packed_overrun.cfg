SPECIFICATION WireSpec
CONSTANTS
    GroupSize = 32
    Groups = 2
    LastSize = 2
    Size32 = 16
    Fixed32 = 1
    Fixed64 = 2
    NoSchema = NoSchema
    NoMessage <- MCNoMessage
    Type <- MCType
    Fields <- MCFields
    Top = "Any"
    Depth = 1
    Before <- MCBefore
    Symbol = {0, 2, 32, 33, 8, 16, 18, 26, 25}
    MaxInput = 5
    Input <- MCInput
    Receiver <- MCReceiver
    Sent = {}
INVARIANT PackedStaysInside
CHECK_DEADLOCK FALSE

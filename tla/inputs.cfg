SPECIFICATION Spec
CONSTANTS
    Bits <- MCBits
    Precision <- MCPrecision
    MaxScale <- MCMaxScale
    Exponent = 80
    Digit <- MCDigit
    MaxIndex = 90
    MaxNum = 4
    Depth = 2
    Letter = {"a"}
    MaxPath = 6
    MaxFields = 2
    PathInput <- MCPath
    ArgInput <- MCArg
    ConfigInput <- MCConfig
INVARIANTS PathsParsed NumbersConverted TextsReadBack ConfigsParsed FieldsAddressable
CHECK_DEADLOCK FALSE

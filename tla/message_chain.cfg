CONSTANTS
    Ref = {"r1", "r2", "r3", "r4", "r5", "r6", "r7", "r8"}
    Type = {"A", "B", "C"}
    Field = {"b", "cs", "vs"}
    Fields <- ChainFields
    Scalar = {"one"}
    Nil = Nil
    Top = {"A"}
    CScalar = {"1", "bad"}
    convertScalar <- ConvertOrFail
    Mismatch = "mismatch"
    Path <- ChainPaths
    Var = {"x", "p"}
    MaxLen = 1
    ArgKinds = {"nil", "scalar", "message", "anys"}
SPECIFICATION Spec
INVARIANTS
    OnlyTargetChanges
    WalksAgree
    WritesAreRead
    PanicsExplained
CONSTRAINT LeavesInP
VIEW View

CONSTANTS
    Ref = {"r1", "r2", "r3", "r4", "r5", "r6", "r7", "r8"}
    Type = {"S", "M"}
    Field = {"city", "msg", "rmsg"}
    Fields <- ForkFields
    Scalar = {"one"}
    Nil = Nil
    Top = {"S"}
    CScalar = {"1"}
    convertScalar <- Convert
    Mismatch = "mismatch"
    Path <- ForkPaths
    Var = {"x", "p"}
    MaxLen = 1
    ArgKinds = {"nil", "scalar", "message", "messages"}
SPECIFICATION Spec
INVARIANT SetNilClears
VIEW View

CONSTANTS
    Msg = {"m", "n"}
    Var = {"s"}
    Elem = {"a", "b"}
    Zero = "a"
    Addr = {1, 2, 3, 4, 5}
    Nil = Nil
    Unset = Unset
    List <- MCList
    MaxLen = 1
    MaxCap = 3
SPECIFICATION Spec
INVARIANTS TypeOK ArraysOwned
PROPERTIES ListsAreValues HandedOutKept
VIEW View

\* Three goroutines, one type ID, two layouts, every call by everyone again and again.
CONSTANTS
    p1 = p1
    p2 = p2
    p3 = p3
    Proc = {p1, p2, p3}
    TypeID = {1}
    Layout = {"a", "b"}
    NoLayout = "none"
SPECIFICATION FairSpec
INVARIANTS
    TypeOK
    NoMapRace
    AnswersHold
PROPERTIES
    Linearizable
    FirstWins
    CallsReturn

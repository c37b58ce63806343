CONSTANTS
    Base = 2
    IntBytes = 2
    Workers = {w1, w2}
    Calls <- SomeCalls
    other = other
    s1 = s1
    Functions = {addTowInt, other}
    AddTowInt = addTowInt
    Stamps = {s1}
    MaxTasks = 2
    MaxDeaths = 1
    MaxQueries = 1
    NoAnswer = NoAnswer
SPECIFICATION Spec
SYMMETRY Symmetric
INVARIANT TypeOK
INVARIANT CopiesAgree
INVARIANT OneVerdict
INVARIANT AnsweredByHolders
INVARIANT LocatedOrForgotten
INVARIANT FoundIsResult
CHECK_DEADLOCK FALSE

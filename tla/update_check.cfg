SPECIFICATION Spec
CONSTANTS
    c1 = c1
    c2 = c2
    timer = timer
    oldList = oldList
    newList = newList
    stable = stable
    nightly = nightly
    v1 = v1
    v2 = v2
    Client = {c1, c2}
    Timer = timer
    NoTask = NoTask
    Channel = {stable, nightly}
    Version = {v1, v2}
    List = {oldList, newList}
    None = None
    Derived <- MCDerived
    MaxCalls <- CallsEach
    MaxEvents = 2
SYMMETRY Symmetry
INVARIANTS
    TypeOK
    ShownMatchesState
    StatusAnswersQuestion
    ErrorIsOfLastAttempt
    ChoiceStays
    LockNotHeldAcrossRequest
PROPERTIES
    SwitchIsAnswered
CHECK_DEADLOCK FALSE

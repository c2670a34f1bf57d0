SPECIFICATION Spec
CONSTANTS
    Binding <- MCBinding
    Dp <- MCDp
    Ga <- MCGa
    NoGa = NoGa
    Value <- MCValue
    Raw <- MCRaw
    Encode <- MCEncode
    Decode <- MCDecode
    Options <- OwnState
    InitConfig <- Apart
    NoConfig = NoConfig
    NoWrite = NoWrite
    MaxOrders = 2
    MaxInputs = 2
    MaxRebinds = 1
INVARIANTS
    TypeOK
    ActionsAtMostOnce
    NoFeedbackLoop
PROPERTY
    ConfirmationsInOrder
CHECK_DEADLOCK FALSE

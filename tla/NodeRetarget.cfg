\* One node that mines through several retarget windows; an int64 is small enough
\* for the times of some windows to overflow.
SPECIFICATION Spec
CONSTANTS
    Faucet = Faucet
    Blank = Blank
    a = a
    b = b
    u = u
    n1 = n1
    n2 = n2
    Accounts <- MCAccounts
    Unreadable = {}
    ReadBack <- MCReadBack
    MaxInt = 10
    Nodes = {n1}
    Genesises <- MCGenesises
    Policies <- MCRetargetPolicies
    BlockSizes = {1}
    Orders <- MCOnePayment
    TxPool = {}
    Difficulties = {3, 65}
    BlockNonces = {0}
    MaxHeight = 5
    MaxPending = 1
    MaxRules = 6
    MaxRequests = 5
    MaxTime = 6
INVARIANTS
    AlwaysValid
    NextRetargetAnnounced
    RetargetIsGradual
    RetargetFollowsWindow
CHECK_DEADLOCK FALSE

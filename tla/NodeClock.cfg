\* Two nodes and a clock that may be set back.
SPECIFICATION WallClockSpec
CONSTANTS
    Faucet = Faucet
    Blank = Blank
    a = a
    b = b
    u = u
    n1 = n1
    n2 = n2
    Accounts <- MCAccounts
    Unreadable = {}
    ReadBack <- MCReadBack
    MaxInt = 100
    Nodes = {n1, n2}
    Genesises = {1}
    Policies <- MCPolicies
    BlockSizes = {1}
    Orders <- MCFaucetOrders
    TxPool = {}
    Difficulties = {2}
    BlockNonces = {0}
    MaxHeight = 3
    MaxPending = 3
    MaxRules = 2
    MaxRequests = 1
    MaxTime = 2
INVARIANT AlwaysValid
CHECK_DEADLOCK FALSE

\* Two faucet payments, each asked for once, and two nodes that fork.
SPECIFICATION Spec
CONSTANTS
    Faucet = Faucet
    Blank = Blank
    a = a
    b = b
    u = u
    n1 = n1
    n2 = n2
    Accounts <- MCAccounts
    Unreadable = {}
    ReadBack <- MCReadBack
    MaxInt = 100
    Nodes = {n1, n2}
    Genesises = {1}
    Policies <- MCPolicies
    BlockSizes = {1}
    Orders <- MCFaucetOrders
    TxPool = {}
    Difficulties = {2}
    BlockNonces = {0}
    MaxHeight = 3
    MaxPending = 3
    MaxRules = 2
    MaxRequests = 1
    MaxTime = 1
INVARIANT FaucetPaidOnce
CHECK_DEADLOCK FALSE

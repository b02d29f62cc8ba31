\* A name that is not UTF-8, and restarts.
SPECIFICATION RestartSpec
CONSTANTS
    Faucet = Faucet
    Blank = Blank
    a = a
    b = b
    u = u
    n1 = n1
    n2 = n2
    Accounts <- MCAccountsUnreadable
    Unreadable = {u}
    ReadBack <- MCReadBackUnreadable
    MaxInt = 100
    Nodes = {n1}
    Genesises = {1}
    Policies <- MCPolicies
    BlockSizes = {1}
    Orders <- MCUnreadableOrders
    TxPool = {}
    Difficulties = {2}
    BlockNonces = {0}
    MaxHeight = 2
    MaxPending = 2
    MaxRules = 2
    MaxRequests = 1
    MaxTime = 1
INVARIANT SavedChainLoads
CHECK_DEADLOCK FALSE

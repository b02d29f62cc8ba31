\* Two nodes that fork, adopt, and reschedule the difficulty; balances may overflow.
SPECIFICATION Spec
CONSTANTS
    Faucet = Faucet
    Blank = Blank
    a = a
    b = b
    u = u
    n1 = n1
    n2 = n2
    Accounts <- MCAccounts
    Unreadable = {}
    ReadBack <- MCReadBack
    MaxInt = 4
    Nodes = {n1, n2}
    Genesises = {1}
    Policies <- MCForkPolicies
    BlockSizes = {1, 0}
    Orders <- MCForkOrders
    TxPool <- MCForkTxPool
    Difficulties = {2}
    BlockNonces = {0}
    MaxHeight = 3
    MaxPending = 2
    MaxRules = 2
    MaxRequests = 2
    MaxTime = 1
INVARIANTS
    TypeOK
    AlwaysValid
    PendingReplays
    Conservation
    NoReplay
    SpendableIsSendable
    ForkPointIsShared
    EditsAreCaught
PROPERTIES
    HistoryKept
    PolicyKept
    PastDifficultyFixed
SYMMETRY Symmetry
CHECK_DEADLOCK FALSE

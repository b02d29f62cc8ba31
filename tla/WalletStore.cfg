\* Processes on two chain files share a wallet file; they die, and power fails.
SPECIFICATION Spec
CONSTANTS
    p1 = p1
    p2 = p2
    q1 = q1
    d1 = d1
    d2 = d2
    x = x
    y = y
    r = r
    u = u
    v = v
    Absent = Absent
    Empty = Empty
    Torn = Torn
    Processes = {p1, p2, q1}
    Data <- MCData
    Names = {x, y, r, u, v}
    Unreadable = {u, v}
    ReadBack <- MCReadBack
    Rank <- MCRank
    MaxKeys = 1
INVARIANT TypeOK
PROPERTIES
    ImplementsKeyStore
    
    DamageStays

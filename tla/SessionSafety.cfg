\* Two one-shot processes and a prompt share a chain file; power may fail.
SPECIFICATION FairSpec
CONSTANTS
    s1 = s1
    s2 = s2
    r1 = r1
    OneShots = {s1, s2}
    Repls = {r1}
    MaxCommands = 1
    Torn = Torn
    Absent = Absent
    PowerMayFail = TRUE
INVARIANTS
    TypeOK
    MutualExclusion
    FileIntact
    SuccessIsSaved
PROPERTIES
    NoLostUpdate
    OneShotEnds
CHECK_DEADLOCK FALSE

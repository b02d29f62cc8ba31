\* One process, which the operator may interrupt.
SPECIFICATION Spec
CONSTANTS
    s1 = s1
    s2 = s2
    r1 = r1
    OneShots = {s1}
    Repls = {r1}
    MaxCommands = 1
    Torn = Torn
    Absent = Absent
    PowerMayFail = TRUE
INVARIANT StaleLockOnlyAfterKill
CHECK_DEADLOCK FALSE

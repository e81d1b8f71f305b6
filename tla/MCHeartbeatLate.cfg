SPECIFICATION Spec
CONSTANTS
    Ids = {1}
    Names = {"a"}
    Rids = {r1}
    NoRid = norid
    Periods = {1}
    Graces = {0}
    Requests = {q1, q2}
    MaxTime = 6
    MaxFaults = 0
    MaxRestarts = 0
    Unborn = unborn
    Gone = gone
CHECK_DEADLOCK FALSE
PROPERTIES
    MissedOnlyWithoutPing

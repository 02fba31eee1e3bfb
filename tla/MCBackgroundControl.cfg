CONSTANTS
    Tasks = {t1, t2}
    Pages = {p1}
    None = None
    Hours = 1
    Days <- MCDays
    Sightings = {"unknown", "present"}
    ConditionControl = TRUE
    OccupancyControl = TRUE
SPECIFICATION Spec
INVARIANTS
    BackgroundOnce
    ExpiredNeverOffered
    OneTaskAtWork
CHECK_DEADLOCK FALSE

CONSTANTS
    Tasks = {t1}
    Pages = {p1}
    None = None
    Hours = 1
    Days <- MCLearnedDays
    Sightings = {"unknown"}
    ConditionControl = TRUE
    OccupancyControl = TRUE
SPECIFICATION FairSpec
PROPERTIES
    Settles
    TasksEnd
    StalePopupCloses
CHECK_DEADLOCK FALSE

\* 16 readings have up to eleven long pauses: a quarter of the pauses is short, as
\* a pause is long compared with them.
CONSTANTS
    Pauses = {0, 60, 301, 500}
    MaxReadings = 16
    MaxVaried = 6
SPECIFICATION ViewSpec
INVARIANTS
    ShownIsMeasured
    DangerIsAnnounced
    AdviceFitsTheAlerts
    ChartInOrder
    LabelsApart
CHECK_DEADLOCK FALSE

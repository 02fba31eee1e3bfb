\* Two outstanding BLE events.
CONSTANT MaxEvents = 2
SPECIFICATION FairSpec
INVARIANTS
    AdvertisesOnlyAlone
PROPERTIES
    ReportCatchesUp
    SeenLinkResumes
CHECK_DEADLOCK FALSE

CONSTANTS
    Places = {p1, p2}
    NoPlace = NoPlace
    Home = p1
    MaxKey = 3
SPECIFICATION Spec
INVARIANT DecidedOnce
PROPERTIES
    CardSettles
    ControlsComeBack
CHECK_DEADLOCK FALSE

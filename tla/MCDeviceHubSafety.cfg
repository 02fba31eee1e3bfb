\* A gateway that connects twice, two commands.
CONSTANTS
    Socket = {s1, s2}
    Command = {c1, c2}
    None = None
SPECIFICATION Spec
SYMMETRY Symmetry
INVARIANTS
    TypeOK
    PendingOnCurrent
    NoWaiterForgotten
    SuccessMeansExecuted
    CurrentHasHandler
PROPERTIES
    SettledOnce
    LiveSocketKeepsRegistration
    CommandPromise
CHECK_DEADLOCK FALSE

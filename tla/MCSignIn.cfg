CONSTANTS
    Users = {u1, u2}
    NoUser = NoUser
    MaxSessions = 1
    MaxCalls = 2
SPECIFICATION Spec
INVARIANTS
    NameConfirmed
PROPERTY ButtonsComeBack
CHECK_DEADLOCK FALSE

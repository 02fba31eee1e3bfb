\* Two connections and one command under the event loop's fairness.
CONSTANTS
    Socket = {s1, s2}
    Command = {c1}
    None = None
SPECIFICATION FairSpec
PROPERTIES
    FairCommandPromise
    DeadHandlersEnd
CHECK_DEADLOCK FALSE

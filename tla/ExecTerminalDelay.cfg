SPECIFICATION Spec
CONSTANTS
    Nodes = {"n1", "n2", "n3"}
    Ghosts = {"ghost"}
    NoNode = "none"
    Graphs <- TerminalDelay
    MaxTries = 2
    MaxFaults = 0
PROPERTY ResumesAfterDelay
\* A run that has ended takes no more steps.
CHECK_DEADLOCK FALSE

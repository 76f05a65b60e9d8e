CONSTANTS
    MaxSent <- MCMaxSent
    Room = 1
SPECIFICATION ProgramFair
INVARIANTS
    TypeOK
    OutputComplete
    InputComplete
    NothingLeftBehind
PROPERTIES
    TunnelEnds
    EndReachesDaemon
\* A tunnel ends, and its peers may stop at any point.
CHECK_DEADLOCK FALSE

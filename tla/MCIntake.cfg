CONSTANTS
    Source <- MCSource
    Clean <- MCClean
    Version <- MCVersion
    CodeOf <- MCCodeOf
    Special <- MCSpecial
    Request <- MCRequest
    PatternValue <- MCPatternValue
    MaxBodySize = 3
    Nil = Nil
    Failed = Failed
    Proc = {p1, p2, p3}
SPECIFICATION ProgramSpec
INVARIANTS
    ProgramTypeOK
    LastStartedReached
    OrderDoesNotMatter
    ConfigFitsEngine
    RoutesUnambiguous
    ClassFitsEngine
    InspectedAsForwarded
    CommandReadsBack
    GlobMatchesLanguage
PROPERTIES
    FailsForAReason
    FileKept

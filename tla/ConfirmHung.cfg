CONSTANTS
    Asker = {a1, a2}
    Id = {n1, n2}
    Nil = Nil
    Timeout = 2
    Window = 2
    MaxSignals = 2
SPECIFICATION ProgramFair
PROPERTIES
    AskEnds

\* Two paths, one in a directory, two versions, files of two parts.
SPECIFICATION Spec
CONSTANTS
    Paths = {p, q}
    Nros = {p}
    Nested = {p}
    Versions = {v, w}
    NoFile = NoFile
    Parts = 2
    SettleTries = 1
    HbmenuPrompt = TRUE
SYMMETRY StorageSymmetry
INVARIANTS
    CopySurvives
PROPERTIES
    NoFileLostWithDirectory
    ImplementsAtomicFiles

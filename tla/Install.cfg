\* Containers of MCInstall, three contents, a prefix of two units.
SPECIFICATION Spec
CONSTANTS
    a = a
    b = b
    m = m
    Ids = {a, b, m}
    Containers <- MCContainers
    PrefixSize = 2
INVARIANTS
    RegisteredBytesRight
    AllOrNothing
PROPERTIES
    InstallEnds

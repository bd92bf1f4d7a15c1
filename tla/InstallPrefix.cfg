\* The same containers: the bytes an NSP leaves in the prefix.
SPECIFICATION Spec
CONSTANTS
    a = a
    b = b
    m = m
    Ids = {a, b, m}
    Containers <- MCContainers
    PrefixSize = 2
INVARIANT
    ConsumedIsPosition

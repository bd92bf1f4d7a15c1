\* More requests than a connection serves, pipelined or not, bodies larger than
\* the guard of drain_body and than a JSON body may be.
SPECIFICATION Spec
CONSTANTS
    MaxRequests = 3
    MaxBody = 2
    MaxServed = 2
    DrainGuard = 1
    HeaderMax = 4
    JsonMax = 1
    MemorySize = 4
    Align = 2
    MaxBlocks = 3
    BlockSizes = {0, 1, 3}
INVARIANTS
    CleanBoundary
    BodyIsOwn
    BlocksDisjoint
PROPERTIES
    ConnectionEnds

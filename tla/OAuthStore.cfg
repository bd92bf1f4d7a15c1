\* Mints, revocations, edits, failures and restarts in every order.
SPECIFICATION Spec
CONSTANTS
    Tokens = {t1, t2, t3}
    Junk = Junk
    MaxTokens = 2
    StrictClock = FALSE
    MaxClock = 3
    MaxFaults = 1
    Codes = {}
    Challenges = {}
    Redirects = {}
    NoCode = NoCode
    MaxAuthCodes = 1
    Lifetime = 1
    MaxNow = 0
    MaxEdits = 2
SYMMETRY TokenSymmetry
INVARIANTS
    RevokedStaysRevoked

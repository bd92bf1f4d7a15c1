\* Logins and exchanges against the clock, with slots reused.
SPECIFICATION Spec
CONSTANTS
    Tokens = {t1, t2}
    Junk = Junk
    MaxTokens = 1
    StrictClock = FALSE
    MaxClock = 2
    MaxFaults = 0
    Codes = {c1, c2, c3}
    Challenges = {p1, p2}
    Redirects = {r1}
    NoCode = NoCode
    MaxAuthCodes = 2
    Lifetime = 1
    MaxNow = 2
    MaxEdits = 0
SYMMETRY LoginSymmetry
INVARIANTS
    OneTokenPerLogin
    GrantsMatchLogins
    AcceptsFirstTokensOfFile
    LiveCodeLostOnlyToNewer

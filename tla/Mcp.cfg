\* Bodies of up to 23 characters beside their content, content of up to four.
SPECIFICATION Spec
CONSTANTS
    DocMax = 23
    MaxDepth = 4
    MaxKey = 1
    NameChars <- MCNameChars
    MemberNames <- MCMemberNames
    MaxContent = 4
    MaxString = 1
    b64_val <- MCb64_val
    NoTmp = NoTmp
    Stale = Stale
    Letters = {"l", "m"}
    Needle <- MCNeedle
    BufSize = 3
    NoLog = NoLog
    MaxLog = 4
    MaxRewrites = 1
    MaxPolls = 3
    Frames = {0, 1, 2}
    DiffAt = 2
    StableMs = 2
    TimeoutMs = 4
INVARIANTS
    DivertsExactlyContent
    UploadedAsSent
    NoTempSurvives
    WaitTellsTruth
    ScreenWaitTellsTruth

SPECIFICATION Spec
CONSTANTS
    Stamps = {1, 2}
    Foreign = 0
    MaxReports = 2
    MaxEntries = 3
    Servers = {s1, s2}
    NoServer = NoServer
    Malformed = Malformed
    Years = {1999, 2000, 2023, 2100, 2101}
    Months = {0, 2, 4, 12, 13}
    Days = {0, 1, 29, 30, 31, 32}
    Times = {1, 2}
    Dates <- MCDates
    TimeMax = 1
    Unit = 4
    Levels <- MCLevels
    VolumeRanges <- MCVolumeRanges
    Nicknames = {0, 1, 2, 3}
    NicknameMax = 2
    Absent = Absent
    Host <- MCHost
    Service <- MCService
    Fqdn <- MCFqdn
    Queries <- MCQueries
    MaxHops = 1
    TxtSizes = {0, 5}
    OutMax = 10
    IniFiles <- MCIniFiles
    RouteSet <- MCRoutes
    PrefixSet <- MCPrefixes
    RequestSet <- MCRequests
    MaxRoutes = 3
    MaxPublic = 1
    Strings <- MCStrings
    Texts <- MCTexts
    Documents <- MCDocuments
    JsonKeys <- MCJsonKeys
    OutSizes = {1, 5, 6, 8, 19}
    Numbers <- MCNumbers
    Fractions <- MCFractions
    DirPaths <- MCDirPaths
    FilePath <- MCFilePath
    AskedPaths <- MCAskedPaths
    PathMax = 5
    Contents <- MCContents
    Ranges <- MCRanges
    Listings <- MCListings
    NameMax = 5
    ListMax = 7
    IoBuf = 2
    ReadMax = 3
INVARIANTS
    NewestReports
    DnsNotGuessed
    AnswersWhatIsAsked
    DispatchRight
    JsonReadsBack
    ReadsAsStored
PROPERTY SettingsAsAsked
CHECK_DEADLOCK FALSE

\* One MCP server: calls while the corpus is ingested, failed and repeated builds.
SPECIFICATION FairSpec
CONSTANTS
    w1 = w1
    t1 = t1
    d1 = d1
    d2 = d2
    s1 = s1
    s2 = s2
    s3 = s3
    Workers = {w1}
    Tenants = {t1}
    Documents = {d1, d2}
    Contents = {"long", "short"}
    Pieces <- MCPieces
    MaxPieces = 2
    Settings = {"a"}
    Uploads <- MCUploads
    MaxFailures = 3
    Nobody = Nobody
    Searches = {s1, s2, s3}
    ServerOf <- MCServerOf
    Files <- MCFiles
    StatusOf <- MCStatus
    Asks <- MCAsks
INVARIANTS
    BuildsAlone
    AnswersFromCorpus
    FailuresAreIsolated
PROPERTIES
    EverySearchEnds

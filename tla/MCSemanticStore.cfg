SPECIFICATION Spec
CONSTANTS
    Fqn <- Names
    Catalogues <- MCCatalogues
    TableOf <- Tables
    Under <- Prefixes
    MaxCommits = 3
    KeywordWeight = 2
    VectorWeight = 1
    RrfK = 60
    CandidateCap = 2
    SearchLimit = 2
    EnumLimit = 1
    EdgeLimit = 2
    MaxDepth = 2
    MaxNodes = 3
    Depths = {0, 2, 3}
    User <- MCUsers
    Files <- MCFiles
    Pages = 2
    MaxClients = 1
CHECK_DEADLOCK FALSE
INVARIANTS
    TypeOK
    AnswersAreRight
    KeywordsLead
    GrantsAreMeant
    GapsAreWarned
    BackupIsSound

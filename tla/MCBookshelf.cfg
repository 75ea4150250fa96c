SPECIFICATION Spec

CONSTANTS
    Admins = {1, 2}
    Readers = {3, 4}
    Languages = {"vi", "en"}
    DefaultLanguage = "vi"
    Titles <- MCTitles
    PageSize = 2
    ByIdsLimit = 1
    MaxRecommended = 1
    Names = {"n1", "n2"}
    Targets = {1, 4}
    Spoken = {"fr"}
    Words = {"w"}
    CategorySlugs = {"", "c1"}
    InitialBooks <- MCInitialBooks
    InitialCategories <- MCInitialCategories
    BookBodies <- MCBookBodies
    UpdateBodies <- MCUpdateBodies
    CategoryBodies <- MCCategoryBodies
    Prices = {4}
    TTL = 0
    StatsTTL = 1
    MaxClock = 1

INVARIANTS
    TypeOK
    ReadersAreCurrent
    CardLeadsToBook
    
    QueriesAreRight

PROPERTIES
    DeletedIsFinal

\* Every request is made once: an instance may stop.
CHECK_DEADLOCK FALSE

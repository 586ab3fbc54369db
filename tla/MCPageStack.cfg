\* Every interleaving of user, pages, pool thread, failures and restarts.
SPECIFICATION PSpec
CONSTANTS
    Tabs <- MCTabs
    SubPages <- MCSubPages
    Cap <- MCCap
    MaxId <- MCMaxId
    OldRows <- MCOldRows
    MayFail = TRUE
INVARIANTS
    TypeOK
    ShowsNewestRows
    LoadedShowsAll
    SnapshotFresh
PROPERTIES
    LogSpec
    PageFills

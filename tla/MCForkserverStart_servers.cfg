SPECIFICATION FairSpec
CONSTANTS
    Extra = {"san", "cmplog"}
    Sizes = {1, 5, 9}
    UserSizes = {2, 8, 16}
    MAP_SIZE = 4
    DEFAULT_SHMEM_SIZE = 8
    Align = 2
    IjonMap = 2
    IjonBytes = 1
    IjonMin = 1
    DictLen = 2
INVARIANTS InStep SidesAgree DictOnce GivesUpRightly
PROPERTIES StartUpEnds
CHECK_DEADLOCK FALSE

SPECIFICATION FairSpec
CONSTANTS
    absent = absent
    Absent = absent
    FileSizes <- AllSizes
    KeyCases = {"agree", "differ", "missing"}
    Base = 2
    KeyLen = 2
    HeaderLen = 2
    SizeLen = 3
    HashLen = 3
    Overhead = 2
    MayBreak = TRUE
INVARIANTS
    FileTransferTypeOK
    CrashHasACause
PROPERTIES
    FairWeather
    UploadEnds
    ImplementsFileDelivery
CHECK_DEADLOCK FALSE

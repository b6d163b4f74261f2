CONSTANTS
    N_WARMUP = 2
    N_MEASURE = 4
    N_PAYLOADS = 2
    QUEUE_CAP = 2
    N_TICKERS = 2
    POOL_CAP = 2
    MAP_CAP = 4
    MAX_PRICE = 1
    Lead = 1
    MaxGap = 1
    MaxTsc = 4
SPECIFICATION Spec
INVARIANTS
    TypeOK
    ZeroAlloc
    WarmupDrained
    SamplesHonest
    BooksExact
PROPERTIES
    Terminates

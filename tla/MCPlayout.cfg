SPECIFICATION FairSpec
CONSTANTS Cap = 3 Target = 2 Tol = 0 BulkLate = 1 Stale = 1 Wild = 2 MaxEarly = 1 MaxLate = 1 StaleHits = 2
LocalWait = 1 FullWait = 2 Attempts = 2 SeekSpan = 1 Floor <- MCFloor LeadMax = 4
Aheads = {1} Errors = {0, 2} Jumps <- MCJumps CalmMin = 2 CalmMax = 3 NoMemory = FALSE None = None
INVARIANTS TypeOK SlotsReturned EarlySilenceEnds
PROPERTY HeardAgain
CHECK_DEADLOCK FALSE

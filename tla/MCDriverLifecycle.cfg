CONSTANT MaxSignals = 4
SPECIFICATION FairSpec
INVARIANTS TypeOK HealthzHonest AbandonedHasCause RepublishFindsDriver
PROPERTY CancelEnds
CHECK_DEADLOCK FALSE

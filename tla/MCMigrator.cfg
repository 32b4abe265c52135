CONSTANT Migrators = {m1, m2, m3}
SPECIFICATION FairSpec
INVARIANTS TypeOK TablesRecorded LevelByLevel UpToDate
PROPERTY CommandsFinish
CHECK_DEADLOCK FALSE

SPECIFICATION CleanerSpec
CONSTANTS
    Thread = {t1, t2, cleaner}
    Name = {n1}
    NS = NS
    Uri = {u1, ux}
    Tag = {}
    Filters = {{NS, n1}}
    Storages = {"memory", "sql", "dbm"}
    MaxOps = 2
    MaxFaults = 1
    None = None
    Cleaner = cleaner
    Unaddressed = {ux}
    MaxFlips = 1
INVARIANT NamesInv
PROPERTIES RegistrationsKept DeadNamesGo
CHECK_DEADLOCK FALSE

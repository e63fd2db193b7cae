\* Two sessions, one order, every fault.
SPECIFICATION FairSpec
CONSTANTS
    o1 = o1  o2 = o2  s1 = s1  s2 = s2  s3 = s3
    old = old  new = new  status = status  vendor = vendor
    None = None
    Orders = {o1}
    Sessions = {s1, s2}
    Columns = {status, vendor}
    Values = {old, new}
    Lines = {1, 2}
    Contents = {old, new}
    Payloads <- AllPayloads
    Faults = {"redis", "database", "crash"}
INVARIANTS StaleEntryHasCause UndisturbedReadIsCurrent
PROPERTIES ItemsReplacedWhole UndisturbedCommitStoresOrder InsertNeverOverwrites CallReturns CacheConverges

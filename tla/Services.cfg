\* Two sessions: ingestions of one order, whole and as an orphan item, reads and
\* conferences, with a Redis that fails.
SPECIFICATION ConnectorSpec
CONSTANTS
    o1 = o1  o2 = o2  s1 = s1  s2 = s2  s3 = s3
    None = None
    Orders = {o1}
    Sessions = {s1, s2}
    Columns <- HeaderColumns
    Values <- HeaderValues
    Lines = {1, 2}
    Contents <- ItemContents
    Payloads = {}
    PriceTolerance = 1
    ClientOf <- OneClient
    Batches <- OrderAndOrphan
    Invoices <- OneInvoice
    Registered = {o1}
    Faults = {"redis"}
SYMMETRY Symmetry
INVARIANTS ConferencesReferToOrders
PROPERTIES OrphansNeverCreate UndisturbedMergeKeepsOrder

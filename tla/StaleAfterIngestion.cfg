\* A read that is filled late, no fault.
SPECIFICATION ConnectorSpec
CONSTANTS
    o1 = o1  o2 = o2  s1 = s1  s2 = s2  s3 = s3
    None = None
    Orders = {o1}
    Sessions = {s1, s2}
    Columns <- HeaderColumns
    Values <- HeaderValues
    Lines = {1, 2}
    Contents <- ItemContents
    Payloads = {}
    PriceTolerance = 1
    ClientOf <- OneClient
    Batches <- OneOrder
    Invoices <- NoInvoice
    Registered = {o1}
    Faults = {}
SYMMETRY Symmetry
INVARIANTS CacheConsistentAfterIngestion

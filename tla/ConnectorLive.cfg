\* Liveness: two sessions ingest over two orders, one of them a payload of two tasks;
\* statements fail at any task, and the SCAN of one meets the fills of the other.
SPECIFICATION FairConnectorSpec
CONSTANTS
    o1 = o1  o2 = o2  s1 = s1  s2 = s2  s3 = s3
    None = None
    Orders = {o1, o2}
    Sessions = {s1, s2}
    Columns <- HeaderColumns
    Values <- HeaderValues
    Lines = {1}
    Contents <- ItemContents
    Payloads = {}
    PriceTolerance = 1
    ClientOf <- OneClient
    Batches <- TwoTasks
    Invoices <- NoInvoice
    Registered = {o1}
    Faults = {"database"}

PROPERTIES RequestsAnswered

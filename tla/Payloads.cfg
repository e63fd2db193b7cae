\* One session: payloads of two tasks over two orders, and conferences, every fault,
\* with fairness.
SPECIFICATION FairConnectorSpec
CONSTANTS
    o1 = o1  o2 = o2  s1 = s1  s2 = s2  s3 = s3
    None = None
    Orders = {o1, o2}
    Sessions = {s1}
    Columns <- HeaderColumns
    Values <- HeaderValues
    Lines = {1, 2}
    Contents <- ItemContents
    Payloads = {}
    PriceTolerance = 1
    ClientOf <- OneClient
    Batches <- TwoOrders
    Invoices <- TwoInvoices
    Registered = {o1}
    Faults = {"redis", "database", "crash"}

INVARIANTS ReportedOrdersAreStored AnsweredConferencesSaved
PROPERTIES ImplementsRepository RequestsAnswered

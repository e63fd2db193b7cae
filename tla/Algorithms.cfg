\* Order prices of the conferences 5, tolerance 2: totals on, just inside and
\* just outside it.  The fine units of the diff: 3 to a quantity, 2 to a price.
SPECIFICATION Spec
CONSTANTS
    NotFound = NotFound
    Missing = Missing
    PriceTolerance = 2
    Centavo = 3
    QuantityUnit = 3
    PriceUnit = 2
    CheckOrders <- MCCheckOrders
    Invoices <- MCInvoices
    StoredOrders <- MCStoredOrders
    SentOrders <- MCSentOrders
    SameOrders <- MCSameOrders
    Loads <- MCLoads
CHECK_DEADLOCK FALSE
INVARIANTS ApprovedIsCovered EveryDivergenceListed DiffExplainsUpdate OnlyRoundingReported FormatsAgree DefectRejects

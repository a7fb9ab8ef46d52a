\* Four buyers, two items.
SPECIFICATION Spec
CONSTANTS
    b1 = b1  b2 = b2  b3 = b3  b4 = b4
    Buyers <- MCBuyers
    Total = 2
    None = None
INVARIANTS TypeOK StockIsUnsold ReportedCountIsRight OneItemOneBuyer RecordsMatchSales SoldOutIsFinal
PROPERTY EveryBuyerEnds
\* Every buyer has been answered: the system may stop.
CHECK_DEADLOCK FALSE

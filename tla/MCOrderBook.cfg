SPECIFICATION Spec
CONSTANTS
    o1 = o1
    o2 = o2
    o3 = o3
    OrderId <- MCOrderId
    Price <- MCPrice
    Quantity <- MCQuantity
    NIL = 3
SYMMETRY Sym
VIEW View
INVARIANTS
    TypeOK
    PanicFree
    PoolConsistent
    TimePriority
    LevelAggregates
    QueuePosition
    NoSlotLeak
    TopOfBook
PROPERTY ImplementsPriceTime

SPECIFICATION Spec
CONSTANTS
    Transactions = {t1, t2, t3}
    LastSlot = 3
    KeptSlots = 2
    MaxNotices = 2
    Capacity = 3
    Null = Null
    Undefined = Undefined
INVARIANT NoEventIsLost

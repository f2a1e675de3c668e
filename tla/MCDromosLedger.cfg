CONSTANTS
    c = c
    p = p
    n = n
    Users = {c, p}
    Validators = {p}
    Slots = {1}
    Names = {n}
    AuditPeriod = 1
    Reward = 1
    NamePrice = 1
    Genesis <- MCGenesis
    Menu <- MCMenu
    MaxNonce = 1
    MaxBlock = 2
    MaxHeight = 4
SPECIFICATION Spec
INVARIANTS TypeOK  SupplyIsFixed DealKeepsToSchedule ScheduleIsSerial
PROPERTIES NameIsKept
CHECK_DEADLOCK FALSE

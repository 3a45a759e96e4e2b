SPECIFICATION BothSpec
CONSTANTS
    Limit = 2
    Window = 2
    Callers = {c1, c2}
    MaxRateFaults = 7
    u1 = u1
    Users = {u1}
    Subs = {s1}
    Customer <- OneCustomer
    Events <- SerialEvents
    Handlers = {h1}
    MaxFaults = 1
CHECK_DEADLOCK FALSE
INVARIANTS
    AdmissionBounded
    OneGrant
    ProIsPaid
    PaidHasPro
PROPERTIES
    RefusedIsAdmitted
    EventsSettle

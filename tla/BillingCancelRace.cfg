SPECIFICATION Spec
CONSTANTS
    u1 = u1
    Users = {u1}
    Subs = {s1}
    Customer <- OneCustomer
    Events <- AllEvents
    Handlers = {h1, h2}
    MaxFaults = 0
CHECK_DEADLOCK FALSE
SYMMETRY Symmetry
INVARIANT
    ProIsPaid

\* One order is stored again while a sweep runs.
SPECIFICATION Spec
CONSTANTS
    s1 = s1  s2 = s2
    None = None
    Orders = {1, 2, 3}
    Sessions = {s1}
    PageSize = 1
    MaxTime = 2
    Matches = {TRUE}
INVARIANTS NoOrderLost

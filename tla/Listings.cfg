\* Each listing in pages of one, or two for the users, among two sessions that
\* write.
SPECIFICATION ListingsSpec
CONSTANTS
    s1 = s1  s2 = s2
    None = None
    Orders = {1, 2}
    Conferences = {1, 2, 3}
    Users = {1, 2, 3, 4}
    Admin = 1
    Sessions = {s1, s2}
    PageSize = 1
    MaxTime = 1
    UserPageSize = 2
    UserTime = 3
    Matches = {TRUE, FALSE}
INVARIANTS SweepCoversUntouched RepeatsAreRegressions EachListedOnce ListedWhole UserSweepErrs
PROPERTIES SweepEnds ImplementsListing
\* The ids of the conferences and of the users run out.
CHECK_DEADLOCK FALSE

\* Two requests at a time, one administrator and another he creates, who log in
\* once each and take each other's rights away, and a clock that outlasts both
\* kinds of token.
SPECIFICATION Spec
CONSTANTS
    u1 = u1  u2 = u2  u3 = u3  n1 = n1  n2 = n2  t1 = t1  t2 = t2  s1 = s1  s2 = s2
    None = None
    Users = {u1, u2, u3}
    Names = {n1, n2}
    Creations <- OneUsername
    Tokens = {t1, t2}
    Owner <- OneTokenEach
    Patches <- TakenAway
    Sessions = {s1, s2}
    Admin = u1
    AdminName = n1
    AccessTTL = 0
    RefreshTTL = 1
    MaxTime = 2
SYMMETRY Symmetry
INVARIANTS AccountsUnique StaleRoleExpires
PROPERTIES InactiveAccessEnds LogoutEndsAccess OnlyStaleAdminsEndAdministration PatchesMerge

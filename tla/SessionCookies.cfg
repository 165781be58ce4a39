SPECIFICATION Spec
CONSTANTS
    None = None
    Logins = {in1, in2}
    Logouts = {out1, out2}
    Uses = {use1}
    Ttl = 1
    MaxTime = 2
SYMMETRY AnyOrder
INVARIANTS SessionInv CheckedRightly CookieFollows
CHECK_DEADLOCK FALSE

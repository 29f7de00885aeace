\* The comment of API#login, checked on the smallest instance.
SPECIFICATION Spec
CONSTANTS
    Callers = {c1, c2}
    TTL = 2
    MaxCall = 1
    MaxTime = 4
    Nil = Nil
INVARIANT CachedLoginReturnsToken
CHECK_DEADLOCK FALSE

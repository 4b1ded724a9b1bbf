SPECIFICATION Spec
CONSTANTS
    Users = {u1}
    Passwords = {w1, w2}
    SessionIds = {s1, s2}
    Tokens = {t1, t2}
    Requests = {p1, p2}
    MaxFailures = 1
    Window = 0
    Nil = Nil
CHECK_DEADLOCK FALSE
INVARIANTS
    GuessesAreBounded
PROPERTIES
    RevokedForGood

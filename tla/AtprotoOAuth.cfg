SPECIFICATION Spec
CONSTANTS
    Users = {u1, u2}
    Sessions = {s1}
    Codes = {c1}
    RTs = {t1, t2, t3}
    Authorizes = {a1}
    Calls = {q1, q2}
    Changes = {e1}
    ParLife = 1
    CodeLife = 1
    RTLife = 1
    Lead = 0
    MaxTime = 1
    None = None
SYMMETRY Symmetry
INVARIANTS TypeOK OneResponse CleanDisableHolds

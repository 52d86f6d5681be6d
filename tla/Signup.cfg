SPECIFICATION FairSpec
CONSTANTS
    Tokens = {t1, t2, t3}
    Keys = {k1}
    Handlers = {h1, h2}
    Workers = {w1, w2}
    Capacity = 1
    MaxTime = 4
    Faults = {"crash", "error"}
    None = None
INVARIANTS TypeOK VerifiedHasPassword
PROPERTIES ChosenPasswordStands EmailIsFreed

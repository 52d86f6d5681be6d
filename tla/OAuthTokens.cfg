SPECIFICATION Spec
CONSTANTS
    Codes = {c1, c2}
    Auths = {a1, a2}
    RTs = {t1, t2, t3}
    Exchanges = {x1, x2}
    Refreshes = {y1, y2}
    CodeLife = 1
    RTLife = 1
    MaxTime = 1
    None = None
SYMMETRY Symmetry
INVARIANTS TypeOK NoForkedChain RevokedChainIsDead

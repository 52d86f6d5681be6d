SPECIFICATION Spec
CONSTANTS
    i1 = i1  i2 = i2  r1 = r1  r2 = r2  p1 = p1  t1 = t1  t2 = t2
    alice = alice  vine = vine  a1 = a1  tk1 = tk1  tk2 = tk2  tk3 = tk3
    Instances = {i1, i2}
    Requests = {r1, r2}
    Operators = {p1}
    Tenants = {t1, t2}
    Users = {alice, vine}
    Auths = {a1}
    Tokens = {tk1, tk2, tk3}
    Preloaded = {vine}
    Owner <- MCOwner
    AuthExpiry <- MCAuthExpiry
    Mode <- MCMode
    TokenUser <- MCTokenUser
    TokenAuth <- MCTokenAuth
    TokenTenant <- MCTokenTenant
    TokenExpiry <- MCTokenExpiry
    NoExpiry = 9
    None = None
    MaxTime = 1
SYMMETRY Symmetry
INVARIANTS CleanRevocationHolds RightParty

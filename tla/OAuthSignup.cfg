SPECIFICATION FairSpec
CONSTANTS
    Regs = {app, web}
    Headless = {app}
    EmailOf <- MCEmailOf
    KeyOf <- MCKeyOf
    Codes = {c1, c2}
    Clicks = {v1, v2}
    Polls = {p1}
    MaxFaults = 2
    None = None
INVARIANTS TypeOK HeadlessCanRetry CodeHasAccount
PROPERTY HeadlessCodeIsLeft

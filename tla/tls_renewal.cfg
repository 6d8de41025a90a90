\* A certificate with credentials, and days that pass until it is due.
SPECIFICATION TlsSpec
CONSTANTS
    None = None
    MaxRuns = 4
    MaxOutside = 1
    MaxManaged = 2
    Domains = {d1, d2}
    Life = 2
    Window = 1
    MaxDay = 2
INVARIANT
    RenewalAnswerable
CHECK_DEADLOCK FALSE

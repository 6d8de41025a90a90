SPECIFICATION WorkstationSpec
CONSTANTS
    None = None
    MaxRuns = 3
    MaxOutside = 1
    Hosts = {h1, h2}
    Blobs = {k1, k2}
    MaxNow = 1
    MaxKeys = 4
    Versions = {v8, v21}
    OwnLines = {u, q}
    QuotingLine = q
    QuotedVersion = v21
    Quotes <- OneQuote
    MaxRc = 9
    Domains = {d1, d2}
    Life = 2
    Window = 1
    MaxDay = 2
    MaxManaged = 2
    WritableDirs <- TwoWritable
    MaxSecrets = 2
INVARIANTS
    TypeOK
    KeysRecoverable
    SshReportsHold
    BlocksFollow
    CertificatesHold
    PermsHold
    RangeHonoured
PROPERTY
    EnvKept
CHECK_DEADLOCK FALSE

SPECIFICATION ServicesSpec
CONSTANTS
    None = None
    MaxRuns = 2
    MaxOutside = 1
    DnsPort = 53
    HttpPort = 80
    RemapDns = 5353
    RemapHttp = 8080
    OtherPorts = {443}
    Contested = {}
    Torn = Torn
    MaxStamp = 1
    Containers = {c1, c2}
    Builders = {b1}
    VerifyTimeout = 2
    LowPids = {5}
    HighPids = {200, 201}
    MaxBorn = 3
INVARIANTS
    TypeOK
    CleanReportsHold
    SignalsLand
PROPERTY
    RunsEnd
CHECK_DEADLOCK FALSE

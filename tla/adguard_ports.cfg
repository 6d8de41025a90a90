\* The units may take or let go of any of the ports while a run goes on.
SPECIFICATION AghSpec
CONSTANTS
    None = None
    MaxRuns = 2
    MaxOutside = 1
    DnsPort = 53
    HttpPort = 80
    RemapDns = 5353
    RemapHttp = 8080
    OtherPorts = {443}
    Contested = {53, 80, 5353, 8080}
    Torn = Torn
    MaxStamp = 1
INVARIANTS
    AghReportsHold
    ResolvRecoverable
CHECK_DEADLOCK FALSE

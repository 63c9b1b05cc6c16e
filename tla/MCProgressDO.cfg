\* One job with one socket; the isolate may die between any two writes.
CONSTANTS
    Sockets = {s1}
    MaxTicks = 2
    Ttls <- MCTtls
    DefaultTtl = 1
    Progress <- MCProgress
    Absent = Absent
    MidCrash = TRUE
SPECIFICATION FairSpec
INVARIANTS TypeOK AckedIsArmed
PROPERTIES WindowsKept ImplementsLifecycle SocketNeverRevives EverythingEnds

\* A report that arrives after the purge is stored again, without an alarm.
CONSTANTS
    Sockets = {s1}
    MaxTicks = 2
    Ttls <- MCTtls
    DefaultTtl = 1
    Progress <- MCProgress
    Absent = Absent
    MidCrash = FALSE
SPECIFICATION Spec
INVARIANTS StoredIsArmed

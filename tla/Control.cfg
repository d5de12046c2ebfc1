CONSTANTS
    Outputs = {1}
    Sources = {"a", "b"}
    BusCap = 1
    HubCap = 2
    MaxSpent = 3
    Clients = {"c1", "c2"}
    Addresses = {"x"}
    Passwords = {"p", "q"}
    SessionCap = 1
    PerAddress = 1
    MaxWrites = 3
    MaxLogins = 2
    AplWrites = 1
    AplFaults = 2
    AplEvents = 1
    AuPcms = {"q", "r"}
    AuEvents = 2
SPECIFICATION FairSpec
INVARIANTS ApplierPromises
PROPERTIES SupervisorPromises SessionsPromises AudioPromises ControlGetsDone
CHECK_DEADLOCK FALSE

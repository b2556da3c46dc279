\* Clients that may die before releasing, notifiers that may fail, forks that may fail: does every TEARDOWN reach DOWN?
CONSTANTS
    a1 = a1
    a2 = a2
    Addrs <- MCAddrs
    NoAddr = NoAddr
    ScriptReasons <- MCScriptReasons
    LeaseReasons <- MCLeaseReasons
    ReleaseReason = "deconfig"
    dhcpv6 = FALSE
    ReleaseOnTerm = TRUE
    MaxGen = 3
    MaxMsgs = 2
    ClientMayCrash = TRUE
    IpcTimeout = TRUE
    LossyIpc = TRUE
    SpawnMayFail = TRUE
SPECIFICATION Spec
PROPERTY
    TeardownCompletes
CHECK_DEADLOCK FALSE

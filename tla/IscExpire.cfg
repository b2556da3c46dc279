\* Does the interface ever stay up after dhclient reported EXPIRE?
CONSTANTS
    a1 = a1
    a2 = a2
    Addrs <- MCAddrs
    NoAddr = NoAddr
    ScriptReasons <- MCScriptReasons
    LeaseReasons <- MCLeaseReasons
    ReleaseReason = "PREINIT"
    dhcpv6 = FALSE
    ReleaseOnTerm = TRUE
    MaxGen = 2
    MaxMsgs = 2
    ClientMayCrash = FALSE
    IpcTimeout = FALSE
    LossyIpc = FALSE
    SpawnMayFail = FALSE
SPECIFICATION Spec
INVARIANT
    UpHasLease
CHECK_DEADLOCK FALSE

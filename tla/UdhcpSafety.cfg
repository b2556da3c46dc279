\* All environment faults on: crashes, lost and timed-out notifications,
\* failed forks.
CONSTANTS
    a1 = a1
    a2 = a2
    Addrs <- MCAddrs
    NoAddr = NoAddr
    ScriptReasons <- MCScriptReasons
    LeaseReasons <- MCLeaseReasons
    ReleaseReason = "deconfig"
    dhcpv6 = FALSE
    ReleaseOnTerm = TRUE
    MaxGen = 3
    MaxMsgs = 2
    ClientMayCrash = TRUE
    IpcTimeout = TRUE
    LossyIpc = TRUE
    SpawnMayFail = TRUE
SPECIFICATION Spec
INVARIANTS
    TypeOK
    UpHasLease
PROPERTIES
    NoRespawnAfterTeardown
    AutoRestart
CHECK_DEADLOCK FALSE

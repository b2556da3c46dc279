\* All faults on: crashes, lost and timed-out notifications, failed forks;
\* zcip runs no script on SIGTERM.
CONSTANTS
    a1 = a1
    a2 = a2
    Addrs <- MCAddrs
    NoAddr = NoAddr
    ScriptReasons <- MCScriptReasons
    LeaseReasons <- MCLeaseReasons
    ReleaseReason = "deconfig"
    ReleaseOnTerm = FALSE
    MaxGen = 3
    MaxMsgs = 3
    ClientMayCrash = TRUE
    IpcTimeout = TRUE
    LossyIpc = TRUE
    SpawnMayFail = TRUE
SPECIFICATION Spec
INVARIANTS
    TypeOK
    UpHasLease
PROPERTIES
    NoRespawnAfterTeardown
    AutoRestart
CHECK_DEADLOCK FALSE

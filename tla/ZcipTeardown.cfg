\* zcip killed silently by SIGTERM (it runs no script on exit), reliable IPC:
\* does every TEARDOWN reach DOWN?
CONSTANTS
    a1 = a1
    a2 = a2
    Addrs <- MCAddrs
    NoAddr = NoAddr
    ScriptReasons <- MCScriptReasons
    LeaseReasons <- MCLeaseReasons
    ReleaseReason = "deconfig"
    ReleaseOnTerm = FALSE
    MaxGen = 3
    MaxMsgs = 2
    ClientMayCrash = FALSE
    IpcTimeout = FALSE
    LossyIpc = FALSE
    SpawnMayFail = FALSE
SPECIFICATION Spec
PROPERTY
    TeardownCompletes
CHECK_DEADLOCK FALSE

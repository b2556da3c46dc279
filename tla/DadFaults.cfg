\* Does PREINIT6 still wait for DAD when ubus or the netlink socket fails?
CONSTANTS
    Reasons <- MCReasons
    DadWaitValues <- MCDadWaitValues
    MaxTicks = 55
    LossyIpc = TRUE
    SocketMayFail = TRUE
SPECIFICATION Spec
INVARIANT
    DadGateHonoured
CHECK_DEADLOCK FALSE

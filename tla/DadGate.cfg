\* Does the PREINIT6 gate hold dhclient exactly as long as spec 4.4 says,
\* and always end, when ubus and netlink work?
CONSTANTS
    Reasons <- MCReasons
    DadWaitValues <- MCDadWaitValues
    MaxTicks = 55
    LossyIpc = FALSE
    SocketMayFail = FALSE
SPECIFICATION Spec
PROPERTY
    ImplementsDadWait
CHECK_DEADLOCK FALSE

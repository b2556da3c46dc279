\* Does the translator build what spec 4.3 says from every well-formed
\* attribute: non-negative numbers within 32 bits, an "ip" beside the routers?
CONSTANTS
    Chars <- MCChars
    MaxLen = 3
    NumShapes <- MCWellFormedShapes
    Lows <- MCNonNegLows
    Wraps = {0}
    HugeWraps = 2
    DadLows <- MCDadLows
    IpValues = {"ip"}
SPECIFICATION Spec
INVARIANTS
    DnsAsSpecified
    RoutesAsSpecified
    MtuAsSpecified
    AddressAsSpecified
CHECK_DEADLOCK FALSE

\* Does the translator still follow spec 4.3 on edge attributes: empty or
\* negative numbers, numbers beyond 32 bits or beyond long, routers with no
\* "ip"?
CONSTANTS
    Chars <- MCChars
    MaxLen = 3
    NumShapes <- MCAllShapes
    Lows <- MCLows
    Wraps <- MCWraps
    HugeWraps = 2
    DadLows <- MCDadEdgeLows
    IpValues = {"ip", "NULL"}
SPECIFICATION Spec
INVARIANT
    TranslationAsSpecified
CHECK_DEADLOCK FALSE

----------------------------- MODULE MCIpConfig -----------------------------
(* Model-checking instance of IpConfig: list attributes of up to three     *)
(* characters over two letters and the blank, so that words can repeat,   *)
(* swap or be separated by several blanks; numbers at the edges of the     *)
(* MTU range, and high parts either side of the 32-bit and long limits.   *)
EXTENDS IpConfig

MCChars == {"a", "b"}
MCLows == {-1, 0, 58, 59, 65535, 65536}
MCNonNegLows == {0, 58, 59, 65535, 65536}
MCWraps == {-2, -1, 0, 1, 2}
MCWellFormedShapes == {"num", "num_junk", "junk"}
MCAllShapes == {"num", "num_junk", "junk", "empty"}
\* dad_wait_time: the default, the longest values "%d" fits in ten bytes,
\* then ten digits, the int maximum, and u32 values above it (2^32 - 1
\* and 3000000000, whose int images are -1 and -1294967296).
MCDadLows == {0, 5, 99999999, 999999999}
MCDadEdgeLows == MCDadLows \cup {1000000000, 2147483647, -1, -1294967296}
=============================================================================

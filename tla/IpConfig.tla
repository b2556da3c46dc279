------------------------------ MODULE IpConfig ------------------------------
(***************************************************************************)
(* The IP-configuration translator: the bound branch of every handler     *)
(* (udhcp4_configure, udhcp6_configure, dhcp4_configure, dhcp6_configure,  *)
(* zcip_configure fed by zcip-script), which turns notification strings    *)
(* into a transaction: the address table, the strtok_r loops over the DNS  *)
(* and router lists, the route metric, the MTU test and the IPv6           *)
(* lifetimes; and the "--dad-wait-time" argument start_dhcp_client writes. *)
(* Each is an operator, checked against a reference definition of what     *)
(* the spec says, over every input of a bounded set.                       *)
(*                                                                         *)
(* A list attribute is a string over a few characters and the blank.  A    *)
(* numeric attribute is described by what strtol sees: whether it starts   *)
(* with a number, whether characters follow it, and the number's value    *)
(* wraps * 2^32 + low, low being within int range.  |wraps| >= HugeWraps   *)
(* stands for a value beyond the range of long, which strtol saturates.    *)
(***************************************************************************)
EXTENDS Integers, Sequences, TLC
LOCAL INSTANCE SequencesExt

CONSTANTS
    Chars,          \* non-blank characters of list attributes
    MaxLen,         \* bound on the length of a list attribute
    NumShapes,      \* shapes of numeric strings: "num", "num_junk", "junk", "empty"
    Lows,           \* values of the low 32 bits (as a signed int)
    Wraps,          \* values of the high part
    HugeWraps,      \* |wraps| from which the value overflows long
    IpValues,       \* the "ip" attribute: "ip", or "NULL" when absent
    DadLows         \* configured dad_wait_time values, by their int image

ASSUME /\ " " \notin Chars /\ MaxLen \in Nat
       /\ NumShapes \subseteq {"num", "num_junk", "junk", "empty"}
       /\ 0 \in Lows /\ 0 \in Wraps /\ HugeWraps \in Nat \ {0}
       /\ IpValues \subseteq {"ip", "NULL"}
       /\ \A l \in DadLows : l >= -2147483647   \* -l is an int

Strings == BoundedSeq(Chars \cup {" "}, MaxLen)

\* A string attribute of the notification, absent or present.
NoStr == [present |-> FALSE, s |-> <<>>]
StrAttrs == {NoStr} \cup [present : {TRUE}, s : Strings]

\* What strtol sees in a numeric attribute.
NumOf(shape, w, l) ==
    [digits |-> shape \in {"num", "num_junk"},
     rest   |-> shape \in {"num_junk", "junk"},
     wraps  |-> w, low |-> l]
NumStrs ==
    {NumOf(sh, w, l) : sh \in NumShapes \cap {"num", "num_junk"},
                       w \in Wraps, l \in Lows}
    \cup {NumOf(sh, 0, 0) : sh \in NumShapes \cap {"junk", "empty"}}
NoNum == [present |-> FALSE, n |-> NumOf("empty", 0, 0)]
NumAttrs == {NoNum} \cup [present : {TRUE}, n : NumStrs]

\* A numeric field of the transaction: unset, or the value wraps*2^32+low.
Unset == [set |-> FALSE, wraps |-> 0, low |-> 0]

-----------------------------------------------------------------------------
(* C library behaviour the handlers rely on.                               *)

RECURSIVE skip_delims(_), token_len(_)
skip_delims(s) == IF s # <<>> /\ Head(s) = " " THEN skip_delims(Tail(s)) ELSE s
token_len(s) == IF s = <<>> \/ Head(s) = " " THEN 0 ELSE 1 + token_len(Tail(s))

\* Mutant: a tokenizer that does not skip leading delimiters (as strsep).
strtok_r_keep_empty(s) ==
    IF s = <<>>
      THEN [null |-> TRUE, tok |-> <<>>, save |-> <<>>]
      ELSE LET n == token_len(s)
           IN  [null |-> FALSE, tok |-> SubSeq(s, 1, n), save |-> SubSeq(s, n + 2, Len(s))]

\* strtok_r(str, " ", &saveptr) from the remaining string s: skip blanks;
\* none left is NULL; else the token runs to the next blank, which is
\* overwritten by NUL, and saveptr points past it.
strtok_r(s) ==
    LET t == skip_delims(s)
        n == token_len(t)
    IN  IF t = <<>>
          THEN [null |-> TRUE, tok |-> <<>>, save |-> <<>>]
          ELSE [null |-> FALSE, tok |-> SubSeq(t, 1, n), save |-> SubSeq(t, n + 2, Len(t))]

\* (int) strtol(s, &end, 10): the low 32 bits of the long result.
strtol_int(n) ==
    CASE ~n.digits              -> 0
      [] n.wraps >= HugeWraps   -> -1   \* LONG_MAX
      [] n.wraps <= -HugeWraps  -> 0    \* LONG_MIN
      [] OTHER                  -> n.low

\* blobmsg_add_u32 of an int: its value modulo 2^32.
blobmsg_add_u32(x) == [set |-> TRUE, wraps |-> IF x < 0 THEN 1 ELSE 0, low |-> x]

RECURSIVE decimal_len(_), pow10(_)
decimal_len(m) == IF m < 10 THEN 1 ELSE 1 + decimal_len(m \div 10)
pow10(k) == IF k = 0 THEN 1 ELSE 10 * pow10(k - 1)

\* snprintf(buf, size, "%d", x): at most size - 1 characters of the sign
\* and digits of x are kept; the value the kept characters stand for.
snprintf_d(size, x) ==
    LET mag  == IF x < 0 THEN -x ELSE x
        keep == size - 1 - (IF x < 0 THEN 1 ELSE 0)
        d    == decimal_len(mag)
    IN  IF d <= keep THEN x
        ELSE (IF x < 0 THEN -1 ELSE 1) * (mag \div pow10(d - keep))

-----------------------------------------------------------------------------
(* The translator.                                                         *)

\* udhcp_set_dns_servers: one "dns" entry per strtok_r token.
RECURSIVE dns_loop(_)
dns_loop(s) ==
    LET t == strtok_r(s)
    IN  IF t.null THEN <<>> ELSE <<t.tok>> \o dns_loop(t.save)

udhcp_set_dns_servers(a) == IF a.present THEN dns_loop(a.s) ELSE <<>>

\* dhcp_set_dns_servers: the same loop, the NULL test inside the function.
dhcp_set_dns_servers(a) == IF ~a.present THEN <<>> ELSE dns_loop(a.s)

\* Mutant: the metric is the 0-based loop index.
route_metric_from_zero(gw, ip, i) == [gateway |-> gw, source |-> ip, metric |-> i]

\* One default route of the router loop, i being the loop index.
route(gw, ip, i) == [gateway |-> gw, source |-> ip, metric |-> i + 1]

\* The router loop of udhcp4_configure.
RECURSIVE router_loop(_, _, _)
router_loop(s, i, ip) ==
    LET t == strtok_r(s)
    IN  IF t.null THEN <<>> ELSE <<route(t.tok, ip, i)>> \o router_loop(t.save, i + 1, ip)

\* udhcp4_configure's routes: a "source" of NULL (no "ip" attribute) makes
\* blobmsg_add_string call strlen(NULL), and netifd dies of SIGSEGV.
udhcp4_routes(ip, a) ==
    LET r == IF a.present THEN router_loop(a.s, 0, ip) ELSE <<>>
    IN  [crash |-> ip = "NULL" /\ r # <<>>, routes |-> IF ip = "NULL" THEN <<>> ELSE r]

\* Mutant: the MTU test admits 58.
udhcp_mtu_from_58(a) ==
    LET x == strtol_int(a.n)
    IN  IF a.present /\ ~a.n.rest /\ x >= 58 /\ x <= 65535
          THEN [set |-> TRUE, wraps |-> 0, low |-> x] ELSE Unset

\* udhcp4_configure's MTU: the int result, if nothing follows the number,
\* is applied when within 59..65535.
udhcp_mtu(a) ==
    LET x == strtol_int(a.n)
    IN  IF a.present /\ ~a.n.rest /\ x > 58 /\ x <= 65535
          THEN [set |-> TRUE, wraps |-> 0, low |-> x] ELSE Unset

\* udhcp6_configure's "valid" lifetime: added if nothing follows the number.
ip6_lifetime(a) ==
    IF a.present /\ ~a.n.rest THEN blobmsg_add_u32(strtol_int(a.n)) ELSE Unset

\* One attribute of a blobmsg table, added only when cond holds; a table is
\* a function from the names added to their values.
Opt(cond, name, v) == IF cond THEN name :> v ELSE <<>>
OptNum(name, x) == Opt(x.set, name, x)

\* Mutant: the "mask" attribute is never added.
udhcp4_address_no_mask(n) == Opt(n.ip = "ip", "ipaddr", "ip")

\* The "ipaddr" table of udhcp4_configure (and dhcp4_configure): opened
\* whatever the notification holds, with each attribute that is present.
udhcp4_address(n) ==
    Opt(n.ip = "ip", "ipaddr", "ip") @@ Opt(n.subnet, "mask", "mask")

\* The bound/renew branch of udhcp4_configure: the address table, the
\* routes, the DNS list when "dns" is present, and the MTU.
udhcp4_bound(n) ==
    LET r == udhcp4_routes(n.ip, n.router)
    IN  [addrs |-> <<udhcp4_address(n)>>, crash |-> r.crash, routes |-> r.routes,
         dns |-> udhcp_set_dns_servers(n.dns), mtu |-> udhcp_mtu(n.mtu)]

\* dhcp4_configure's BOUND/RENEW/REBIND/REBOOT branch: the same lines with
\* the new_* attribute names, and the DNS list by dhcp_set_dns_servers.
dhcp4_bound(n) ==
    LET r == udhcp4_routes(n.ip, n.router)
    IN  [addrs |-> <<udhcp4_address(n)>>, crash |-> r.crash, routes |-> r.routes,
         dns |-> dhcp_set_dns_servers(n.dns), mtu |-> udhcp_mtu(n.mtu)]

\* udhcp6_configure's bound/renew branch: an "ip6addr" table with the
\* address and the "valid" lifetime, then the DNS list.
udhcp6_bound(n) ==
    [addrs |-> <<Opt(n.ip6 = "ip", "ipaddr", "ip6") @@ OptNum("valid", ip6_lifetime(n.valid))>>,
     crash |-> FALSE, routes |-> <<>>,
     dns |-> udhcp_set_dns_servers(n.dns), mtu |-> Unset]

\* dhcp6_configure's BOUND6/RENEW6/REBIND6 branch: the "ip6addr" table with
\* address, prefix length and both lifetimes, then the DNS list.
dhcp6_bound(n) ==
    [addrs |-> <<Opt(n.ip6 = "ip", "ipaddr", "ip6") @@ Opt(n.prefixlen = "ip", "mask", "prefixlen")
                  @@ OptNum("preferred", ip6_lifetime(n.preferred))
                  @@ OptNum("valid", ip6_lifetime(n.valid))>>,
     crash |-> FALSE, routes |-> <<>>,
     dns |-> dhcp_set_dns_servers(n.dns), mtu |-> Unset]

\* zcip-script: the message holds "reason" and, if zcip exported one, "ip".
zcip_script(env) == [kind |-> "zcip", ip |-> env.ip]

\* zcip_configure's "config" branch: ip/16 of link scope.
zcip_config(m) ==
    [addrs |-> <<Opt(m.ip = "ip", "ipaddr", "ip") @@ ("mask" :> "16") @@ ("scope" :> "link")>>,
     crash |-> FALSE, routes |-> <<>>, dns |-> <<>>, mtu |-> Unset]

\* dhcp_proto_setup: the u32 "dad_wait_time" option, or 5, stored in an int.
dad_wait_time(c) == IF c.present THEN c.low ELSE 5

\* start_dhcp_client: the "--dad-wait-time" argument, written with "%d"
\* into char dad_wait[10]; the value the argument string stands for.
dad_wait_arg(t) == snprintf_d(10, t)

-----------------------------------------------------------------------------
(* The check: each step translates one bound notification of one handler, *)
(* its attributes taken from the bounded sets above.                       *)

Bound4(kind) == [kind : {kind}, ip : IpValues, subnet : BOOLEAN,
                 router : StrAttrs, dns : StrAttrs, mtu : NumAttrs]

Notifications ==
    Bound4("udhcp4") \cup Bound4("dhcp4")
    \cup [kind : {"udhcp6"}, ip6 : IpValues, valid : NumAttrs, dns : StrAttrs]
    \cup [kind : {"dhcp6"}, ip6 : IpValues, prefixlen : IpValues,
          preferred : NumAttrs, valid : NumAttrs, dns : StrAttrs]
    \cup {zcip_script(env) : env \in [ip : IpValues]}

\* The "dad_wait_time" option of a dhcp interface: absent, or a u32 given
\* by its int image, the value being wraps * 2^32 + low.
DadConfigs ==
    {[present |-> FALSE, wraps |-> 0, low |-> 0]}
    \cup {[present |-> TRUE, wraps |-> IF l < 0 THEN 1 ELSE 0, low |-> l] : l \in DadLows}

BoundKinds == {"udhcp4", "dhcp4", "udhcp6", "dhcp6", "zcip"}

EmptyTxn == [addrs |-> <<>>, crash |-> FALSE, routes |-> <<>>, dns |-> <<>>, mtu |-> Unset]

VARIABLES
    case,       \* the notification, as the handler's blobmsg_parse sees it
    txn,        \* the transaction built from it
    done        \* has the translator run?

vars == <<case, txn, done>>

Init ==
    /\ case \in Notifications \cup [kind : {"dhcp_setup"}, dad : DadConfigs]
    /\ txn = EmptyTxn
    /\ done = FALSE

Translate ==
    /\ ~done
    /\ done' = TRUE
    /\ txn' = CASE case.kind = "udhcp4" -> udhcp4_bound(case)
                [] case.kind = "dhcp4"  -> dhcp4_bound(case)
                [] case.kind = "udhcp6" -> udhcp6_bound(case)
                [] case.kind = "dhcp6"  -> dhcp6_bound(case)
                [] case.kind = "zcip"   -> zcip_config(case)
                [] case.kind = "dhcp_setup" ->
                       [dadarg |-> [wraps |-> 0, low |-> dad_wait_arg(dad_wait_time(case.dad))]]
    /\ UNCHANGED case

Spec == Init /\ [][Translate]_vars

-----------------------------------------------------------------------------
(* Reference definitions: what spec 4.3 says the transaction holds.        *)

\* The maximal runs of non-blanks of s, in order.
SpecTokens(s) ==
    LET starts == {i \in 1..Len(s) : s[i] # " " /\ (i = 1 \/ s[i - 1] = " ")}
        runEnd(i) == CHOOSE j \in i..Len(s) :
                        /\ \A k \in i..j : s[k] # " "
                        /\ j = Len(s) \/ s[j + 1] = " "
        order == SetToSortSeq(starts, LAMBDA x, y : x < y)
    IN  [k \in 1..Len(order) |-> SubSeq(s, order[k], runEnd(order[k]))]

SpecList(a) == IF a.present THEN SpecTokens(a.s) ELSE <<>>

\* One default route per router, in order, metric = 1 + position, source =
\* the acquired address.
SpecRoutes(ip, a) ==
    LET gws == SpecList(a)
    IN  [k \in 1..Len(gws) |-> [gateway |-> gws[k], source |-> ip, metric |-> k]]

\* A wholly numeric value.
IsNumber(a) == a.present /\ a.n.digits /\ ~a.n.rest

SpecMtu(a) ==
    IF IsNumber(a) /\ a.n.wraps = 0 /\ a.n.low \in 59..65535
      THEN [set |-> TRUE, wraps |-> 0, low |-> a.n.low] ELSE Unset

\* A non-negative number that fits the 32-bit field, or nothing.
SpecLifetime(a) ==
    IF /\ IsNumber(a)
       /\ \/ a.n.wraps = 0 /\ a.n.low >= 0
          \/ a.n.wraps = 1 /\ a.n.low < 0
      THEN [set |-> TRUE, wraps |-> a.n.wraps, low |-> a.n.low] ELSE Unset

\* One address entry when the address (and, for DHCPv6, the prefix length)
\* is present, none otherwise; IPv4 carries the mask when there is one,
\* zcip's is link-local /16, IPv6 carries the lifetimes that parse.
SpecAddress(n) ==
    CASE n.kind \in {"udhcp4", "dhcp4"} ->
            IF n.ip = "ip"
              THEN <<("ipaddr" :> "ip") @@ Opt(n.subnet, "mask", "mask")>> ELSE <<>>
      [] n.kind = "zcip" ->
            IF n.ip = "ip"
              THEN <<("ipaddr" :> "ip") @@ ("mask" :> "16") @@ ("scope" :> "link")>>
              ELSE <<>>
      [] n.kind = "udhcp6" ->
            IF n.ip6 = "ip"
              THEN <<("ipaddr" :> "ip6") @@ OptNum("valid", SpecLifetime(n.valid))>>
              ELSE <<>>
      [] n.kind = "dhcp6" ->
            IF n.ip6 = "ip" /\ n.prefixlen = "ip"
              THEN <<("ipaddr" :> "ip6") @@ ("mask" :> "prefixlen")
                     @@ OptNum("preferred", SpecLifetime(n.preferred))
                     @@ OptNum("valid", SpecLifetime(n.valid))>>
              ELSE <<>>

(* Properties.                                                             *)

\* The DNS list of every handler is the blank-separated words of its
\* attribute, in order, none empty.
DnsAsSpecified ==
    done /\ case.kind \in BoundKinds \ {"zcip"} => txn.dns = SpecList(case.dns)

\* The router loop emits one route per router in list order, with metrics
\* 1, 2, ... and the lease address as source, and never brings netifd down.
RoutesAsSpecified ==
    done /\ case.kind \in {"udhcp4", "dhcp4"} =>
        ~txn.crash /\ txn.routes = SpecRoutes(case.ip, case.router)

\* An MTU is applied exactly when the attribute is an integer in
\* 59..65535, and then with that value.
MtuAsSpecified ==
    done /\ case.kind \in {"udhcp4", "dhcp4"} => txn.mtu = SpecMtu(case.mtu)

\* Every handler hands netifd one address entry exactly when the lease has
\* an address (DHCPv6: an address and a prefix length), holding what the
\* lease says: the zcip notifier, the parse and the translation together
\* keep the address, mask, scope and lifetimes.
AddressAsSpecified == done /\ case.kind \in BoundKinds => txn.addrs = SpecAddress(case)

\* The DAD-wait timeout that dhcp_proto_setup computes from the
\* configuration (5 when unset) reaches dhclient's "--dad-wait-time"
\* argument unchanged: the argument string stands for the configured value.
DadWaitArgAsSpecified ==
    done /\ case.kind = "dhcp_setup" =>
        txn.dadarg = IF case.dad.present
                       THEN [wraps |-> case.dad.wraps, low |-> case.dad.low]
                       ELSE [wraps |-> 0, low |-> 5]

\* Every conversion from notification or configuration is as spec 4.3
\* and 3 describe.
TranslationAsSpecified ==
    /\ DnsAsSpecified /\ RoutesAsSpecified /\ MtuAsSpecified
    /\ AddressAsSpecified /\ DadWaitArgAsSpecified

=============================================================================

---------------------------- MODULE IscDhcpProto ----------------------------
(***************************************************************************)
(* The ISC-dhclient protocol handler of src/proto-dhcp.c, handlers "dhcp"  *)
(* and "dhcp6" (dhcpv6 selects the reason vocabulary of dhcp_notify),      *)
(* composed with the client, notifier (src/dhcp-script.c), ubus queue and  *)
(* interface of ProtoClient.  Unlike the busybox handler it keeps no       *)
(* teardown flag: TEARDOWN and RENEW do nothing and the exit callback is   *)
(* empty.                                                                  *)
(***************************************************************************)
EXTENDS ProtoClient

CONSTANT dhcpv6     \* dhcp_proto_state.dhcpv6: attached as "dhcp6"

ASSUME dhcpv6 \in BOOLEAN

VARIABLE state      \* dhcp_proto_state.state

vars == <<state, envVars>>

TypeOK ==
    /\ state \in {"IDLE", "SETTING_UP", "DONE"}
    /\ EnvTypeOK

\* The reasons dhcp4_configure / dhcp6_configure act on.
ExpireReasons ==
    IF dhcpv6 THEN {"DEREF6", "EXPIRE6", "RELEASE6", "STOP6"} ELSE {"EXPIRE"}
BindReasons ==
    IF dhcpv6 THEN {"BOUND6", "RENEW6", "REBIND6"}
              ELSE {"BOUND", "RENEW", "REBIND", "REBOOT"}

-----------------------------------------------------------------------------
\* dhcp_attach: DHCP_IDLE, no client.
Init ==
    /\ state = "IDLE"
    /\ EnvInit

\* dhcp_proto_setup: reads dad_wait_time (default 5), writes the dhclient
\* config file and starts dhclient (start_dhcp_client).
dhcp_proto_setup ==
    /\ state' = "SETTING_UP"
    /\ netifd_start_process

\* PROTO_CMD_SETUP.
Setup ==
    /\ ifstate = "down"
    /\ gen < MaxGen
    /\ ifstate' = "setup"
    /\ dhcp_proto_setup
    /\ UNCHANGED <<notifiers, chan, addr>>

\* PROTO_CMD_TEARDOWN and PROTO_CMD_RENEW: dhcp_handler only breaks; the
\* interface is left waiting for the handler's DOWN.
Teardown ==
    /\ ifstate \in {"setup", "up"}
    /\ ifstate' = "teardown"
    /\ UNCHANGED <<state, pending, gen, client, notifiers, chan, addr>>

Renew ==
    /\ ifstate = "up"
    /\ UNCHANGED vars

\* dhcp_notify -> dhcp4_configure / dhcp6_configure: an expiry clears the
\* interface's addressing (interface_update_start + complete) and reports
\* nothing; a bind replaces it with the lease and reports UP.
dhcp_configure(m) ==
    CASE m.reason \in ExpireReasons ->
            /\ addr' = NoAddr
            /\ UNCHANGED <<state, ifstate>>
      [] m.reason \in BindReasons ->
            /\ addr' = m.ip
            /\ state' = "DONE"
            /\ proto_event("UP")
      [] OTHER -> UNCHANGED <<state, addr, ifstate>>

Notify ==
    /\ chan # <<>>
    /\ chan' = Tail(chan)
    /\ dhcp_configure(Head(chan))
    /\ UNCHANGED <<pending, gen, client, notifiers>>

\* uloop reaps dhclient and calls dhcp_process_callback, which is empty.
Reap ==
    /\ pending
    /\ client = "dead"
    /\ pending' = FALSE
    /\ UNCHANGED <<state, gen, client, notifiers, chan, ifstate, addr>>

-----------------------------------------------------------------------------
Next ==
    \/ Setup \/ Teardown \/ Renew \/ Notify \/ Reap
    \/ EnvNext /\ UNCHANGED state

Spec == Init /\ [][Next]_vars /\ WF_vars(Notify) /\ WF_vars(Reap) /\ EnvFairness

=============================================================================

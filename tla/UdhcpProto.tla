----------------------------- MODULE UdhcpProto -----------------------------
(***************************************************************************)
(* The busybox-udhcpc protocol handler of src/proto-udhcp.c, handlers      *)
(* "udhcp" and "udhcp6" (they differ only in the address fields a          *)
(* notification carries, not in control), composed with the client,       *)
(* notifier, ubus queue and interface of ProtoClient.  Everything netifd   *)
(* does runs on one event loop, so every handler and callback is one       *)
(* atomic action.                                                          *)
(***************************************************************************)
EXTENDS ProtoClient

CONSTANT dhcpv6     \* dhcp_proto_state.dhcpv6: attached as "udhcp6"

ASSUME dhcpv6 \in BOOLEAN

VARIABLES
    state,      \* dhcp_proto_state.state
    teardown    \* dhcp_proto_state.teardown

vars == <<state, teardown, envVars>>

TypeOK ==
    /\ state \in {"IDLE", "SETTING_UP", "DONE"}
    /\ teardown \in BOOLEAN
    /\ EnvTypeOK

-----------------------------------------------------------------------------
(* Handler code.                                                           *)

\* udhcp_attach: calloc'ed state, teardown false, DHCP_IDLE, no client.
Init ==
    /\ state = "IDLE"
    /\ teardown = FALSE
    /\ EnvInit

\* start_dhcp_client: udhcpc (or udhcpc6) in the foreground with the
\* notifier as its script and the interface name in its environment.
start_dhcp_client == netifd_start_process

udhcp_proto_setup ==
    /\ state' = "SETTING_UP"
    /\ teardown' = FALSE
    /\ start_dhcp_client

\* PROTO_CMD_SETUP, issued by the interface when it is brought up.
Setup ==
    /\ ifstate = "down"
    /\ gen < MaxGen
    /\ ifstate' = "setup"
    /\ udhcp_proto_setup
    /\ UNCHANGED <<notifiers, chan, addr>>

\* Mutant: the teardown request is not recorded before signalling.
TeardownNoFlag ==
    /\ ifstate \in {"setup", "up"}
    /\ ifstate' = "teardown"
    /\ IF pending
         THEN /\ client' = IF client = "running" THEN "stopping" ELSE client
              /\ UNCHANGED teardown
         ELSE UNCHANGED <<teardown, client>>
    /\ UNCHANGED <<state, pending, gen, notifiers, chan, addr>>

\* PROTO_CMD_TEARDOWN: SIGTERM only if netifd thinks the child is alive.
Teardown ==
    /\ ifstate \in {"setup", "up"}
    /\ ifstate' = "teardown"
    /\ IF pending
         THEN /\ teardown' = TRUE
              /\ client' = IF client = "running" THEN "stopping" ELSE client
         ELSE UNCHANGED <<teardown, client>>
    /\ UNCHANGED <<state, pending, gen, notifiers, chan, addr>>

\* PROTO_CMD_RENEW: SIGUSR1 makes udhcpc renew; its effect on the lease is
\* whatever script the client runs next (ClientScript), so nothing here.
Renew ==
    /\ ifstate = "up"
    /\ UNCHANGED vars

\* Mutant: deconfig outside a teardown clears the addressing silently.
udhcp4_configure_silent(m) ==
    CASE m.reason = "deconfig" ->
            /\ addr' = NoAddr
            /\ IF teardown THEN proto_event("DOWN") ELSE UNCHANGED ifstate
            /\ UNCHANGED state
      [] m.reason \in {"bound", "renew"} ->
            /\ addr' = m.ip
            /\ state' = "DONE"
            /\ proto_event("UP")
      [] OTHER -> UNCHANGED <<state, addr, ifstate>>

\* udhcp_notify -> udhcp4_configure / udhcp6_configure for one queued
\* notification m: deconfig clears the interface's addressing
\* (interface_update_start + complete) and reports DOWN or LINK_LOST;
\* bound/renew replace it with the lease and report UP; others are ignored.
udhcp4_configure(m) ==
    CASE m.reason = "deconfig" ->
            /\ addr' = NoAddr
            /\ proto_event(IF teardown THEN "DOWN" ELSE "LINK_LOST")
            /\ UNCHANGED state
      [] m.reason \in {"bound", "renew"} ->
            /\ addr' = m.ip
            /\ state' = "DONE"
            /\ proto_event("UP")
      [] OTHER -> UNCHANGED <<state, addr, ifstate>>

\* udhcp6_configure: the same three branches; its lease is the "ipv6"
\* attribute.
udhcp6_configure(m) ==
    CASE m.reason = "deconfig" ->
            /\ addr' = NoAddr
            /\ proto_event(IF teardown THEN "DOWN" ELSE "LINK_LOST")
            /\ UNCHANGED state
      [] m.reason \in {"bound", "renew"} ->
            /\ addr' = m.ip
            /\ state' = "DONE"
            /\ proto_event("UP")
      [] OTHER -> UNCHANGED <<state, addr, ifstate>>

\* udhcp_notify: a notification with a reason goes to the configure
\* function of the address family the handler was attached for.
Notify ==
    /\ chan # <<>>
    /\ chan' = Tail(chan)
    /\ IF dhcpv6 THEN udhcp6_configure(Head(chan)) ELSE udhcp4_configure(Head(chan))
    /\ UNCHANGED <<teardown, pending, gen, client, notifiers>>

\* Mutant: every exit is taken for a crash.
callback_ignores_teardown == udhcp_proto_setup

\* Mutant: no exit is taken for a crash.
callback_never_restarts ==
    /\ pending' = FALSE
    /\ UNCHANGED <<state, teardown, gen, client>>

\* dhcp_process_callback: an exit without a teardown request is a crash and
\* the client is set up again at once.
dhcp_process_callback ==
    IF teardown
      THEN /\ pending' = FALSE
           /\ UNCHANGED <<state, teardown, gen, client>>
      ELSE udhcp_proto_setup

\* uloop reaps the tracked child: pending is cleared, then the callback runs.
Reap ==
    /\ pending
    /\ client = "dead"
    /\ dhcp_process_callback
    /\ UNCHANGED <<notifiers, chan, ifstate, addr>>

-----------------------------------------------------------------------------
Next ==
    \/ Setup \/ Teardown \/ Renew \/ Notify \/ Reap
    \/ EnvNext /\ UNCHANGED <<state, teardown>>

\* netifd's event loop eventually handles every queued ubus call and every
\* reaped child.
Spec == Init /\ [][Next]_vars /\ WF_vars(Notify) /\ WF_vars(Reap) /\ EnvFairness

-----------------------------------------------------------------------------
(* Properties.                                                             *)

\* A client that died while not being torn down is eventually replaced by
\* a new one (dhcp_process_callback forks again, which may itself fail),
\* unless a teardown was requested meanwhile.
AutoRestart ==
    (pending /\ client = "dead" /\ ~teardown) ~>
        (client # "dead" \/ teardown)

=============================================================================

------------------------------ MODULE ZcipProto ------------------------------
(***************************************************************************)
(* The zcip link-local protocol handler of src/proto-zcip.c, composed with *)
(* the client, notifier (src/zcip-script.c), ubus queue and interface of   *)
(* ProtoClient.  Its control is that of the udhcp handler except that      *)
(* RENEW signals nothing and "init" is accepted and ignored.  Whether zcip *)
(* reports deconfig on SIGTERM is the constant ReleaseOnTerm: busybox zcip *)
(* is not part of this repository.                                         *)
(***************************************************************************)
EXTENDS ProtoClient

VARIABLES
    state,      \* zcip_proto_state.state
    teardown    \* zcip_proto_state.teardown

vars == <<state, teardown, envVars>>

TypeOK ==
    /\ state \in {"ZCIP_IDLE", "ZCIP_SETTING_UP", "ZCIP_DONE"}
    /\ teardown \in BOOLEAN
    /\ EnvTypeOK

-----------------------------------------------------------------------------
\* zcip_attach: teardown false, ZCIP_IDLE, no client.
Init ==
    /\ state = "ZCIP_IDLE"
    /\ teardown = FALSE
    /\ EnvInit

\* zcip_proto_setup -> start_zcip_client: "zcip -f <dev> zcip-script".
zcip_proto_setup ==
    /\ state' = "ZCIP_SETTING_UP"
    /\ teardown' = FALSE
    /\ netifd_start_process

\* PROTO_CMD_SETUP.
Setup ==
    /\ ifstate = "down"
    /\ gen < MaxGen
    /\ ifstate' = "setup"
    /\ zcip_proto_setup
    /\ UNCHANGED <<notifiers, chan, addr>>

\* PROTO_CMD_TEARDOWN while the child is pending: record the request, then
\* SIGTERM.
RequestTeardown ==
    /\ teardown' = TRUE
    /\ client' = IF client = "running" THEN "stopping" ELSE client

Teardown ==
    /\ ifstate \in {"setup", "up"}
    /\ ifstate' = "teardown"
    /\ IF pending THEN RequestTeardown ELSE UNCHANGED <<teardown, client>>
    /\ UNCHANGED <<state, pending, gen, notifiers, chan, addr>>

\* PROTO_CMD_RENEW: "return 1; // Not implemented".
Renew ==
    /\ ifstate = "up"
    /\ UNCHANGED vars

\* Mutant: a deconfig outside a teardown reports nothing.
deconfig_silent ==
    IF teardown THEN proto_event("DOWN") ELSE UNCHANGED ifstate

\* zcip_configure, "deconfig": empty update transaction, then DOWN if a
\* teardown was requested, LINK_LOST otherwise.
zcip_deconfig ==
    proto_event(IF teardown THEN "DOWN" ELSE "LINK_LOST")

\* zcip_configure for one queued notification: "init" does nothing,
\* "config" installs ip/16 scope link and reports UP.
zcip_configure(m) ==
    CASE m.reason = "deconfig" ->
            /\ addr' = NoAddr
            /\ zcip_deconfig
            /\ UNCHANGED state
      [] m.reason = "config" ->
            /\ addr' = m.ip
            /\ state' = "ZCIP_DONE"
            /\ proto_event("UP")
      [] OTHER -> UNCHANGED <<state, addr, ifstate>>

\* zcip_notify: the reason is always present in what zcip-script sends.
Notify ==
    /\ chan # <<>>
    /\ chan' = Tail(chan)
    /\ zcip_configure(Head(chan))
    /\ UNCHANGED <<teardown, pending, gen, client, notifiers>>

\* Mutant: every exit is taken for a crash.
zcip_callback_ignores_teardown == zcip_proto_setup

\* Mutant: no exit is taken for a crash.
zcip_callback_never_restarts ==
    /\ pending' = FALSE
    /\ UNCHANGED <<state, teardown, gen, client>>

\* zcip_process_callback: restart unless a teardown was requested.
zcip_process_callback ==
    IF teardown
      THEN /\ pending' = FALSE
           /\ UNCHANGED <<state, teardown, gen, client>>
      ELSE zcip_proto_setup

Reap ==
    /\ pending
    /\ client = "dead"
    /\ zcip_process_callback
    /\ UNCHANGED <<notifiers, chan, ifstate, addr>>

\* zcip-script's main once the message is packed: ubus_connect and
\* ubus_lookup_id of the interface object, whose failures return early, then
\* the notify_proto call, which waits at most 1000 ms for netifd.
zcip_script_main(m) == NotifierSend(m) \/ NotifierFail(m)

-----------------------------------------------------------------------------
Next ==
    \/ Setup \/ Teardown \/ Renew \/ Notify \/ Reap
    \/ /\ \/ \E m \in notifiers : zcip_script_main(m)
          \/ \E i \in 1..Len(chan) : NotifierTimeout(i)
          \/ ClientNext
       /\ UNCHANGED <<state, teardown>>

Spec == Init /\ [][Next]_vars /\ WF_vars(Notify) /\ WF_vars(Reap) /\ EnvFairness

\* A zcip that died while not being torn down is eventually replaced by a
\* live one (zcip_process_callback restarts it), unless a teardown was
\* requested meanwhile.
AutoRestart ==
    (pending /\ client = "dead" /\ ~teardown) ~>
        (client # "dead" \/ teardown)

=============================================================================

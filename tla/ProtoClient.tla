---------------------------- MODULE ProtoClient ----------------------------
(***************************************************************************)
(* What every protocol handler of this repository drives and listens to,  *)
(* shared by UdhcpProto, IscDhcpProto and ZcipProto:                       *)
(*                                                                         *)
(*  - the client process (udhcpc, dhclient, zcip: external programs) that  *)
(*    the handler spawns through netifd_start_process, and that runs its   *)
(*    notifier script synchronously on every lease event;                  *)
(*  - the notifier (src/udhcp-script.c, src/dhcp-script.c,                 *)
(*    src/zcip-script.c), a separate process that forwards the event as a  *)
(*    ubus notify_proto call and so outlives a killed client;              *)
(*  - the ubus queue into netifd, FIFO (one socket from ubusd);            *)
(*  - the owning interface (netifd's interface.c), which issues the        *)
(*    commands and reacts to the handler's UP/DOWN/LINK_LOST events.       *)
(*                                                                         *)
(* gen numbers the client processes spawned for the instance; it is a      *)
(* ghost that lets properties tell the live client from a replaced one.   *)
(* A queued message's waits is TRUE while its notifier still blocks in     *)
(* ubus_invoke (holding the client in its script); afterTerm marks the     *)
(* deconfig a client sends once it has received SIGTERM.                   *)
(***************************************************************************)
EXTENDS Naturals, Sequences, FiniteSets

CONSTANTS
    Addrs,          \* lease addresses a server may hand out
    NoAddr,         \* no address configured / field absent
    ScriptReasons,  \* reasons the client passes to its notifier
    LeaseReasons,   \* those of them that carry a lease address
    ReleaseReason,  \* reason the client reports when it releases on SIGTERM
    ReleaseOnTerm,  \* does the client run its script at all on SIGTERM?
    MaxGen,         \* bound on client processes spawned (setups + restarts)
    MaxMsgs,        \* bound on notifications in flight (notifiers + queue)
    ClientMayCrash, \* may the client die without running its script?
    LossyIpc,       \* may a notifier fail to reach netifd (ubus errors)?
    IpcTimeout,     \* may netifd take longer than ubus_invoke's 1000 ms?
    SpawnMayFail    \* may netifd_start_process fail to fork?

ASSUME /\ NoAddr \notin Addrs
       /\ LeaseReasons \subseteq ScriptReasons
       /\ ReleaseReason \in ScriptReasons \ LeaseReasons
       /\ MaxGen \in Nat \ {0} /\ MaxMsgs \in Nat \ {0}
       /\ {ReleaseOnTerm, ClientMayCrash, LossyIpc, IpcTimeout, SpawnMayFail} \subseteq BOOLEAN

VARIABLES
    pending,    \* client.uloop.pending: netifd believes the child is alive
    gen,        \* ghost: number of the client process last spawned, 0 if none
    client,     \* OS state of client process gen
    notifiers,  \* notifier processes started but not yet enqueued on ubus
    chan,       \* ubus notify_proto calls queued towards netifd
    ifstate,    \* state of the owning interface
    addr        \* address the handler last configured on the interface

envVars == <<pending, gen, client, notifiers, chan, ifstate, addr>>

\* A notification, with the state of the notifier that carries it: waits
\* while it is blocked in ubus_invoke for netifd's reply, and the ghost
\* afterTerm, whether its client sent it after receiving SIGTERM.
Msgs == [gen : 1..MaxGen, reason : ScriptReasons, ip : Addrs \cup {NoAddr},
         waits : BOOLEAN, afterTerm : BOOLEAN]
ClientStates == {"none", "running", "stopping", "released", "dead"}
IfStates == {"down", "setup", "up", "teardown"}

EnvTypeOK ==
    /\ pending \in BOOLEAN
    /\ gen \in 0..MaxGen
    /\ client \in ClientStates
    /\ notifiers \subseteq Msgs
    /\ chan \in Seq(Msgs)
    /\ ifstate \in IfStates
    /\ addr \in Addrs \cup {NoAddr}

EnvInit ==
    /\ pending = FALSE
    /\ gen = 0
    /\ client = "none"
    /\ notifiers = {}
    /\ chan = <<>>
    /\ ifstate = "down"
    /\ addr = NoAddr

InFlight == Cardinality(notifiers) + Len(chan)

\* The client runs its script synchronously: it is blocked while one runs,
\* and the notifier runs until netifd has handled its call or ubus_invoke
\* has timed out.
ScriptRunning(g) ==
    \/ \E m \in notifiers : m.gen = g
    \/ \E i \in 1..Len(chan) : chan[i].gen = g /\ chan[i].waits

\* The notification client g sends with reason r.
Msg(g, r, a, term) ==
    [gen |-> g, reason |-> r, ip |-> a, waits |-> TRUE, afterTerm |-> term]

-----------------------------------------------------------------------------
(* The owning interface: UP is taken only while setting up, LINK_LOST only *)
(* while up, DOWN completes a teardown; any other event is ignored.        *)
proto_event(ev) ==
    ifstate' = CASE ev = "UP"        /\ ifstate = "setup"    -> "up"
                 [] ev = "LINK_LOST" /\ ifstate = "up"       -> "setup"
                 [] ev = "DOWN"      /\ ifstate = "teardown" -> "down"
                 [] OTHER                                    -> ifstate

\* netifd_start_process: the previous child, if still tracked, is SIGKILLed
\* and forgotten (no exit callback for it), then a new one is forked.  Its
\* notifiers already running are not killed.
netifd_start_process ==
    /\ gen' = gen + 1
    /\ \/ /\ client' = "running"
          /\ pending' = TRUE
       \/ /\ SpawnMayFail
          /\ client' = "none"
          /\ pending' = FALSE

\* The notifier's main: it queues its notify_proto call on ubus and waits
\* for the reply ...
NotifierSend(m) ==
    /\ m \in notifiers
    /\ notifiers' = notifiers \ {m}
    /\ chan' = Append(chan, m)
    /\ UNCHANGED <<pending, gen, client, ifstate, addr>>

\* ... or returns early when ubus_connect or ubus_lookup_id fails ...
NotifierFail(m) ==
    /\ LossyIpc
    /\ m \in notifiers
    /\ notifiers' = notifiers \ {m}
    /\ UNCHANGED <<pending, gen, client, chan, ifstate, addr>>

\* ... or gives up on the reply after 1000 ms while the call stays queued.
NotifierTimeout(i) ==
    /\ IpcTimeout
    /\ chan[i].waits
    /\ chan' = [chan EXCEPT ![i].waits = FALSE]
    /\ UNCHANGED <<pending, gen, client, notifiers, ifstate, addr>>

-----------------------------------------------------------------------------
(* The client process (external program).                                 *)

\* A running client obtains, renews or loses a lease and runs its script.
ClientScript ==
    /\ client = "running"
    /\ ~ScriptRunning(gen)
    /\ InFlight < MaxMsgs
    /\ \E r \in ScriptReasons, a \in Addrs :
         notifiers' = notifiers \cup
            {Msg(gen, r, IF r \in LeaseReasons THEN a ELSE NoAddr, FALSE)}
    /\ UNCHANGED <<pending, gen, client, chan, ifstate, addr>>

\* On SIGTERM the client releases its lease and runs its script, or, if
\* it does not handle SIGTERM, just dies ...
ClientRelease ==
    /\ client = "stopping"
    /\ ~ScriptRunning(gen)
    /\ IF ReleaseOnTerm
         THEN /\ notifiers' = notifiers \cup {Msg(gen, ReleaseReason, NoAddr, TRUE)}
              /\ client' = "released"
         ELSE /\ client' = "dead"
              /\ UNCHANGED notifiers
    /\ UNCHANGED <<pending, gen, chan, ifstate, addr>>

\* ... and exits once the script has returned.
ClientExit ==
    /\ client = "released"
    /\ ~ScriptRunning(gen)
    /\ client' = "dead"
    /\ UNCHANGED <<pending, gen, notifiers, chan, ifstate, addr>>

\* The client dies at any point without running a script (signal, crash).
ClientCrash ==
    /\ ClientMayCrash
    /\ client \in {"running", "stopping", "released"}
    /\ gen < MaxGen
    /\ client' = "dead"
    /\ UNCHANGED <<pending, gen, notifiers, chan, ifstate, addr>>

\* Every step of the client process.
ClientNext == ClientScript \/ ClientRelease \/ ClientExit \/ ClientCrash

\* Every step of the environment.
EnvNext ==
    \/ \E m \in notifiers : NotifierSend(m) \/ NotifierFail(m)
    \/ \E i \in 1..Len(chan) : NotifierTimeout(i)
    \/ ClientNext

\* A notifier eventually finishes; the client acts on SIGTERM.
EnvFairness ==
    /\ \A m \in Msgs : WF_envVars(NotifierSend(m))
    /\ WF_envVars(ClientRelease)
    /\ WF_envVars(ClientExit)

-----------------------------------------------------------------------------
(* Properties every handler is checked against.                            *)

\* While the interface believes it is up, the handler has a lease address
\* configured on it: every path that clears the addressing also moves the
\* interface out of "up".
UpHasLease == ifstate = "up" => addr # NoAddr

\* Every TEARDOWN eventually completes: the handler reports DOWN and the
\* interface reaches "down".
TeardownCompletes == (ifstate = "teardown") ~> (ifstate = "down")

\* Once TEARDOWN was issued, no client is spawned until the next SETUP:
\* the exit of the torn-down client must not be taken for a crash by the
\* handler's exit callback.
NoRespawnAfterTeardown ==
    [][(ifstate \in {"teardown", "down"} /\ gen' # gen) => ifstate' = "setup"]_envVars

=============================================================================

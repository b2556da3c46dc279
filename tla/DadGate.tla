------------------------------ MODULE DadGate ------------------------------
(***************************************************************************)
(* One run of the ISC notifier src/dhcp-script.c: it forwards the event to *)
(* netifd over ubus and, for PREINIT6, holds dhclient (which runs it       *)
(* synchronously) until the kernel reports a non-tentative link-local      *)
(* IPv6 address on the interface or SIGALRM ends the wait (wait_for_dad).  *)
(*                                                                         *)
(* Time is counted in ticks of the poll interval, usleep(100000); it       *)
(* passes only while the script sleeps, the netlink dump being taken as    *)
(* instantaneous.  The kernel's address table is the environment: an      *)
(* address appears tentative and DAD may or may not ever complete.         *)
(***************************************************************************)
EXTENDS Integers

CONSTANTS
    Reasons,        \* values of the "reason" variable dhclient exports
    DadWaitValues,  \* values of the "dad_wait_time" variable, see below
    MaxTicks,       \* bound on time, beyond any alarm the script arms
    LossyIpc,       \* may ubus_connect or ubus_lookup_id fail?
    SocketMayFail   \* may create_socket return NULL?

ASSUME /\ "PREINIT6" \in Reasons
       /\ 0 \in DadWaitValues
       /\ MaxTicks \in Nat
       /\ {LossyIpc, SocketMayFail} \subseteq BOOLEAN

TicksPerSec == 10       \* usleep(100000)

(* The "dad_wait_time" environment string, by what strtol does with it:    *)
(* whether it is set, whether it starts with a number, the value of that   *)
(* number (0 if none) and whether characters follow it.                    *)
DadWaitStrings ==
    {s \in [present : BOOLEAN, digits : BOOLEAN, num : DadWaitValues,
            rest : BOOLEAN] :
        /\ ~s.present => ~s.digits /\ ~s.rest
        /\ ~s.digits => s.num = 0}

(* The kernel's IPv6 addresses that matter, by interface and scope; the    *)
(* value of each is "absent", "tentative" or "permanent".                  *)
AddrKeys == {<<"target", "link">>, <<"target", "global">>, <<"other", "link">>}
AddrStates == {"absent", "tentative", "permanent"}

VARIABLES
    reason,         \* getenv("reason")
    hasInterface,   \* getenv("interface") != NULL
    ifindexOk,      \* if_nametoindex(interface) != 0
    dadWait,        \* getenv("dad_wait_time")
    pc,             \* where main / wait_for_dad is
    timeout,        \* the timeout passed to wait_for_dad
    sock,           \* the netlink socket: "none", "ok" or "null"
    alarmAt,        \* tick at which SIGALRM is due, -1 if not armed
    gTimeout,       \* set by alarm_hdl
    now,            \* ticks since the script started
    kernel          \* the kernel's address table

inputs == <<reason, hasInterface, ifindexOk, dadWait>>
script == <<pc, timeout, sock, alarmAt, gTimeout, now>>
vars == <<inputs, script, kernel>>

Pcs == {"notify", "preinit", "poll", "sleep", "exit", "crashed"}

TypeOK ==
    /\ reason \in Reasons /\ hasInterface \in BOOLEAN /\ ifindexOk \in BOOLEAN
    /\ dadWait \in DadWaitStrings
    /\ pc \in Pcs
    /\ timeout \in DadWaitValues \cup {0, 5}
    /\ sock \in {"none", "ok", "null"}
    /\ alarmAt \in -1..MaxTicks
    /\ gTimeout \in BOOLEAN
    /\ now \in 0..MaxTicks
    /\ kernel \in [AddrKeys -> AddrStates]

-----------------------------------------------------------------------------
\* main, lines 155-162: absent or not wholly numeric means 5 seconds; an
\* empty string is 0 (strtol consumes nothing and end points at the NUL).
dad_wait_timeout(s) ==
    IF ~s.present \/ s.rest THEN 5 ELSE s.num

\* Mutant: nl_callback without the IFA_F_TENTATIVE test.
nl_callback_any_flags(k, st) ==
    k = <<"target", "link">> /\ st # "absent"

\* nl_callback, for one RTM_NEWADDR of the dump: an address of the
\* interface's index, of link scope, without IFA_F_TENTATIVE.
nl_callback(k, st) ==
    k = <<"target", "link">> /\ st = "permanent"

\* interface_has_permanent_local_address: an RTM_GETADDR dump of the IPv6
\* addresses, stopped by the first that nl_callback accepts.
interface_has_permanent_local_address ==
    \E k \in AddrKeys : kernel[k] # "absent" /\ nl_callback(k, kernel[k])

\* A run of the script starts from whatever dhclient put in its
\* environment, with the kernel's table as it is.
Init ==
    /\ reason \in Reasons
    /\ hasInterface \in BOOLEAN
    /\ ifindexOk \in BOOLEAN
    /\ dadWait \in DadWaitStrings
    /\ pc = "notify"
    /\ timeout = 0
    /\ sock = "none"
    /\ alarmAt = -1
    /\ gTimeout = FALSE
    /\ now = 0
    /\ kernel \in [AddrKeys -> AddrStates]

\* main, lines 132-148: ubus_connect and ubus_lookup_id failures return
\* at once; the result of ubus_invoke is only logged.
NotifyProto ==
    /\ pc = "notify"
    /\ \/ pc' = "preinit"
       \/ LossyIpc /\ pc' = "exit"
    /\ UNCHANGED <<inputs, kernel, timeout, sock, alarmAt, gTimeout, now>>

\* Mutant: the alarm is armed a second late.
arm_alarm_late(t) == alarmAt' = now + (t + 1) * TicksPerSec

\* signal(SIGALRM, alarm_hdl); alarm(timeout).
arm_alarm(t) == alarmAt' = now + t * TicksPerSec

\* create_socket: nl_socket_alloc or nl_connect may fail.
create_socket ==
    \/ sock' = "ok"
    \/ SocketMayFail /\ sock' = "null"

\* wait_for_dad, lines 94-101: no wait for an unknown interface or a
\* timeout <= 0; otherwise open the socket and arm the alarm.
wait_for_dad(t) ==
    IF ~ifindexOk \/ t <= 0
      THEN /\ pc' = "exit"
           /\ UNCHANGED <<sock, alarmAt>>
      ELSE /\ create_socket
           /\ arm_alarm(t)
           /\ pc' = "poll"

\* main, lines 150-165: only PREINIT6 with an interface waits for DAD.
Preinit ==
    /\ pc = "preinit"
    /\ IF reason = "PREINIT6" /\ hasInterface
         THEN /\ timeout' = dad_wait_timeout(dadWait)
              /\ wait_for_dad(timeout')
         ELSE /\ pc' = "exit"
              /\ UNCHANGED <<timeout, sock, alarmAt>>
    /\ UNCHANGED <<inputs, kernel, gTimeout, now>>

\* Mutant: the loop does not test gTimeout.
PollNoTimeout ==
    /\ pc = "poll"
    /\ pc' = CASE sock = "null"                             -> "crashed"
               [] interface_has_permanent_local_address     -> "exit"
               [] OTHER                                     -> "sleep"
    /\ UNCHANGED <<inputs, kernel, timeout, sock, alarmAt, gTimeout, now>>

\* The loop test of line 103 and nl_close: a NULL socket is dereferenced
\* by nl_send_auto_complete (or nl_close) and the script dies of SIGSEGV.
Poll ==
    /\ pc = "poll"
    /\ pc' = CASE sock = "null"                             -> "crashed"
               [] gTimeout                                  -> "exit"
               [] interface_has_permanent_local_address     -> "exit"
               [] OTHER                                     -> "sleep"
    /\ UNCHANGED <<inputs, kernel, timeout, sock, alarmAt, gTimeout, now>>

\* usleep(100000); a due SIGALRM interrupts it at once.
Sleep ==
    /\ pc = "sleep"
    /\ now < MaxTicks
    /\ now' = IF now < alarmAt THEN now + 1 ELSE now
    /\ pc' = "poll"
    /\ UNCHANGED <<inputs, kernel, timeout, sock, alarmAt, gTimeout>>

\* alarm_hdl.
Alarm ==
    /\ alarmAt >= 0 /\ now >= alarmAt
    /\ ~gTimeout
    /\ gTimeout' = TRUE
    /\ UNCHANGED <<inputs, kernel, pc, timeout, sock, alarmAt, now>>

\* The kernel adds an address (tentative until DAD) or finishes DAD on it.
KernelAddrAdd(k) ==
    /\ kernel[k] = "absent"
    /\ kernel' = [kernel EXCEPT ![k] = "tentative"]
    /\ UNCHANGED <<inputs, script>>

KernelDadDone(k) ==
    /\ kernel[k] = "tentative"
    /\ kernel' = [kernel EXCEPT ![k] = "permanent"]
    /\ UNCHANGED <<inputs, script>>

ScriptStep == NotifyProto \/ Preinit \/ Poll \/ Sleep

Next ==
    \/ ScriptStep \/ Alarm
    \/ \E k \in AddrKeys : KernelAddrAdd(k) \/ KernelDadDone(k)

\* The script runs until it exits and a due alarm is delivered; the
\* kernel need never finish DAD.
Spec == Init /\ [][Next]_vars /\ WF_vars(ScriptStep) /\ WF_vars(Alarm)

-----------------------------------------------------------------------------
(* Properties: the gate spec 4.4 describes.                                *)

\* The script has returned (or died), so dhclient goes on.
ScriptEnded == pc \in {"exit", "crashed"}

\* The run is one spec 4.4 says waits: PREINIT6, an interface name that
\* resolves, and a positive timeout.
Gated ==
    /\ reason = "PREINIT6" /\ hasInterface /\ ifindexOk
    /\ dad_wait_timeout(dadWait) > 0

\* The kernel has finished DAD on a link-local address of the interface.
LinkLocalPermanent == kernel[<<"target", "link">>] = "permanent"

\* dhclient is released from a gated PREINIT6 only when the interface has
\* a permanent link-local address or the full timeout has passed: neither
\* a tentative address, nor one of another interface or scope, nor an ubus
\* or netlink failure ends the wait early.
DadGateHonoured ==
    (ScriptEnded /\ Gated) =>
        (LinkLocalPermanent \/ now >= TicksPerSec * dad_wait_timeout(dadWait))

\* The ticks after which the gate gives up: spec 4.4's timeout for a
\* gated run, none for the others.
Deadline == IF Gated THEN TicksPerSec * dad_wait_timeout(dadWait) ELSE 0

\* The notifier seen as the gate of spec 4.4: dhclient is held while the
\* script runs, time is the script's, and the kernel is ready when the
\* interface has a permanent link-local address.
Gate == INSTANCE DadWait WITH
            MaxDeadline <- MaxTicks,
            held <- ~ScriptEnded,
            elapsed <- now,
            deadline <- Deadline,
            ready <- LinkLocalPermanent

\* The notifier implements the gate: it releases dhclient only on a
\* permanent link-local address of the interface or at the deadline,
\* never sleeps past the deadline (SIGALRM ends the poll loop within the
\* tick it is due), and always returns, even when DAD never completes.
ImplementsDadWait == Gate!Spec

=============================================================================

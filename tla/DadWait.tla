------------------------------- MODULE DadWait -------------------------------
(***************************************************************************)
(* The DAD gate as spec 4.4 states it, with no ubus, netlink, alarm or     *)
(* poll loop: dhclient is held by the notifier until the interface has a   *)
(* non-tentative link-local address or the deadline has passed, whichever  *)
(* comes first, and time passes only while it is held and before the       *)
(* deadline.  A deadline of 0 stands for every run that does not wait (not *)
(* PREINIT6, no interface, an unknown interface, a timeout <= 0).  Time is *)
(* in ticks of the poll interval.                                          *)
(***************************************************************************)
EXTENDS Naturals

CONSTANT MaxDeadline

VARIABLES
    held,       \* dhclient is blocked in the notifier
    elapsed,    \* ticks since the notifier started
    deadline,   \* ticks after which the wait is abandoned
    ready       \* the interface has a permanent link-local address

gvars == <<held, elapsed, deadline, ready>>

Init ==
    /\ held = TRUE
    /\ elapsed = 0
    /\ deadline \in 0..MaxDeadline
    /\ ready \in BOOLEAN

\* One poll interval passes with dhclient still held.
Tick ==
    /\ held
    /\ elapsed < deadline
    /\ elapsed' = elapsed + 1
    /\ UNCHANGED <<held, deadline, ready>>

\* The wait ends successfully or by timeout, never otherwise.
Release ==
    /\ held
    /\ ready \/ elapsed >= deadline
    /\ held' = FALSE
    /\ UNCHANGED <<elapsed, deadline, ready>>

\* The kernel completes DAD on a link-local address; it stays permanent.
Ready ==
    /\ ~ready
    /\ ready' = TRUE
    /\ UNCHANGED <<held, elapsed, deadline>>

Next == Tick \/ Release \/ Ready

\* A run that may end does end.
Spec == Init /\ [][Next]_gvars /\ WF_gvars(Release)

=============================================================================

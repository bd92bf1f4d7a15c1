------------------------------- MODULE Netif -------------------------------
(***************************************************************************)
(* platform/netif.c: how the console's IPv4 address is read from nifm and  *)
(* how a change of it is detected.  ip is nifm's answer (external), NoAddr *)
(* standing for a failed query, address 0 or loopback, which               *)
(* netif_current_ipv4 all reports as "no usable address".                  *)
(***************************************************************************)
EXTENDS Naturals

CONSTANTS
    Addrs,         \* usable IPv4 addresses
    NoAddr,        \* no usable address
    MaxIpChanges   \* bound: changes of the address

ASSUME NetifAssumption == NoAddr \notin Addrs /\ MaxIpChanges \in Nat

VARIABLES
    ip,                \* external: what nifm answers now
    ip_changes,        \* changes so far
    g_have_last_addr,  \* the baseline has been taken
    g_last_addr        \* the address seen by the previous check

lastVars  == <<g_have_last_addr, g_last_addr>>
netifVars == <<ip, ip_changes, lastVars>>

NetifRanges ==
    /\ ip \in Addrs \cup {NoAddr}
    /\ ip_changes \in 0..MaxIpChanges
    /\ g_last_addr \in Addrs \cup {NoAddr}

NetifInit ==
    /\ ip \in Addrs \cup {NoAddr}
    /\ ip_changes = 0
    /\ g_have_last_addr = FALSE
    /\ g_last_addr = NoAddr

\* External: DHCP, wifi or airplane mode changes the address.
IpChange(a) ==
    /\ ip_changes < MaxIpChanges
    /\ a # ip
    /\ ip' = a
    /\ ip_changes' = ip_changes + 1
    /\ UNCHANGED lastVars

netif_ipv4_changed(changed) ==
    /\ g_have_last_addr' = TRUE
    /\ g_last_addr' = ip
    /\ changed = (g_have_last_addr /\ ip # g_last_addr)
    /\ UNCHANGED <<ip, ip_changes>>
=============================================================================

------------------------------ MODULE Network ------------------------------
(***************************************************************************)
(* features/network: the DNS settings of the active connection's profile.  *)
(* nifm is external: saving a profile makes it reconnect, and until it has *)
(* neither the connection nor the profile can be read (network.c:76-78).   *)
(***************************************************************************)
EXTENDS Integers, Sequences

CONSTANTS
    Servers,   \* addresses that parse
    NoServer,  \* the empty string, and 0.0.0.0
    Malformed  \* a string str_to_ip refuses

Addresses == Servers \cup {NoServer}

(* No address is written the way this module writes "given by DHCP".       *)
ASSUME NetworkAssumption == "dhcp" \notin Addresses

Dhcp == [primary |-> "dhcp", secondary |-> "dhcp"]

VARIABLES
    profile,     \* external: the saved profile's DNS setting
    link,        \* external: connected, and the servers in use
    dns,         \* the request under way or the last answer
    meddled      \* history: the owner changed the profile since the request
                 \* began, or since it saved

networkVars == <<profile, link, dns, meddled>>

InUse(p) ==
    IF p.automatic THEN Dhcp ELSE [primary |-> p.primary, secondary |-> p.secondary]
Answered(r) == [at |-> "answered", result |-> r]

NetworkInit ==
    /\ profile \in [automatic : BOOLEAN, primary : Addresses, secondary : Addresses]
    /\ link = [up |-> TRUE, servers |-> InUse(profile)]
    /\ dns = Answered("none")
    /\ meddled = FALSE

(* ---- nifm and the owner ---- *)

Drops ==
    /\ link.up
    /\ link' = [link EXCEPT !.up = FALSE]
    /\ UNCHANGED <<profile, dns, meddled>>

Reconnects ==
    /\ ~link.up
    /\ link' = [up |-> TRUE, servers |-> InUse(profile)]
    /\ UNCHANGED <<profile, dns, meddled>>

OwnerEdits ==
    /\ profile' \in [automatic : BOOLEAN, primary : Servers, secondary : {NoServer}]
    /\ link' = [link EXCEPT !.up = FALSE]
    /\ meddled' = TRUE
    /\ UNCHANGED dns

(* ---- reading ---- *)

(* network_get_dns: the effective servers first, then the profile.         *)
GetIpConfig ==
    /\ dns.at = "answered"
    /\ dns' = IF link.up THEN [at |-> "profile", servers |-> link.servers]
              ELSE Answered("UNAVAILABLE")
    /\ meddled' = FALSE
    /\ UNCHANGED <<profile, link>>

Got(automatic) ==
    [at |-> "answered", result |-> "OK", automatic |-> automatic, servers |-> dns.servers]

(* Bug: a profile that cannot be read is taken to be automatic.            *)
network_get_dns_guesses ==
    /\ dns.at = "profile"
    /\ dns' = Got(~link.up \/ profile.automatic)
    /\ UNCHANGED <<profile, link, meddled>>

network_get_dns ==
    /\ dns.at = "profile"
    /\ dns' = IF link.up THEN Got(profile.automatic) ELSE Answered("UNAVAILABLE")
    /\ UNCHANGED <<profile, link, meddled>>

(* ---- writing ---- *)

(* network_dns_from_json: automatic, or at least a primary server.         *)
network_dns_from_json(automatic, primary) == automatic \/ primary # NoServer

str_to_ip(s) == s \in Servers

(* apply_dns reads the profile and changes its copy; the manual servers    *)
(* of an automatic profile are left in it.                                 *)
apply_dns(automatic, primary, secondary) ==
    /\ dns' = IF ~link.up THEN Answered("UNAVAILABLE")
              ELSE [at |-> "save",
                    asked |-> IF automatic THEN Dhcp
                              ELSE [primary |-> primary, secondary |-> secondary],
                    prof |-> IF automatic THEN [profile EXCEPT !.automatic = TRUE]
                             ELSE [automatic |-> FALSE, primary |-> primary,
                                   secondary |-> secondary]]
    /\ UNCHANGED <<profile, link>>

(* nifmSetNetworkProfile: the copy replaces the profile, whatever became   *)
(* of it or of the connection since it was read.                           *)
SetNetworkProfile ==
    /\ dns.at = "save"
    /\ \/ /\ dns' = Answered("FAILED")
          /\ UNCHANGED <<profile, link, meddled>>
       \/ /\ profile' = dns.prof
          /\ link' = [link EXCEPT !.up = FALSE]
          /\ dns' = [at |-> "answered", result |-> "SET", asked |-> dns.asked]
          /\ meddled' = FALSE

network_set_dns(automatic, primary, secondary) ==
    IF automatic \/ (str_to_ip(primary) /\ (secondary = NoServer \/ str_to_ip(secondary)))
      THEN apply_dns(automatic, primary, secondary)
      ELSE dns' = Answered("INVALID") /\ UNCHANGED <<profile, link>>

post_dns(automatic, primary, secondary) ==
    /\ dns.at = "answered"
    /\ IF network_dns_from_json(automatic, primary)
         THEN network_set_dns(automatic, primary, secondary)
         ELSE dns' = Answered("INVALID") /\ UNCHANGED <<profile, link>>
    /\ meddled' = FALSE

(* The handlers of REST and MCP: read the arguments, make the call, answer *)
(* with what it returned.                                                  *)
get_dns == GetIpConfig
tool_get_dns == GetIpConfig
tool_set_dns(automatic, primary, secondary) == post_dns(automatic, primary, secondary)

Arguments == Addresses \cup {Malformed}
NetworkNext ==
    \/ Drops \/ Reconnects \/ OwnerEdits \/ get_dns \/ tool_get_dns \/ network_get_dns
    \/ SetNetworkProfile
    \/ \E automatic \in BOOLEAN, primary, secondary \in Arguments :
          post_dns(automatic, primary, secondary) \/ tool_set_dns(automatic, primary, secondary)

(* network.c:95-96 "Do not guess when it cannot be read: "automatic" next  *)
(* to manual servers is worse than an error": mode and servers of an       *)
(* answer belong together, over drops and reconnections between the calls, *)
(* unless the owner changed the profile in between.  A change that was     *)
(* confirmed is what the next connection uses, also when the connection    *)
(* dropped or the owner changed the profile between the read and the save: *)
(* what the owner changed there is overwritten.                            *)
DnsNotGuessed ==
    dns.at = "answered" /\ ~meddled =>
        /\ dns.result = "OK" => (dns.automatic <=> dns.servers = Dhcp)
        /\ dns.result = "SET" => InUse(profile) = dns.asked
=============================================================================

------------------------------ MODULE Features ------------------------------
(***************************************************************************)
(* The parts of the server that keep little state and share none: the      *)
(* route tables, the answer to an mDNS query, the crash reports, the DNS   *)
(* setting, the console's settings, JSON and what is read from the card.   *)
(* A request reaches one of them, so a behaviour is about one, its subject. *)
(***************************************************************************)
EXTENDS Crash, Network, Settings, MdnsQuery, Router, Json, FileReads

VARIABLE subject

vars == <<subject, reports, networkVars, settingsVars, mdnsVars, routerVars,
          jsonUse, shown>>

Subjects == {"crash", "dns", "settings", "clock", "mdns", "route",
             "json", "files"}

Limits == 0..(MaxReports + 1)
CrashInit == reports = NoReports
CrashNext == \E limit \in Limits : get_reports(limit) \/ tool_list_crash_reports(limit)

(* A list of reports, an answer to a query and a dispatch leave nothing    *)
(* behind: one of them is followed from every state it can start in.       *)
(* The parts that are not the subject stay in one initial state.           *)
Init ==
    /\ subject \in Subjects
    /\ CrashInit /\ NetworkInit /\ settings_init /\ MdnsInit /\ RouterInit
    /\ JsonInit /\ ReadsInit
    /\ subject # "dns" => profile = [automatic |-> TRUE, primary |-> NoServer,
                                      secondary |-> NoServer]
    /\ subject # "settings" => opened = {} /\ range = CHOOSE r \in VolumeRanges : TRUE
    /\ subject # "clock" => console.clock = CHOOSE d \in Dates : TRUE
    /\ subject # "mdns" => txt = CHOOSE t \in TxtSizes : TRUE
    /\ subject # "route" => ini = CHOOSE i \in IniFiles : TRUE

CrashStep ==
    /\ subject = "crash" /\ reports = NoReports /\ CrashNext
    /\ UNCHANGED <<networkVars, settingsVars, mdnsVars, routerVars, jsonUse, shown>>
DnsStep ==
    /\ subject = "dns" /\ NetworkNext
    /\ UNCHANGED <<reports, settingsVars, mdnsVars, routerVars, jsonUse, shown>>
SettingStep ==
    /\ subject = "settings" /\ SettingsNext
    /\ UNCHANGED <<reports, networkVars, mdnsVars, routerVars, jsonUse, shown>>
ClockStep ==
    /\ subject = "clock" /\ ClockNext
    /\ UNCHANGED <<reports, networkVars, mdnsVars, routerVars, jsonUse, shown>>
MdnsStep ==
    /\ subject = "mdns" /\ dgram = NoDatagram
    /\ mdns_handle_readable \/ mdns_announce
    /\ UNCHANGED <<reports, networkVars, settingsVars, routerVars, jsonUse, shown>>
RouteStep ==
    /\ subject = "route" /\ handled = Nothing /\ RouterNext
    /\ UNCHANGED <<reports, networkVars, settingsVars, mdnsVars, jsonUse, shown>>
JsonStep ==
    /\ subject = "json" /\ jsonUse = NoUse /\ JsonNext
    /\ UNCHANGED <<reports, networkVars, settingsVars, mdnsVars, routerVars, shown>>
ReadsStep ==
    /\ subject = "files" /\ shown = NotShown /\ ReadsNext
    /\ UNCHANGED <<reports, networkVars, settingsVars, mdnsVars, routerVars, jsonUse>>

Next ==
    /\ CrashStep \/ DnsStep \/ SettingStep \/ ClockStep \/ MdnsStep \/ RouteStep
       \/ JsonStep \/ ReadsStep
    /\ UNCHANGED subject

Spec == Init /\ [][Next]_vars
=============================================================================

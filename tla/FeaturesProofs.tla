--------------------------- MODULE FeaturesProofs ---------------------------
(***************************************************************************)
(* Proofs about the DNS setting, the console's settings, the               *)
(* configuration, the dispatch of requests, the crash reports, what is     *)
(* read from the card and the answers to mDNS queries.                     *)
(***************************************************************************)
EXTENDS Features, FiniteSetTheorems, WellFoundedInduction, TLAPS

(* ---- the DNS setting ---- *)

(* A connection uses the servers of the profile as it was saved last, so   *)
(* the servers a request read first belong to the mode it reads next, over *)
(* any drop and reconnection in between.                                   *)
Profiles == [automatic : BOOLEAN, primary : Addresses, secondary : Addresses]
InUses == [primary : Addresses \cup {"dhcp"}, secondary : Addresses \cup {"dhcp"}]
LinkFollowsProfile ==
    /\ profile \in Profiles /\ meddled \in BOOLEAN
    /\ link \in [up : BOOLEAN, servers : InUses]
    /\ link.up => link.servers = InUse(profile)
ReadIsInUse == dns.at = "profile" /\ ~meddled => dns.servers = InUse(profile)

(* The copy that will be saved asks for what the request asked for.        *)
SavesWhatIsAsked == dns.at = "save" => dns.prof \in Profiles /\ InUse(dns.prof) = dns.asked
DnsInvariant == LinkFollowsProfile /\ ReadIsInUse /\ SavesWhatIsAsked /\ DnsNotGuessed

LEMMA InUseTells ==
    ASSUME NEW p \in Profiles
    PROVE  InUse(p) \in InUses /\ (p.automatic <=> InUse(p) = Dhcp)
BY NetworkAssumption DEF Profiles, InUses, InUse, Dhcp, Addresses

LEMMA DnsInit == Init => DnsInvariant
<1> SUFFICES ASSUME Init PROVE DnsInvariant
  OBVIOUS
<1>1. NetworkInit
  BY DEF Init
<1>2. profile \in Profiles
  BY <1>1 DEF NetworkInit, Profiles
<1> QED
  BY <1>1, <1>2, InUseTells
  DEF NetworkInit, DnsInvariant, LinkFollowsProfile, ReadIsInUse, SavesWhatIsAsked, DnsNotGuessed, Answered

(* The console's side, and a read of either kind.                          *)
LEMMA DnsConsole ==
    ASSUME DnsInvariant, Drops \/ Reconnects \/ OwnerEdits
    PROVE  DnsInvariant'
<1>1. CASE Drops
  BY <1>1 DEF Drops, DnsInvariant, LinkFollowsProfile, ReadIsInUse, SavesWhatIsAsked, DnsNotGuessed
<1>2. CASE Reconnects
  BY <1>2, InUseTells DEF Reconnects, DnsInvariant, LinkFollowsProfile, ReadIsInUse, SavesWhatIsAsked, DnsNotGuessed
<1>3. CASE OwnerEdits
  <2>1. profile' \in Profiles
    BY <1>3 DEF OwnerEdits, Profiles, Addresses
  <2> QED
    BY <1>3, <2>1 DEF OwnerEdits, DnsInvariant, LinkFollowsProfile, ReadIsInUse, SavesWhatIsAsked, DnsNotGuessed
<1> QED
  BY <1>1, <1>2, <1>3

LEMMA DnsRead ==
    ASSUME DnsInvariant, GetIpConfig \/ network_get_dns
    PROVE  DnsInvariant'
<1>1. CASE GetIpConfig
  <2>1. LinkFollowsProfile'
    BY <1>1 DEF GetIpConfig, DnsInvariant, LinkFollowsProfile
  <2>2. CASE link.up
    BY <1>1, <2>1, <2>2
    DEF GetIpConfig, DnsInvariant, LinkFollowsProfile, ReadIsInUse, SavesWhatIsAsked, DnsNotGuessed
  <2>3. CASE ~link.up
    BY <1>1, <2>1, <2>3
    DEF GetIpConfig, DnsInvariant, ReadIsInUse, SavesWhatIsAsked, DnsNotGuessed, Answered
  <2> QED
    BY <2>2, <2>3
<1>2. CASE network_get_dns
  <2>1. LinkFollowsProfile'
    BY <1>2 DEF network_get_dns, DnsInvariant, LinkFollowsProfile
  <2>2. CASE link.up
    <3>1. profile \in Profiles /\ (~meddled => dns.servers = InUse(profile))
      BY <1>2 DEF network_get_dns, DnsInvariant, LinkFollowsProfile, ReadIsInUse
    <3>2. ~meddled => (profile.automatic <=> dns.servers = Dhcp)
      BY <3>1, InUseTells
    <3> QED
      BY <1>2, <2>1, <2>2, <3>2
      DEF network_get_dns, Got, DnsInvariant, ReadIsInUse, SavesWhatIsAsked, DnsNotGuessed
  <2>3. CASE ~link.up
    BY <1>2, <2>1, <2>3
    DEF network_get_dns, DnsInvariant, ReadIsInUse, SavesWhatIsAsked, DnsNotGuessed, Answered
  <2> QED
    BY <2>2, <2>3
<1> QED
  BY <1>1, <1>2

(* A change is refused or read for, then saved or not.                     *)
LEMMA DnsWrite ==
    ASSUME DnsInvariant, NEW automatic \in BOOLEAN, NEW primary, NEW secondary,
           post_dns(automatic, primary, secondary)
    PROVE  DnsInvariant'
<1> DEFINE copy == IF automatic THEN [profile EXCEPT !.automatic = TRUE]
                   ELSE [automatic |-> FALSE, primary |-> primary, secondary |-> secondary]
           asked == IF automatic THEN Dhcp ELSE [primary |-> primary, secondary |-> secondary]
           refused == dns' \in {Answered("INVALID"), Answered("UNAVAILABLE")}
           read == /\ automatic \/ (primary \in Addresses /\ secondary \in Addresses)
                   /\ dns' = [at |-> "save", asked |-> asked, prof |-> copy]
<1>1. meddled' = FALSE /\ UNCHANGED <<profile, link>> /\ (refused \/ read)
  BY DEF post_dns, network_set_dns, apply_dns, str_to_ip, Addresses
<1>2. LinkFollowsProfile'
  BY <1>1 DEF DnsInvariant, LinkFollowsProfile
<1>3. CASE refused
  <2>1. dns'.at = "answered" /\ dns'.result \in {"INVALID", "UNAVAILABLE"}
    BY <1>3 DEF Answered
  <2> QED
    BY <1>2, <2>1 DEF DnsInvariant, ReadIsInUse, SavesWhatIsAsked, DnsNotGuessed
<1>4. CASE read
  <2>1. copy \in Profiles /\ InUse(copy) = asked
    BY <1>4 DEF DnsInvariant, LinkFollowsProfile, Profiles, InUse
  <2>2. dns'.at = "save" /\ dns'.prof = copy /\ dns'.asked = asked
    BY <1>4
  <2> HIDE DEF copy, asked
  <2> QED
    BY <1>2, <2>1, <2>2 DEF DnsInvariant, ReadIsInUse, SavesWhatIsAsked, DnsNotGuessed
<1> QED
  BY <1>1, <1>3, <1>4

LEMMA DnsSave ==
    ASSUME DnsInvariant, SetNetworkProfile PROVE DnsInvariant'
<1>1. dns.prof \in Profiles /\ InUse(dns.prof) = dns.asked /\ dns.at = "save"
  BY DEF SetNetworkProfile, DnsInvariant, SavesWhatIsAsked
<1>2. CASE dns' = Answered("FAILED") /\ UNCHANGED <<profile, link, meddled>>
  BY <1>2 DEF DnsInvariant, LinkFollowsProfile, ReadIsInUse, SavesWhatIsAsked, DnsNotGuessed, Answered
<1>3. CASE /\ profile' = dns.prof /\ link' = [link EXCEPT !.up = FALSE] /\ meddled' = FALSE
           /\ dns' = [at |-> "answered", result |-> "SET", asked |-> dns.asked]
  <2>1. LinkFollowsProfile'
    BY <1>1, <1>3 DEF DnsInvariant, LinkFollowsProfile
  <2>2. InUse(profile)' = dns'.asked
    BY <1>1, <1>3 DEF InUse
  <2> QED
    BY <1>3, <2>1, <2>2 DEF DnsInvariant, ReadIsInUse, SavesWhatIsAsked, DnsNotGuessed
<1> QED
  BY <1>2, <1>3 DEF SetNetworkProfile

LEMMA DnsNext == DnsInvariant /\ [Next]_vars => DnsInvariant'
<1> SUFFICES ASSUME DnsInvariant, [Next]_vars PROVE DnsInvariant'
  OBVIOUS
<1>1. CASE NetworkNext
  <2>1. PICK automatic \in BOOLEAN, primary \in Arguments, secondary \in Arguments :
          \/ Drops \/ Reconnects \/ OwnerEdits \/ GetIpConfig \/ network_get_dns
          \/ SetNetworkProfile \/ post_dns(automatic, primary, secondary)
    BY <1>1 DEF NetworkNext, get_dns, tool_get_dns, tool_set_dns, Arguments, Addresses
  <2> QED
    BY <2>1, DnsConsole, DnsRead, DnsWrite, DnsSave
<1>2. CASE UNCHANGED networkVars
  BY <1>2
  DEF networkVars, DnsInvariant, LinkFollowsProfile, ReadIsInUse, SavesWhatIsAsked, DnsNotGuessed
<1>3. NetworkNext \/ UNCHANGED networkVars
  BY DEF Next, vars, CrashStep, DnsStep, SettingStep, ClockStep, MdnsStep, RouteStep,
         JsonStep, ReadsStep
<1> QED
  BY <1>1, <1>2, <1>3

(* network.c:95-96: mode and servers of an answer belong together and a    *)
(* confirmed change is what the next connection uses, for any addresses,   *)
(* drops, reconnections and edits of the owner between the two reads, or   *)
(* between the read and the save.                                          *)
THEOREM DnsNeverGuessed == Spec => []DnsNotGuessed
<1>1. DnsInvariant => DnsNotGuessed
  BY DEF DnsInvariant
<1> QED
  BY <1>1, DnsInit, DnsNext, PTL DEF Spec

(* ---- the console's settings ---- *)

(* What the services keep has its type, which no failed call disturbs, and *)
(* the volume's range is one the audio target has.                         *)
Fields == [year : Int, month : Int, day : Int, time : Int]
Consoles ==
    [theme : {"light", "dark"}, nickname : Int, brightness : Int, backlight : Int,
     volume : Int, auto_time : BOOLEAN, wireless : BOOLEAN, clock : Fields]
SettingsRight == range \in Int \X Int /\ console \in Consoles

(* The statement of SettingsAsAsked for one step.                          *)
StepAsAsked ==
    /\ set'.answer # "ok" => UNCHANGED console
    /\ set'.answer = "ok" /\ set'.of = "clock" /\ set'.read =>
          Acceptable(Wanted(set'.fields)) /\ console'.clock = Wanted(set'.fields)
    /\ set'.answer = "400" /\ set'.of = "clock" /\ set'.read => ~Acceptable(Wanted(set'.fields))
    /\ /\ set'.answer \in {"ok", "got"}
       /\ set'.of \in {"theme", "nickname", "brightness", "auto_time", "wireless"}
       => console'[set'.of] = set'.value
    /\ set'.answer = "ok" /\ set'.of = "volume" =>
          LET n == settings_get_volume'[1]
              d == settings_get_volume'[2]
              miss == n * Unit - set'.value * d
          IN  n \in 0..d /\ 2 * miss <= Unit /\ -2 * miss <= Unit

(* The leap years counted are the leap years named.                        *)
LEMMA LeapYears ==
    ASSUME NEW year \in Int
    PROVE  LeapDays(year) - LeapDays(year - 1) =
             IF (year % 4 = 0 /\ year % 100 # 0) \/ year % 400 = 0 THEN 1 ELSE 0
<1>1. year \div 4 - (year - 1) \div 4 = IF year % 4 = 0 THEN 1 ELSE 0
  OBVIOUS
<1>2. year \div 100 - (year - 1) \div 100 = IF year % 100 = 0 THEN 1 ELSE 0
  OBVIOUS
<1>3. year \div 400 - (year - 1) \div 400 = IF year % 400 = 0 THEN 1 ELSE 0
  OBVIOUS
<1>4. (year % 400 = 0 => year % 100 = 0) /\ (year % 100 = 0 => year % 4 = 0)
  OBVIOUS
<1> QED
  BY <1>1, <1>2, <1>3, <1>4 DEF LeapDays

(* settings_datetime_valid takes exactly the dates of the calendar.        *)
LEMMA ValidIsReal ==
    ASSUME NEW d \in Fields
    PROVE  settings_datetime_valid(d) <=> Acceptable(d)
<1> DEFINE leap == (d.year % 4 = 0 /\ d.year % 100 # 0) \/ d.year % 400 = 0
           longest == CASE d.month = 2 -> 28 + LeapDays(d.year) - LeapDays(d.year - 1)
                        [] d.month \in {4, 6, 9, 11} -> 30
                        [] OTHER -> 31
<1>1. d.year \in Int /\ d.month \in Int /\ d.day \in Int /\ d.time \in Int
  BY DEF Fields
<1>2. ASSUME d.month \in 1..12 PROVE days_in_month(d.year, d.month) = longest
  <2>1. LeapDays(d.year) - LeapDays(d.year - 1) = IF leap THEN 1 ELSE 0
    BY <1>1, LeapYears
  <2>2. LeapDays(d.year) \in Int /\ LeapDays(d.year - 1) \in Int
    BY <1>1 DEF LeapDays
  <2>3. CASE d.month = 2
    <3>1. kDays[2] = 28
      BY DEF kDays
    <3>2. longest = 28 + (IF leap THEN 1 ELSE 0)
      BY <2>1, <2>2, <2>3
    <3> QED
      BY <2>3, <3>1, <3>2 DEF days_in_month
  <2>4. CASE d.month # 2
    <3>1. d.month \in {1, 3, 4, 5, 6, 7, 8, 9, 10, 11, 12}
      BY <1>1, <1>2, <2>4
    <3>2. kDays[d.month] = IF d.month \in {4, 6, 9, 11} THEN 30 ELSE 31
      BY <3>1 DEF kDays
    <3> QED
      BY <2>4, <3>2 DEF days_in_month
  <2> QED
    BY <2>3, <2>4
<1>3. ASSUME d.month \in 1..12 PROVE longest \in Int
  BY <1>1 DEF LeapDays
<1> HIDE DEF longest
<1>4. RealDate(d) <=> d.month \in 1..12 /\ d.day \in 1..longest
  BY DEF RealDate, longest
<1> QED
  BY <1>1, <1>2, <1>3, <1>4, SettingsAssumption DEF settings_datetime_valid, Acceptable

LEMMA Quotient ==
    ASSUME NEW a \in Int, NEW b \in Int, b > 0
    PROVE  /\ a \div b \in Int
           /\ b * (a \div b) <= a /\ a < b * (a \div b) + b
OBVIOUS

LEMMA ProductGrows ==
    ASSUME NEW a \in Int, NEW b \in Int, NEW c \in Int, a <= b, 0 <= c
    PROVE  a * c <= b * c
OBVIOUS

LEMMA ClampedLevel ==
    ASSUME NEW v \in Int
    PROVE  Clamped(v) \in 0..Unit
BY SettingsAssumption DEF Clamped

(* The level of the target is the nearest to the fraction asked for.       *)
LEMMA NearestLevel ==
    ASSUME NEW c \in 0..Unit, range \in Int \X Int, range[2] > range[1]
    PROVE  LET d == range[2] - range[1]
           IN  /\ Rounded(c) \in 0..d
               /\ 2 * (Rounded(c) * Unit - c * d) <= Unit
               /\ -2 * (Rounded(c) * Unit - c * d) <= Unit
<1> DEFINE d == range[2] - range[1]
           n == Rounded(c)
<1>1. d \in Int /\ d > 0 /\ Unit \in Int /\ Unit > 0 /\ c \in Int /\ 0 <= c /\ c <= Unit
  BY SettingsAssumption
<1>2. n = (2 * c * d + Unit) \div (2 * Unit)
  BY DEF Rounded
<1> HIDE DEF d, n
<1>3. PICK p \in Int : p = c * d
  BY <1>1
<1>4. 0 <= p /\ p <= Unit * d
  BY <1>1, <1>3, ProductGrows
<1>5. 2 * c * d + Unit = 2 * p + Unit /\ 2 * Unit \in Int /\ 2 * Unit > 0 /\ 2 * p + Unit \in Int
  BY <1>1, <1>3
<1>6. /\ n \in Int
      /\ 2 * Unit * n <= 2 * p + Unit
      /\ 2 * p + Unit < 2 * Unit * n + 2 * Unit
  BY <1>2, <1>5, Quotient
<1>7. PICK q \in Int : q = n * Unit /\ 2 * Unit * n = 2 * q
  BY <1>1, <1>6
<1>8. 2 * (q - p) <= Unit /\ -2 * (q - p) <= Unit
  BY <1>1, <1>6, <1>7
<1>9. 0 <= n
  <2> SUFFICES ASSUME n <= -1 PROVE FALSE
    BY <1>6
  <2>1. n * Unit <= -1 * Unit
    BY <1>1, <1>6, ProductGrows
  <2> QED
    BY <1>1, <1>4, <1>6, <1>7, <2>1
<1>10. n <= d
  <2> SUFFICES ASSUME d + 1 <= n PROVE FALSE
    BY <1>1, <1>6
  <2>1. (d + 1) * Unit <= n * Unit
    BY <1>1, <1>6, ProductGrows
  <2>2. (d + 1) * Unit = Unit * d + Unit
    BY <1>1
  <2>3. PICK r \in Int : r = Unit * d
    BY <1>1
  <2> QED
    BY <1>1, <1>4, <1>6, <1>7, <2>1, <2>2, <2>3
<1>11. n \in 0..d
  BY <1>1, <1>6, <1>9, <1>10
<1>12. 2 * (n * Unit - c * d) <= Unit /\ -2 * (n * Unit - c * d) <= Unit
  BY <1>3, <1>7, <1>8
<1> QED
  BY <1>11, <1>12 DEF n, d

LEMMA SettingsInit == Init => SettingsRight
<1> SUFFICES ASSUME Init PROVE SettingsRight
  OBVIOUS
<1>1. settings_init
  BY DEF Init
<1>2. range \in Int \X Int
  BY <1>1, SettingsAssumption DEF settings_init
<1>3. range[1] \in Int /\ Dates \subseteq Fields
  BY <1>2, SettingsAssumption DEF Fields
<1>4. console \in [theme : {"light"}, nickname : {1}, brightness : {0}, backlight : {0},
                   volume : {range[1]}, auto_time : {TRUE}, wireless : {TRUE}, clock : Dates]
  BY <1>1 DEF settings_init
<1>5. console \in Consoles
  <2>1. /\ {"light"} \subseteq {"light", "dark"} /\ {1} \subseteq Int /\ {0} \subseteq Int
        /\ {range[1]} \subseteq Int /\ {TRUE} \subseteq BOOLEAN
    BY <1>3
  <2> QED
    BY <1>3, <1>4, <2>1, Zenon DEF Consoles
<1> QED
  BY <1>2, <1>5 DEF SettingsRight

Named == {"theme", "nickname", "brightness", "auto_time", "wireless"}

(* An answer that changes nothing.                                         *)
StepLeaves ==
    /\ UNCHANGED <<range, console>>
    /\ set'.answer # "ok"
    /\ set'.answer = "400" => set'.of # "clock"
    /\ set'.answer = "got" /\ set'.of \in Named => console[set'.of] = set'.value

LEMMA LeavesRight ==
    ASSUME SettingsRight, StepLeaves
    PROVE  SettingsRight' /\ StepAsAsked
BY DEF SettingsRight, StepLeaves, StepAsAsked, Named

LEMMA SetterRight ==
    ASSUME SettingsRight, UNCHANGED range, NEW service,
           NEW setting \in {"theme", "nickname", "auto_time"}, NEW v,
           [console EXCEPT ![setting] = v] \in Consoles,
           Setter(service, setting, v)
    PROVE  SettingsRight' /\ StepAsAsked
<1>1. CASE Fails(setting, v)
  BY <1>1, LeavesRight DEF Fails, Asked, StepLeaves, Named
<1>2. CASE console' = [console EXCEPT ![setting] = v] /\ set' = Asked(setting, v, "ok")
  <2>1. set'.answer = "ok" /\ set'.of = setting /\ set'.value = v
    BY <1>2 DEF Asked
  <2>2. console'[setting] = v
    BY <1>2 DEF SettingsRight, Consoles
  <2>3. SettingsRight'
    BY <1>2 DEF SettingsRight
  <2> QED
    BY <2>1, <2>2, <2>3 DEF StepAsAsked
<1> QED
  BY <1>1, <1>2 DEF Setter

LEMMA ReadsRight ==
    ASSUME SettingsRight, UNCHANGED range, NEW service, NEW setting \in Named \cup {"volume"},
           NEW v, setting \in Named => v = console[setting],
           Reads(service, setting, v)
    PROVE  SettingsRight' /\ StepAsAsked
BY LeavesRight DEF Reads, Asked, StepLeaves, Named

LEMMA RefusesRight ==
    ASSUME SettingsRight, UNCHANGED range, NEW setting \in Named, NEW v, Refuses(setting, v)
    PROVE  SettingsRight' /\ StepAsAsked
BY LeavesRight DEF Refuses, Asked, StepLeaves, Named

LEMMA BrightnessRight ==
    ASSUME SettingsRight, UNCHANGED range, NEW v \in Int, settings_set_brightness(v)
    PROVE  SettingsRight' /\ StepAsAsked
<1>1. CASE Fails("brightness", v)
  BY <1>1, LeavesRight DEF Fails, Asked, StepLeaves, Named
<1>2. CASE ~Fails("brightness", v)
  <2>1. PICK light \in {Clamped(v), console.backlight} :
          /\ console' = [console EXCEPT !.brightness = Clamped(v), !.backlight = light]
          /\ set' = Asked("brightness", Clamped(v), "ok")
    BY <1>2 DEF settings_set_brightness
  <2>2. Clamped(v) \in Int /\ light \in Int
    BY ClampedLevel, SettingsAssumption DEF SettingsRight, Consoles
  <2>3. console' \in Consoles /\ console'.brightness = Clamped(v)
    BY <2>1, <2>2 DEF SettingsRight, Consoles
  <2>4. set'.answer = "ok" /\ set'.of = "brightness" /\ set'.value = Clamped(v)
    BY <2>1 DEF Asked
  <2> QED
    BY <2>3, <2>4 DEF SettingsRight, StepAsAsked
<1> QED
  BY <1>1, <1>2

LEMMA VolumeRight ==
    ASSUME SettingsRight, UNCHANGED range, NEW v \in Int, settings_set_volume(v)
    PROVE  SettingsRight' /\ StepAsAsked
<1>1. CASE Fails("volume", v)
  BY <1>1, LeavesRight DEF Fails, Asked, StepLeaves, Named
<1>2. CASE ~Fails("volume", v)
  <2>1. /\ range[2] > range[1]
        /\ console' = [console EXCEPT !.volume = range[1] + Rounded(Clamped(v))]
        /\ set' = Asked("volume", Clamped(v), "ok")
    BY <1>2 DEF settings_set_volume
  <2> DEFINE c == Clamped(v)
             n == Rounded(c)
             d == range[2] - range[1]
  <2>2. c \in 0..Unit /\ range \in Int \X Int
    BY ClampedLevel DEF SettingsRight
  <2>3. n \in 0..d /\ 2 * (n * Unit - c * d) <= Unit /\ -2 * (n * Unit - c * d) <= Unit
    BY <2>1, <2>2, NearestLevel
  <2>4. d \in Int /\ n \in Int /\ range[1] \in Int /\ range[2] \in Int
    BY <2>2, <2>3
  <2>5. set'.answer = "ok" /\ set'.of = "volume" /\ set'.value = c
    BY <2>1 DEF Asked
  <2> HIDE DEF n, c
  <2>6. console' = [console EXCEPT !.volume = range[1] + n]
    BY <2>1 DEF n, c
  <2>7. console' \in Consoles /\ console'.volume = range[1] + n
    BY <2>4, <2>6 DEF SettingsRight, Consoles
  <2>8. console'.volume - range[1] = n
    BY <2>4, <2>7
  <2>9. settings_get_volume' = <<n, d>>
    BY <2>1, <2>2, <2>8 DEF settings_get_volume
  <2>10. settings_get_volume'[1] = n /\ settings_get_volume'[2] = d
    BY <2>9
  <2>11. SettingsRight'
    BY <2>7 DEF SettingsRight
  <2> HIDE DEF d
  <2> QED
    BY <2>3, <2>5, <2>10, <2>11 DEF StepAsAsked
<1> QED
  BY <1>1, <1>2

LEMMA ClockRight ==
    ASSUME SettingsRight, UNCHANGED range,
           NEW fields \in [year : Years \cup {Absent}, month : Months \cup {Absent},
                           day : Days \cup {Absent}, time : Times \cup {Absent}],
           settings_set_datetime(fields)
    PROVE  SettingsRight' /\ StepAsAsked
<1> DEFINE now(read) == IF read THEN console.clock ELSE Zeros
           date(read) == settings_datetime_from_json(fields, now(read))
<1>1. PICK read \in BOOLEAN, answer \in {"ok", "500", "400"} :
        /\ set' = [of |-> "clock", fields |-> fields, read |-> read, answer |-> answer]
        /\ answer = "ok" => /\ settings_datetime_valid(date(read))
                            /\ console' = [console EXCEPT !.clock = date(read)]
        /\ answer = "400" => ~settings_datetime_valid(date(read))
        /\ answer # "ok" => UNCHANGED console
  BY DEF settings_set_datetime
<1>2. console \in Consoles /\ now(read) \in Fields
  BY DEF SettingsRight, Consoles, Zeros, Fields
<1>3. date(read) \in Fields
  <2> HIDE DEF now
  <2>1. \A f \in {"year", "month", "day", "time"} :
           fields[f] \in Int \cup {Absent} /\ now(read)[f] \in Int
    BY <1>2, SettingsAssumption DEF Fields
  <2>2. \A f \in {"year", "month", "day", "time"} :
           (IF fields[f] = Absent THEN now(read)[f] ELSE fields[f]) \in Int
    BY <2>1
  <2> QED
    BY <2>2 DEF settings_datetime_from_json, Fields
<1>4. read => date(read) = Wanted(fields)
  <2>1. DOMAIN fields = {"year", "month", "day", "time"}
    OBVIOUS
  <2> QED
    BY <2>1 DEF Wanted, settings_datetime_from_json
<1>5. settings_datetime_valid(date(read)) <=> Acceptable(date(read))
  BY <1>3, ValidIsReal
<1> HIDE DEF date
<1>6. /\ set'.answer = answer /\ set'.of = "clock" /\ set'.read = read /\ set'.fields = fields
  BY <1>1
<1>7. answer = "ok" => console' \in Consoles /\ console'.clock = date(read)
  BY <1>1, <1>2, <1>3 DEF Consoles
<1>8. SettingsRight'
  BY <1>1, <1>7 DEF SettingsRight
<1>9. StepAsAsked
  BY <1>1, <1>4, <1>5, <1>6, <1>7 DEF StepAsAsked
<1> QED
  BY <1>8, <1>9

LEMMA SettingsStep ==
    ASSUME SettingsRight, SettingsNext \/ ClockNext
    PROVE  SettingsRight' /\ StepAsAsked
<1>1. UNCHANGED range
  BY DEF SettingsNext, ClockNext
<1>2. CASE Sent
  BY <1>1, <1>2, LeavesRight DEF Sent, NoRequest, StepLeaves, Named
<1>3. CASE handle_theme
  <2>1. CASE get_theme
    BY <1>1, <2>1, ReadsRight DEF get_theme, Named
  <2>2. CASE tool_set_theme
    <3>1. PICK theme \in {"light", "dark", "other"} :
            IF settings_theme_from_json(theme) THEN settings_set_theme(theme)
            ELSE Refuses("theme", theme)
      BY <2>2 DEF tool_set_theme
    <3>2. CASE theme \in {"light", "dark"}
      <4>1. [console EXCEPT !["theme"] = theme] \in Consoles
        BY <3>2 DEF SettingsRight, Consoles
      <4> QED
        BY <1>1, <3>1, <3>2, <4>1, SetterRight DEF settings_theme_from_json, settings_set_theme
    <3>3. CASE theme \notin {"light", "dark"}
      BY <1>1, <3>1, <3>3, RefusesRight DEF settings_theme_from_json, Named
    <3> QED
      BY <3>2, <3>3
  <2> QED
    BY <1>3, <2>1, <2>2 DEF handle_theme
<1>4. CASE handle_nickname
  <2>1. CASE get_nickname
    BY <1>1, <2>1, ReadsRight DEF get_nickname, Named
  <2>2. CASE tool_set_nickname
    <3>1. PICK length \in Nicknames : settings_set_nickname(length)
      BY <2>2 DEF tool_set_nickname
    <3>2. CASE settings_nickname_valid(length)
      <4>1. [console EXCEPT !["nickname"] = length] \in Consoles
        BY SettingsAssumption DEF SettingsRight, Consoles
      <4> QED
        BY <1>1, <3>1, <3>2, <4>1, SetterRight DEF settings_set_nickname
    <3>3. CASE ~settings_nickname_valid(length)
      BY <1>1, <3>1, <3>3, RefusesRight DEF settings_set_nickname, Named
    <3> QED
      BY <3>2, <3>3
  <2> QED
    BY <1>4, <2>1, <2>2 DEF handle_nickname
<1>5. CASE handle_float \/ set_float
  <2>1. CASE get_float
    BY <1>1, <2>1, ReadsRight DEF get_float, Named
  <2>2. CASE \E v \in Int : settings_set_brightness(v) \/ settings_set_volume(v)
    BY <1>1, <2>2, BrightnessRight, VolumeRight
  <2>3. \A v \in Levels : v \in Int /\ Clamped(v) \in Int
    BY SettingsAssumption, ClampedLevel
  <2> QED
    BY <1>5, <2>1, <2>2, <2>3 DEF handle_float, set_float
<1>6. CASE handle_auto_time
  <2>1. CASE get_auto_time
    BY <1>1, <2>1, ReadsRight DEF get_auto_time, Named
  <2>2. CASE tool_set_auto_time
    <3>1. PICK on \in BOOLEAN : Setter("setsys", "auto_time", on)
      BY <2>2 DEF tool_set_auto_time, settings_set_auto_time
    <3>2. [console EXCEPT !["auto_time"] = on] \in Consoles
      BY DEF SettingsRight, Consoles
    <3> QED
      BY <1>1, <3>1, <3>2, SetterRight
  <2> QED
    BY <1>6, <2>1, <2>2 DEF handle_auto_time
<1>7. CASE tool_airplane_mode
  <2>1. CASE Fails("wireless", FALSE)
    BY <1>1, <2>1, LeavesRight DEF Fails, Asked, StepLeaves, Named
  <2>2. CASE /\ console' = [console EXCEPT !.wireless = FALSE]
             /\ set' = Asked("wireless", FALSE, "ok")
    <3>1. console' \in Consoles /\ console'.wireless = FALSE
      BY <2>2 DEF SettingsRight, Consoles
    <3>2. set'.answer = "ok" /\ set'.of = "wireless" /\ set'.value = FALSE
      BY <2>2 DEF Asked
    <3> QED
      BY <1>1, <3>1, <3>2 DEF SettingsRight, StepAsAsked
  <2> QED
    BY <1>7, <2>1, <2>2 DEF tool_airplane_mode, settings_disable_wireless
<1>8. CASE handle_datetime
  <2>1. CASE get_datetime
    BY <1>1, <2>1, LeavesRight DEF get_datetime, Asked, StepLeaves, Named
  <2>2. CASE tool_set_datetime
    BY <1>1, <2>2, ClockRight DEF tool_set_datetime
  <2> QED
    BY <1>8, <2>1, <2>2 DEF handle_datetime
<1> QED
  BY <1>2, <1>3, <1>4, <1>5, <1>6, <1>7, <1>8 DEF SettingsNext, ClockNext

(* A confirmed change is the change that was asked for and a refused one   *)
(* changes nothing, for every range of the audio target, every level, unit *)
(* and every date (settings.c): the volume is the level nearest to the     *)
(* fraction, the clock takes the dates of the calendar and no others.      *)
THEOREM SettingsDoAsAsked == Spec => SettingsAsAsked
<1>1. SettingsRight /\ [Next]_vars => SettingsRight' /\ [StepAsAsked]_settingsVars
  <2> SUFFICES ASSUME SettingsRight, [Next]_vars
               PROVE  SettingsRight' /\ [StepAsAsked]_settingsVars
    OBVIOUS
  <2>1. CASE SettingsNext \/ ClockNext
    BY <2>1, SettingsStep
  <2>2. CASE UNCHANGED settingsVars
    BY <2>2 DEF settingsVars, SettingsRight
  <2>3. (SettingsNext \/ ClockNext) \/ UNCHANGED settingsVars
    BY DEF Next, vars, CrashStep, DnsStep, SettingStep, ClockStep, MdnsStep, RouteStep,
           JsonStep, ReadsStep
  <2> QED
    BY <2>1, <2>2, <2>3
<1>2. Spec => [][StepAsAsked]_settingsVars
  BY <1>1, SettingsInit, PTL DEF Spec
<1> QED
  BY <1>2 DEF SettingsAsAsked, StepAsAsked

(* ---- induction over positions ---- *)

(* An induction is about a set, and a recursion about a function, of       *)
(* positions: what a definition computes from the first n elements of its  *)
(* input is proved for every n.                                            *)
LEMMA LeastNatural ==
    ASSUME NEW S \in SUBSET Nat, S # {} PROVE \E m \in S : \A k \in S : m <= k
<1>1. \E m \in S : \A k \in S : ~(<<k, m>> \in OpToRel(<, Nat))
  BY WFMin, NatLessThanWellFounded, Zenon
<1>2. PICK m \in S : \A k \in S : <<k, m>> \notin OpToRel(<, Nat)
  BY <1>1
<1>3. \A k \in S : ~(k < m)
  BY <1>2 DEF OpToRel
<1> QED
  BY <1>3

LEMMA SetInduction ==
    ASSUME NEW N \in Nat, NEW P, 0 \in P, \A n \in 0..(N - 1) : n \in P => n + 1 \in P
    PROVE  \A n \in 0..N : n \in P
<1> SUFFICES ASSUME NEW n \in 0..N, n \notin P PROVE FALSE
  OBVIOUS
<1> DEFINE Out == {m \in 0..N : m \notin P}
<1>1. PICK m \in Out : \A k \in Out : m <= k
  <2>1. Out \in SUBSET Nat /\ Out # {}
    OBVIOUS
  <2> HIDE DEF Out
  <2> QED
    BY <2>1, LeastNatural
<1>2. m # 0 /\ m - 1 \in 0..(N - 1)
  OBVIOUS
<1>3. m - 1 \in P
  BY <1>1, <1>2
<1> QED
  BY <1>2, <1>3

(* f is computed from base, step after step.                               *)
Recursive(f, N, S, base, step) ==
    /\ f \in [0..N -> S] /\ f[0] = base
    /\ \A i \in 1..N : f[i] = step[<<f[i - 1], i>>]
ClosedUnder(step, S, N) == \A s \in S, i \in 1..N : step[<<s, i>>] \in S

LEMMA RecursionExists ==
    ASSUME NEW N, N \in Nat, NEW S, NEW base, base \in S, NEW step, ClosedUnder(step, S, N)
    PROVE  \E f : Recursive(f, N, S, base, step)
<1> USE DEF ClosedUnder
<1> DEFINE Upto(n) == {f \in [0..n -> S] :
                         f[0] = base /\ \A i \in 1..n : f[i] = step[<<f[i - 1], i>>]}
           P == {n \in 0..N : Upto(n) # {}}
<1>1. 0 \in P
  <2>1. [i \in 0..0 |-> base] \in Upto(0)
    OBVIOUS
  <2> QED
    BY <2>1
<1>2. ASSUME NEW n \in 0..(N - 1), n \in P PROVE n + 1 \in P
  <2>1. PICK f : f \in Upto(n)
    BY <1>2
  <2> DEFINE g == [i \in 0..(n + 1) |-> IF i = n + 1 THEN step[<<f[n], n + 1>>] ELSE f[i]]
  <2>2. f[n] \in S /\ n + 1 \in 1..N
    BY <2>1
  <2>3. step[<<f[n], n + 1>>] \in S
    BY <2>2
  <2>4. g \in [0..(n + 1) -> S]
    BY <2>1, <2>3
  <2>5. g[0] = base
    BY <2>1
  <2>6. ASSUME NEW i \in 1..(n + 1) PROVE g[i] = step[<<g[i - 1], i>>]
    <3>1. CASE i = n + 1
      <4>1. i - 1 = n /\ n \in 0..(n + 1) /\ n # n + 1
        BY <3>1
      <4>2. g[n] = f[n]
        BY <4>1
      <4>3. g[i] = step[<<f[n], n + 1>>]
        BY <3>1
      <4> HIDE DEF g
      <4> QED
        BY <3>1, <4>1, <4>2, <4>3
    <3>2. CASE i # n + 1
      <4>1. i \in 1..n /\ i - 1 \in 0..n
        BY <3>2
      <4>2. f[i] = step[<<f[i - 1], i>>]
        BY <2>1, <4>1
      <4>3. g[i] = f[i] /\ g[i - 1] = f[i - 1]
        BY <4>1
      <4> QED
        BY <4>2, <4>3
    <3> QED
      BY <3>1, <3>2
  <2> HIDE DEF g
  <2>7. g \in Upto(n + 1)
    BY <2>4, <2>5, <2>6
  <2> QED
    BY <2>7
<1>3. N \in P
  <2> HIDE DEF P
  <2> QED
    BY <1>1, <1>2, SetInduction
<1> QED
  BY <1>3 DEF Recursive

LEMMA Stays ==
    ASSUME NEW N \in Nat, NEW S, NEW f, f[0] \in S,
           \A i \in 1..N : f[i - 1] \in S => f[i] \in S
    PROVE  \A i \in 0..N : f[i] \in S
<1> DEFINE P == {i \in 0..N : f[i] \in S}
<1>1. 0 \in P
  OBVIOUS
<1>2. ASSUME NEW n \in 0..(N - 1), n \in P PROVE n + 1 \in P
  <2>1. n + 1 \in 1..N /\ n + 1 - 1 = n
    OBVIOUS
  <2> QED
    BY <1>2, <2>1
<1>3. \A n \in 0..N : n \in P
  <2> HIDE DEF P
  <2> QED
    BY <1>1, <1>2, SetInduction
<1> QED
  BY <1>3

(* ---- config.ini ---- *)

Parsed == [section : STRING \cup {""}, cfg : [Credentials -> {"", "set"}]]

LEMMA ConfigLineType ==
    ASSUME NEW c \in Parsed, NEW line \in IniLine PROVE ConfigLine(c, line) \in Parsed
<1>1. CASE line \in [section : STRING]
  BY <1>1 DEF ConfigLine, Parsed
<1>2. CASE line \in [key : STRING, value : {"", "set"}]
  BY <1>2 DEF ConfigLine, Parsed, Credentials
<1> QED
  BY <1>1, <1>2 DEF IniLine

LEMMA NoConfigType == NoConfig \in Parsed
<1>1. [k \in Credentials |-> ""] \in [Credentials -> {"", "set"}]
  OBVIOUS
<1> QED
  BY <1>1, Zenon DEF Parsed, NoConfig

LEMMA LoadExists ==
    ASSUME NEW lines \in Seq(IniLine)
    PROVE  \E h : h = [i \in 0..Len(lines) |->
                         IF i = 0 THEN NoConfig ELSE ConfigLine(h[i - 1], lines[i])]
<1> DEFINE N == Len(lines)
           step == [p \in Parsed \X (1..N) |-> ConfigLine(p[1], lines[p[2]])]
<1>1. N \in Nat /\ \A i \in 1..N : lines[i] \in IniLine
  OBVIOUS
<1>2. \A c \in Parsed, i \in 1..N : step[<<c, i>>] = ConfigLine(c, lines[i])
  OBVIOUS
<1>3. ClosedUnder(step, Parsed, N)
  BY <1>1, <1>2, ConfigLineType DEF ClosedUnder
<1> HIDE DEF step, N
<1>4. PICK g : Recursive(g, N, Parsed, NoConfig, step)
  BY <1>1, <1>3, NoConfigType, RecursionExists
<1>5. ASSUME NEW i \in 0..N, i # 0 PROVE g[i] = ConfigLine(g[i - 1], lines[i])
  <2>1. i \in 1..N /\ i - 1 \in 0..N
    BY <1>1, <1>5
  <2> QED
    BY <1>2, <1>4, <2>1 DEF Recursive
<1>6. g = [i \in 0..N |-> IF i = 0 THEN NoConfig ELSE ConfigLine(g[i - 1], lines[i])]
  BY <1>4, <1>5 DEF Recursive
<1> QED
  BY <1>6 DEF N

LEMMA ConfigLoads ==
    ASSUME NEW lines \in Seq(IniLine)
    PROVE  \E f : /\ \A i \in 0..Len(lines) : f[i] \in Parsed
                  /\ config_load(lines) = f[Len(lines)].cfg
                  /\ f[0] = NoConfig
                  /\ \A i \in 1..Len(lines) : f[i] = ConfigLine(f[i - 1], lines[i])
<1> DEFINE load[i \in 0..Len(lines)] ==
              IF i = 0 THEN NoConfig ELSE ConfigLine(load[i - 1], lines[i])
<1>1. config_load(lines) = load[Len(lines)].cfg
  BY DEF config_load, NoConfig
<1>2. load = [i \in 0..Len(lines) |->
                IF i = 0 THEN NoConfig ELSE ConfigLine(load[i - 1], lines[i])]
  BY LoadExists
<1> HIDE DEF load
<1>3. Len(lines) \in Nat /\ \A i \in 1..Len(lines) : lines[i] \in IniLine
  OBVIOUS
<1>4. load[0] = NoConfig /\ \A i \in 1..Len(lines) : load[i] = ConfigLine(load[i - 1], lines[i])
  BY <1>2, <1>3
<1>5. \A i \in 0..Len(lines) : load[i] \in Parsed
  BY <1>3, <1>4, Stays, ConfigLineType, NoConfigType
<1> QED
  BY <1>1, <1>4, <1>5

LEMMA LineKinds ==
    ASSUME NEW line \in IniLine
    PROVE  \/ /\ line \in [section : STRING] /\ "section" \in DOMAIN line
              /\ \A k, v : line # [key |-> k, value |-> v]
           \/ /\ line \in [key : STRING, value : {"", "set"}] /\ "section" \notin DOMAIN line
              /\ \A s : line # [section |-> s]
<1>1. CASE line \in [section : STRING]
  <2>1. "section" \in DOMAIN line /\ "key" \notin DOMAIN line
    BY <1>1
  <2>2. ASSUME NEW k, NEW v, line = [key |-> k, value |-> v] PROVE FALSE
    <3>1. "key" \in DOMAIN [key |-> k, value |-> v]
      OBVIOUS
    <3> QED
      BY <2>1, <2>2, <3>1
  <2> QED
    BY <1>1, <2>1, <2>2
<1>2. CASE line \in [key : STRING, value : {"", "set"}]
  <2>1. "section" \notin DOMAIN line
    BY <1>2
  <2>2. ASSUME NEW s, line = [section |-> s] PROVE FALSE
    <3>1. "section" \in DOMAIN [section |-> s]
      OBVIOUS
    <3> QED
      BY <2>1, <2>2, <3>1
  <2> QED
    BY <1>2, <2>1, <2>2
<1> QED
  BY <1>1, <1>2 DEF IniLine

LEMMA LineRead ==
    ASSUME NEW c \in Parsed, NEW line \in IniLine
    PROVE  IF "section" \in DOMAIN line
             THEN ConfigLine(c, line).section = line.section /\ ConfigLine(c, line).cfg = c.cfg
             ELSE /\ ConfigLine(c, line).section = c.section
                  /\ \A k \in Credentials :
                        ConfigLine(c, line).cfg[k] =
                            IF c.section = "server" /\ line.key = k THEN line.value ELSE c.cfg[k]
<1>1. DOMAIN c = {"section", "cfg"} /\ c.cfg \in [Credentials -> {"", "set"}]
  BY DEF Parsed
<1>2. CASE "section" \in DOMAIN line
  <2>1. ConfigLine(c, line) = [c EXCEPT !.section = line.section]
    BY <1>2 DEF ConfigLine
  <2> QED
    BY <1>1, <1>2, <2>1
<1>3. CASE "section" \notin DOMAIN line /\ c.section = "server" /\ line.key \in Credentials
  <2>1. ConfigLine(c, line) = [c EXCEPT !.cfg[line.key] = line.value]
    BY <1>3 DEF ConfigLine
  <2> QED
    BY <1>1, <1>3, <2>1
<1>4. CASE "section" \notin DOMAIN line /\ ~(c.section = "server" /\ line.key \in Credentials)
  <2>1. ConfigLine(c, line) = c
    BY <1>4 DEF ConfigLine
  <2> QED
    BY <1>1, <1>4, <2>1
<1> QED
  BY <1>2, <1>3, <1>4

(* The section a line of config.ini belongs to, itself included when it    *)
(* opens one.                                                              *)
UnderServer(n) ==
    \E i \in 1..n : /\ ini[i] = [section |-> "server"]
                    /\ \A l \in (i + 1)..n : "section" \notin DOMAIN ini[l]

LEMMA SectionRead ==
    ASSUME ini \in Seq(IniLine), NEW f, f[0] = NoConfig,
           \A i \in 0..Len(ini) : f[i] \in Parsed,
           \A i \in 1..Len(ini) : f[i] = ConfigLine(f[i - 1], ini[i])
    PROVE  \A n \in 0..Len(ini) : f[n].section = "server" <=> UnderServer(n)
<1> DEFINE P == {n \in 0..Len(ini) : f[n].section = "server" <=> UnderServer(n)}
<1>0. Len(ini) \in Nat /\ \A i \in 1..Len(ini) : ini[i] \in IniLine
  OBVIOUS
<1>1. 0 \in P
  <2>1. f[0].section # "server"
    <3>1. NoConfig.section = ""
      BY DEF NoConfig
    <3> QED
      BY <3>1
  <2>2. ~UnderServer(0)
    BY DEF UnderServer
  <2> QED
    BY <1>0, <2>1, <2>2
<1>2. ASSUME NEW n \in 0..(Len(ini) - 1), n \in P PROVE n + 1 \in P
  <2>0. n + 1 \in 1..Len(ini) /\ n \in 0..Len(ini) /\ n + 1 - 1 = n
    BY <1>0
  <2>1. f[n + 1] = ConfigLine(f[n], ini[n + 1]) /\ f[n] \in Parsed /\ ini[n + 1] \in IniLine
    BY <1>0, <2>0
  <2>2. CASE "section" \in DOMAIN ini[n + 1]
    <3>1. ini[n + 1] \in [section : STRING]
      BY <2>1, <2>2, LineKinds
    <3>2. f[n + 1].section = ini[n + 1].section
      BY <2>1, <2>2, LineRead
    <3>3. ini[n + 1] = [section |-> ini[n + 1].section]
      BY <3>1
    <3>4. UnderServer(n + 1) <=> ini[n + 1] = [section |-> "server"]
      <4>1. ASSUME NEW i \in 1..(n + 1), i # n + 1 PROVE n + 1 \in (i + 1)..(n + 1)
        BY <4>1
      <4>2. \A l \in (n + 1 + 1)..(n + 1) : FALSE
        OBVIOUS
      <4>3. n + 1 \in 1..(n + 1)
        OBVIOUS
      <4> QED
        BY <2>2, <4>1, <4>2, <4>3 DEF UnderServer
    <3>5. ini[n + 1] = [section |-> "server"] <=> ini[n + 1].section = "server"
      BY <3>3
    <3> QED
      BY <1>0, <2>0, <3>2, <3>4, <3>5
  <2>3. CASE "section" \notin DOMAIN ini[n + 1]
    <3>1. f[n + 1].section = f[n].section
      BY <2>1, <2>3, LineRead
    <3>2. ini[n + 1] # [section |-> "server"]
      BY <2>1, <2>3, LineKinds
    <3>3. UnderServer(n + 1) <=> UnderServer(n)
      <4>1. ASSUME NEW i \in 1..n PROVE (i + 1)..(n + 1) = ((i + 1)..n) \cup {n + 1}
        OBVIOUS
      <4>2. 1..(n + 1) = (1..n) \cup {n + 1}
        OBVIOUS
      <4> QED
        BY <2>3, <3>2, <4>1, <4>2 DEF UnderServer
    <3> QED
      BY <1>0, <1>2, <2>0, <3>1, <3>3
  <2> QED
    BY <2>2, <2>3
<1>3. \A n \in 0..Len(ini) : n \in P
  <2> HIDE DEF P
  <2> QED
    BY <1>0, <1>1, <1>2, SetInduction
<1> QED
  BY <1>3

(* For a line that gives a value this is what DispatchRight calls being in *)
(* the section.                                                            *)
LEMMA InServerIs ==
    ASSUME ini \in Seq(IniLine), NEW j \in 1..Len(ini), "section" \notin DOMAIN ini[j]
    PROVE  InServer(j) <=> UnderServer(j - 1)
<1>1. ini[j] \in IniLine /\ ini[j] # [section |-> "server"]
  <2>1. ini[j] \in IniLine
    OBVIOUS
  <2> QED
    BY <2>1, LineKinds
<1>2. ASSUME NEW i \in 1..(j - 1) PROVE (i + 1)..j = ((i + 1)..(j - 1)) \cup {j}
  OBVIOUS
<1> QED
  BY <1>1, <1>2 DEF InServer, UnderServer

GivenUpto(n, k) ==
    \E j \in 1..n :
        /\ InServer(j) /\ ini[j] = [key |-> k, value |-> "set"]
        /\ \A l \in (j + 1)..n : InServer(l) => ini[l] # [key |-> k, value |-> ""]

LEMMA ValueRead ==
    ASSUME ini \in Seq(IniLine), NEW f, f[0] = NoConfig, NEW k \in Credentials,
           \A i \in 0..Len(ini) : f[i] \in Parsed,
           \A i \in 1..Len(ini) : f[i] = ConfigLine(f[i - 1], ini[i])
    PROVE  \A n \in 0..Len(ini) : f[n].cfg[k] = "set" <=> GivenUpto(n, k)
<1> DEFINE P == {n \in 0..Len(ini) : f[n].cfg[k] = "set" <=> GivenUpto(n, k)}
<1>0. Len(ini) \in Nat /\ \A i \in 1..Len(ini) : ini[i] \in IniLine
  OBVIOUS
<1>1. 0 \in P
  <2>1. NoConfig.cfg[k] = ""
    BY DEF NoConfig
  <2>2. ~GivenUpto(0, k)
    BY DEF GivenUpto
  <2>3. f[0].cfg[k] # "set"
    BY <2>1
  <2> QED
    BY <1>0, <2>2, <2>3
<1>2. ASSUME NEW n \in 0..(Len(ini) - 1), n \in P PROVE n + 1 \in P
  <2> DEFINE line == ini[n + 1]
             said(v) == InServer(n + 1) /\ line = [key |-> k, value |-> v]
  <2>0. n + 1 \in 1..Len(ini) /\ n \in 0..Len(ini) /\ n + 1 - 1 = n
    BY <1>0
  <2>1. f[n + 1] = ConfigLine(f[n], line) /\ f[n] \in Parsed /\ line \in IniLine
    BY <1>0, <2>0
  <2>2. GivenUpto(n + 1, k) <=> said("set") \/ (GivenUpto(n, k) /\ ~said(""))
    <3>1. 1..(n + 1) = (1..n) \cup {n + 1} /\ n + 1 \in 1..(n + 1)
      OBVIOUS
    <3>2. \A j \in 1..n : (j + 1)..(n + 1) = ((j + 1)..n) \cup {n + 1}
      OBVIOUS
    <3>3. (n + 1 + 1)..(n + 1) = {}
      OBVIOUS
    <3>4. said("set") => GivenUpto(n + 1, k)
      BY <3>1, <3>3 DEF GivenUpto
    <3>5. GivenUpto(n, k) /\ ~said("") => GivenUpto(n + 1, k)
      <4> SUFFICES ASSUME GivenUpto(n, k), ~said("") PROVE GivenUpto(n + 1, k)
        OBVIOUS
      <4>1. PICK j \in 1..n :
               /\ InServer(j) /\ ini[j] = [key |-> k, value |-> "set"]
               /\ \A l \in (j + 1)..n : InServer(l) => ini[l] # [key |-> k, value |-> ""]
        BY DEF GivenUpto
      <4>2. \A l \in (j + 1)..(n + 1) : InServer(l) => ini[l] # [key |-> k, value |-> ""]
        BY <3>2, <4>1
      <4>3. j \in 1..(n + 1)
        BY <3>1, <4>1
      <4> QED
        BY <4>1, <4>2, <4>3 DEF GivenUpto
    <3>6. GivenUpto(n + 1, k) => said("set") \/ (GivenUpto(n, k) /\ ~said(""))
      <4> SUFFICES ASSUME GivenUpto(n + 1, k), ~said("set") PROVE GivenUpto(n, k) /\ ~said("")
        OBVIOUS
      <4>1. PICK j \in 1..(n + 1) :
               /\ InServer(j) /\ ini[j] = [key |-> k, value |-> "set"]
               /\ \A l \in (j + 1)..(n + 1) : InServer(l) => ini[l] # [key |-> k, value |-> ""]
        BY DEF GivenUpto
      <4>2. j \in 1..n
        BY <3>1, <4>1
      <4> QED
        BY <3>2, <4>1, <4>2 DEF GivenUpto
    <3> QED
      BY <3>4, <3>5, <3>6
  <2>3. CASE "section" \in DOMAIN line
    <3>1. f[n + 1].cfg = f[n].cfg
      BY <2>1, <2>3, LineRead
    <3>2. ~said("") /\ ~said("set")
      BY <2>1, <2>3, LineKinds
    <3> HIDE DEF line, said
    <3>3. f[n + 1].cfg[k] = "set" <=> GivenUpto(n + 1, k)
      BY <1>2, <2>2, <3>1, <3>2
    <3> QED
      BY <2>0, <3>3
  <2>4. CASE "section" \notin DOMAIN line
    <3>1. InServer(n + 1) <=> f[n].section = "server"
      BY <2>0, <2>4, InServerIs, SectionRead
    <3>2. line \in [key : STRING, value : {"", "set"}]
      BY <2>1, <2>4, LineKinds
    <3>3. line = [key |-> line.key, value |-> line.value] /\ line.value \in {"", "set"}
      BY <3>2
    <3>4. f[n + 1].cfg[k] = IF f[n].section = "server" /\ line.key = k THEN line.value
                            ELSE f[n].cfg[k]
      BY <2>1, <2>4, LineRead
    <3>5. \A v : said(v) <=> f[n].section = "server" /\ line.key = k /\ line.value = v
      <4> SUFFICES ASSUME NEW v
                   PROVE  said(v) <=> f[n].section = "server" /\ line.key = k /\ line.value = v
        OBVIOUS
      <4>1. line = [key |-> k, value |-> v] <=> line.key = k /\ line.value = v
        <5> HIDE DEF line
        <5>1. [key |-> k, value |-> v].key = k /\ [key |-> k, value |-> v].value = v
          OBVIOUS
        <5> QED
          BY <3>3, <5>1
      <4> QED
        BY <3>1, <4>1
    <3> HIDE DEF line, said
    <3>6. f[n + 1].cfg[k] = "set" <=> said("set") \/ (f[n].cfg[k] = "set" /\ ~said(""))
      BY <3>3, <3>4, <3>5
    <3>7. f[n + 1].cfg[k] = "set" <=> GivenUpto(n + 1, k)
      BY <1>2, <2>2, <3>6
    <3> QED
      BY <2>0, <3>7
  <2> QED
    BY <2>3, <2>4
<1>3. \A n \in 0..Len(ini) : n \in P
  <2> HIDE DEF P
  <2> QED
    BY <1>0, <1>1, <1>2, SetInduction
<1> QED
  BY <1>3

LEMMA ConfigIsGiven ==
    ASSUME ini \in Seq(IniLine)
    PROVE  \A k \in Credentials :
              /\ config_load(ini)[k] \in {"", "set"}
              /\ config_load(ini)[k] = "set" <=> Given(k)
<1>1. PICK f : /\ \A i \in 0..Len(ini) : f[i] \in Parsed
               /\ config_load(ini) = f[Len(ini)].cfg
               /\ f[0] = NoConfig
               /\ \A i \in 1..Len(ini) : f[i] = ConfigLine(f[i - 1], ini[i])
  BY ConfigLoads
<1>2. Len(ini) \in 0..Len(ini) /\ DOMAIN ini = 1..Len(ini)
  OBVIOUS
<1>3. f[Len(ini)].cfg \in [Credentials -> {"", "set"}]
  BY <1>1, <1>2 DEF Parsed
<1>4. ASSUME NEW k \in Credentials PROVE f[Len(ini)].cfg[k] = "set" <=> GivenUpto(Len(ini), k)
  BY <1>1, <1>2, ValueRead
<1>5. \A k : GivenUpto(Len(ini), k) <=> Given(k)
  BY <1>2 DEF GivenUpto, Given
<1> QED
  BY <1>1, <1>3, <1>4, <1>5

(* ---- dispatch ---- *)

RouterRight ==
    /\ \A k \in Credentials : config[k] \in {"", "set"} /\ (config[k] = "set" <=> Given(k))
    /\ routes \in Seq(Routes)
DispatchInv == RouterRight /\ DispatchRight

LEMMA FirstRoute ==
    ASSUME NEW mine, mine \subseteq DOMAIN routes, routes \in Seq(Routes), mine # {}
    PROVE  Min(mine) \in mine /\ \A i \in mine : Min(mine) <= i
<1>1. mine \in SUBSET Nat
  OBVIOUS
<1>2. \E m \in mine : \A k \in mine : m <= k
  BY <1>1, LeastNatural
<1> QED
  BY <1>2 DEF Min

LEMMA MatchIsFit ==
    ASSUME NEW r \in Routes, NEW req
    PROVE  route_matches(r, req.path) <=> Fits(r, req)
<1>1. r.prefix \in BOOLEAN /\ r.path \in Seq(STRING)
  BY DEF Routes
<1>2. IsPrefix(r.path, r.path)
  BY <1>1 DEF IsPrefix
<1> QED
  BY <1>1, <1>2 DEF route_matches, Fits

LEMMA AuthorizedIsKnown ==
    ASSUME RouterRight, NEW auth
    PROVE  (config_auth_enabled <=> ~Open) /\ (authorized(auth) <=> Known(auth))
<1>1. /\ config.token # "" <=> Given("token")
      /\ config.username # "" <=> Given("username")
      /\ config.password # "" <=> Given("password")
  <2>1. "token" \in Credentials /\ "username" \in Credentials /\ "password" \in Credentials
    BY DEF Credentials
  <2> QED
    BY <2>1 DEF RouterRight
<1>2. config_basic_enabled <=> Basic
  BY <1>1 DEF config_basic_enabled, Basic
<1>3. config_auth_enabled <=> ~Open
  BY <1>1, <1>2 DEF config_auth_enabled, Open
<1>4. authorized(auth) <=>
         \/ config_basic_enabled /\ auth = "basic right"
         \/ config.token # "" /\ auth = "config token"
         \/ auth = "issued token"
  BY DEF authorized, http_get_bearer, TokenIs
<1> QED
  BY <1>1, <1>2, <1>3, <1>4 DEF Known

LEMMA RouteRight ==
    ASSUME RouterRight, NEW req
    PROVE  LET code == route(req).code
               by == route(req).by
           IN  /\ code # 401
               /\ code = 200 => Fits(routes[by], req) /\ routes[by].method = req.method
               /\ req.method # "OPTIONS" =>
                     \A i \in DOMAIN routes : Fits(routes[i], req) =>
                         /\ code # 404
                         /\ routes[i].method = req.method => code = 200 /\ by <= i
<1> DEFINE here == {i \in DOMAIN routes : route_matches(routes[i], req.path)}
           mine == {i \in here : routes[i].method = req.method}
<1>1. \A i \in DOMAIN routes : i \in here <=> Fits(routes[i], req)
  <2>1. routes \in Seq(Routes)
    BY DEF RouterRight
  <2>2. \A i \in DOMAIN routes : routes[i] \in Routes
    BY <2>1
  <2> QED
    BY <2>2, MatchIsFit
<1>2. mine \subseteq DOMAIN routes /\ here \subseteq DOMAIN routes
  OBVIOUS
<1>3. \A i : i \in mine <=> i \in here /\ routes[i].method = req.method
  OBVIOUS
<1>4. route(req) = IF req.method = "OPTIONS" THEN Status(204)
                   ELSE IF mine # {} THEN [code |-> 200, by |-> Min(mine)]
                   ELSE Status(IF here # {} THEN 405 ELSE 404)
  BY DEF route
<1> HIDE DEF here, mine
<1>5. CASE req.method = "OPTIONS"
  <2>1. route(req).code = 204
    BY <1>4, <1>5 DEF Status
  <2> QED
    BY <1>5, <2>1
<1>6. CASE req.method # "OPTIONS" /\ mine # {}
  <2>1. route(req).code = 200 /\ route(req).by = Min(mine)
    BY <1>4, <1>6
  <2>2. Min(mine) \in mine /\ \A i \in mine : Min(mine) <= i
    BY <1>2, <1>6, FirstRoute DEF RouterRight
  <2>3. Fits(routes[Min(mine)], req) /\ routes[Min(mine)].method = req.method
    BY <1>1, <1>2, <1>3, <2>2
  <2>4. \A i \in DOMAIN routes : Fits(routes[i], req) /\ routes[i].method = req.method => i \in mine
    BY <1>1, <1>3
  <2>5. \A i \in DOMAIN routes :
           Fits(routes[i], req) /\ routes[i].method = req.method => Min(mine) <= i
    BY <2>2, <2>4
  <2> QED
    BY <2>1, <2>3, <2>5
<1>7. CASE req.method # "OPTIONS" /\ mine = {}
  <2>1. route(req).code = IF here # {} THEN 405 ELSE 404
    BY <1>4, <1>7 DEF Status
  <2>2. \A i \in DOMAIN routes : Fits(routes[i], req) => i \in here /\ routes[i].method # req.method
    BY <1>1, <1>3, <1>7
  <2>3. \A i \in DOMAIN routes : Fits(routes[i], req) => route(req).code = 405
    BY <2>1, <2>2
  <2>4. route(req).code # 200 /\ route(req).code # 401
    BY <2>1
  <2>5. \A i \in DOMAIN routes : Fits(routes[i], req) =>
           /\ route(req).code # 404
           /\ routes[i].method = req.method => route(req).code = 200 /\ route(req).by <= i
    BY <2>2, <2>3
  <2> QED
    BY <2>4, <2>5
<1> QED
  BY <1>5, <1>6, <1>7

LEMMA DispatchInit == Init => DispatchInv
<1> SUFFICES ASSUME Init PROVE DispatchInv
  OBVIOUS
<1>1. RouterInit
  BY DEF Init
<1>2. ini \in Seq(IniLine) /\ config = config_load(ini) /\ routes = <<>> /\ handled = Nothing
  BY <1>1, RouterAssumption DEF RouterInit
<1>3. \A k \in Credentials : config[k] \in {"", "set"} /\ (config[k] = "set" <=> Given(k))
  BY <1>2, ConfigIsGiven
<1>4. DispatchRight
  BY <1>2 DEF DispatchRight
<1>5. routes \in Seq(Routes)
  BY <1>2
<1> QED
  BY <1>3, <1>4, <1>5 DEF DispatchInv, RouterRight

LEMMA GivenStays ==
    ASSUME RouterRight, UNCHANGED <<ini, config>>
    PROVE  /\ \A k : Given(k)' <=> Given(k)
           /\ \A k \in Credentials :
                 config'[k] \in {"", "set"} /\ (config'[k] = "set" <=> Given(k)')
<1>1. \A k : Given(k)' <=> Given(k)
  BY DEF Given, InServer
<1> QED
  BY <1>1 DEF RouterRight

LEMMA PartsStay ==
    ASSUME RouterRight, UNCHANGED <<ini, config, routes, public>>, NEW h
    PROVE  RouterRight' /\ (LetIn(h)' <=> LetIn(h)) /\ (Chosen(h)' <=> Chosen(h))
<1>1. RouterRight'
  BY GivenStays DEF RouterRight
<1>2. \A k : Given(k)' <=> Given(k)
  BY GivenStays
<1>3. path_is_public(h.req)' <=> path_is_public(h.req)
  BY DEF path_is_public
<1>4. LetIn(h)' <=> LetIn(h)
  BY <1>2, <1>3 DEF LetIn, Known, Open, Basic
<1>5. Chosen(h)' <=> Chosen(h)
  BY DEF Chosen
<1> QED
  BY <1>1, <1>4, <1>5

LEMMA DispatchStep ==
    ASSUME RouterRight, NEW req, NEW auth, http_server_dispatch(req, auth)
    PROVE  DispatchInv'
<1> DEFINE refused == config_auth_enabled /\ ~path_is_public(req) /\ ~authorized(auth)
           out == IF refused THEN Status(401) ELSE route(req)
<1>1. UNCHANGED <<ini, config, routes, public>>
  BY DEF http_server_dispatch
<1>2. PICK h : h = handled'
  OBVIOUS
<1>3. h = [req |-> req, auth |-> auth, hooks |-> ~refused, outcome |-> out]
  BY <1>2 DEF http_server_dispatch
<1>4. ~refused <=> Known(auth) \/ Open \/ path_is_public(req)
  BY AuthorizedIsKnown
<1> HIDE DEF refused
<1>5. /\ out.code = 401 <=> refused
      /\ out.code = 200 => Fits(routes[out.by], req) /\ routes[out.by].method = req.method
      /\ ~refused /\ req.method # "OPTIONS" =>
            \A i \in DOMAIN routes : Fits(routes[i], req) =>
                /\ out.code # 404
                /\ routes[i].method = req.method => out.code = 200 /\ out.by <= i
  <2>1. CASE refused
    BY <2>1 DEF Status
  <2>2. CASE ~refused
    <3>1. out = route(req)
      BY <2>2
    <3> HIDE DEF out
    <3> QED
      BY <2>2, <3>1, RouteRight
  <2> QED
    BY <2>1, <2>2
<1> HIDE DEF out
<1>6. h.req = req /\ h.auth = auth /\ h.outcome = out /\ (h.hooks <=> ~refused)
  BY <1>3
<1>7. LetIn(h)
  BY <1>4, <1>6 DEF LetIn
<1>8. Chosen(h)
  BY <1>5, <1>6 DEF Chosen
<1>9. RouterRight' /\ LetIn(h)' /\ Chosen(h)'
  BY <1>1, <1>7, <1>8, PartsStay
<1> QED
  BY <1>2, <1>9 DEF DispatchInv, DispatchRight

LEMMA DispatchNext == DispatchInv /\ [Next]_vars => DispatchInv'
<1> SUFFICES ASSUME DispatchInv, [Next]_vars PROVE DispatchInv'
  OBVIOUS
<1>1. RouterRight /\ DispatchRight
  BY DEF DispatchInv
<1>2. CASE UNCHANGED routerVars
  <2>1. UNCHANGED <<ini, config, routes, public, handled>>
    BY <1>2 DEF routerVars
  <2>2. PICK h : h = handled
    OBVIOUS
  <2>3. h = handled'
    BY <2>1, <2>2
  <2>4. RouterRight' /\ (LetIn(h)' <=> LetIn(h)) /\ (Chosen(h)' <=> Chosen(h))
    BY <1>1, <2>1, PartsStay
  <2> QED
    BY <1>1, <2>2, <2>3, <2>4 DEF DispatchInv, DispatchRight
<1>3. ASSUME NEW r \in RouteSet, add_route(r) PROVE DispatchInv'
  <2>1. UNCHANGED <<ini, config>> /\ handled' = Nothing
    BY <1>3 DEF add_route
  <2>2. routes' \in Seq(Routes)
    <3>1. r \in Routes /\ routes \in Seq(Routes)
      BY <1>1, RouterAssumption DEF RouterRight
    <3>2. routes' = routes \/ routes' = Append(routes, r)
      BY <1>3 DEF add_route
    <3> QED
      BY <3>1, <3>2
  <2>3. RouterRight'
    BY <1>1, <2>1, <2>2, GivenStays DEF RouterRight
  <2>4. DispatchRight'
    BY <2>1 DEF DispatchRight, Nothing
  <2> QED
    BY <2>3, <2>4 DEF DispatchInv
<1>4. ASSUME NEW p \in PrefixSet, http_server_add_public_prefix(p) PROVE DispatchInv'
  <2>1. UNCHANGED <<ini, config, routes>> /\ handled' = Nothing
    BY <1>4 DEF http_server_add_public_prefix
  <2>2. RouterRight'
    BY <1>1, <2>1, GivenStays DEF RouterRight
  <2>3. DispatchRight'
    BY <2>1 DEF DispatchRight, Nothing
  <2> QED
    BY <2>2, <2>3 DEF DispatchInv
<1>5. ASSUME NEW req \in RequestSet, NEW auth \in Headers, http_server_dispatch(req, auth)
      PROVE  DispatchInv'
  BY <1>1, <1>5, DispatchStep
<1>6. RouterNext \/ UNCHANGED routerVars
  BY DEF Next, vars, CrashStep, DnsStep, SettingStep, ClockStep, MdnsStep, RouteStep,
         JsonStep, ReadsStep
<1> QED
  BY <1>2, <1>3, <1>4, <1>5, <1>6 DEF RouterNext

(* For every config.ini, every list of routes and public prefixes in any   *)
(* order, table sizes and every request: a handler and its hooks run only  *)
(* for who holds a credential that config.ini's last line for it sets or   *)
(* that was issued, for a public path, or with nothing configured; the     *)
(* handler is the first registered one of the request's method and path    *)
(* (config.c, http_router.c).                                              *)
THEOREM DispatchedRight == Spec => []DispatchRight
<1>1. DispatchInv => DispatchRight
  BY DEF DispatchInv
<1> QED
  BY <1>1, DispatchInit, DispatchNext, PTL DEF Spec

(* ---- the crash reports ---- *)

(* i comes before j in the answer: newer, or as new and met first.         *)
CrashEntry == [fatal : BOOLEAN, ts : Stamps \cup {Foreign}]
Precedes(E, i, j) == E[i].ts > E[j].ts \/ (E[i].ts = E[j].ts /\ i < j)
Reports(E, k) == {i \in 1..k : parse_name(E[i])}

(* The table after k files: idx says which file each place holds.  They    *)
(* are in order, and a report is missing only from a full table all of     *)
(* which precedes it.                                                      *)
Holds(E, k, max, out, idx) ==
    /\ out \in Seq(CrashEntry) /\ Len(out) <= max
    /\ idx \in [1..Len(out) -> Reports(E, k)]
    /\ \A p \in 1..Len(out) : out[p] = E[idx[p]]
Ordered(E, m, idx) == \A p, q \in 1..m : p < q => Precedes(E, idx[p], idx[q])
Listed(m, idx, i) == \E p \in 1..m : idx[p] = i
LeftOut(E, m, max, idx, i) == m = max /\ \A p \in 1..m : Precedes(E, idx[p], i)
Complete(E, k, max, m, idx) ==
    \A i \in Reports(E, k) : Listed(m, idx, i) \/ LeftOut(E, m, max, idx, i)
Top(E, k, max, out, idx) ==
    Holds(E, k, max, out, idx) /\ Ordered(E, Len(out), idx) /\ Complete(E, k, max, Len(out), idx)

LEMMA GreatestOf ==
    ASSUME NEW S, NEW n \in Nat, S \in SUBSET (0..n), S # {}
    PROVE  Max(S) \in S /\ \A k \in S : k <= Max(S)
<1> DEFINE T == {n - k : k \in S}
<1>1. T \in SUBSET Nat /\ T # {}
  <2>1. \A k \in S : n - k \in Nat
    OBVIOUS
  <2>2. PICK k : k \in S
    OBVIOUS
  <2>3. n - k \in T
    BY <2>2
  <2> QED
    BY <2>1, <2>3
<1>2. PICK t \in T : \A u \in T : t <= u
  <2> HIDE DEF T
  <2> QED
    BY <1>1, LeastNatural
<1>3. PICK m \in S : t = n - m
  OBVIOUS
<1>4. \A k \in S : m >= k
  <2> SUFFICES ASSUME NEW k \in S PROVE m >= k
    OBVIOUS
  <2>1. n - k \in T
    OBVIOUS
  <2>2. n - m <= n - k
    BY <1>2, <1>3, <2>1
  <2>3. m \in 0..n /\ k \in 0..n
    BY <1>3
  <2> QED
    BY <2>2, <2>3
<1>5. Max(S) \in S /\ \A k \in S : Max(S) >= k
  BY <1>3, <1>4 DEF Max
<1> QED
  BY <1>5

LEMMA StampOf ==
    ASSUME NEW E \in Seq(CrashEntry), NEW k \in 0..Len(E), NEW i \in Reports(E, k)
    PROVE  i \in 1..k /\ i \in 1..Len(E) /\ E[i] \in CrashEntry /\ E[i].ts \in Nat /\ E[i].ts \in Stamps
<1>1. i \in 1..k /\ i \in 1..Len(E)
  BY DEF Reports
<1>2. E[i] \in CrashEntry
  BY <1>1
<1>3. E[i].ts # Foreign
  BY DEF Reports, parse_name
<1>4. E[i].ts \in Stamps
  BY <1>2, <1>3 DEF CrashEntry
<1> QED
  BY <1>1, <1>2, <1>4, CrashAssumption

LEMMA PrecedesOrder ==
    ASSUME NEW E \in Seq(CrashEntry), NEW k \in 0..Len(E),
           NEW i \in Reports(E, k), NEW j \in Reports(E, k), NEW l \in Reports(E, k)
    PROVE  /\ ~(Precedes(E, i, j) /\ Precedes(E, j, i))
           /\ Precedes(E, i, j) /\ Precedes(E, j, l) => Precedes(E, i, l)
           /\ i # j => Precedes(E, i, j) \/ Precedes(E, j, i)
<1>1. E[i].ts \in Nat /\ i \in Nat /\ E[j].ts \in Nat /\ j \in Nat /\ E[l].ts \in Nat /\ l \in Nat
  BY StampOf
<1> QED
  BY <1>1 DEF Precedes

(* Where Insert puts the file: after all that is as new, before the rest.  *)
LEMMA PlaceOf ==
    ASSUME NEW E \in Seq(CrashEntry), NEW k \in 0..(Len(E) - 1), NEW max \in Nat,
           NEW out, NEW idx, Top(E, k, max, out, idx), parse_name(E[k + 1])
    PROVE  \E r \in 0..Len(out) :
             /\ r = Max({0} \cup {p \in DOMAIN out : out[p].ts >= E[k + 1].ts})
             /\ \A p \in 1..r : Precedes(E, idx[p], k + 1)
             /\ \A p \in (r + 1)..Len(out) : Precedes(E, k + 1, idx[p])
<1> DEFINE m == Len(out)
           S == {0} \cup {p \in DOMAIN out : out[p].ts >= E[k + 1].ts}
<1>1. out \in Seq(CrashEntry) /\ m \in Nat /\ DOMAIN out = 1..m
  BY DEF Top, Holds
<1>2. S \in SUBSET (0..m) /\ S # {}
  BY <1>1
<1>3. Max(S) \in S /\ \A p \in S : p <= Max(S)
  <2> HIDE DEF S, m
  <2> QED
    BY <1>1, <1>2, GreatestOf
<1>4. PICK r : r = Max(S)
  OBVIOUS
<1>5. r \in 0..m /\ r \in S /\ \A p \in S : p <= r
  BY <1>2, <1>3, <1>4
<1>6. k \in 0..Len(E) /\ k + 1 \in 0..Len(E) /\ k + 1 \in Reports(E, k + 1)
  BY DEF Reports
<1>7. E[k + 1].ts \in Nat
  BY <1>6, StampOf
<1>8. ASSUME NEW p \in 1..m
      PROVE  idx[p] \in 1..k /\ E[idx[p]].ts \in Nat /\ out[p] = E[idx[p]]
  <2>1. idx[p] \in Reports(E, k) /\ out[p] = E[idx[p]]
    BY <1>8 DEF Top, Holds
  <2> QED
    BY <2>1, <1>6, StampOf
<1>9. ASSUME NEW p \in 1..r PROVE Precedes(E, idx[p], k + 1)
  <2>1. p \in 1..m /\ r \in 1..m /\ p <= r
    BY <1>1, <1>5
  <2>2. out[r].ts >= E[k + 1].ts
    BY <1>5, <2>1
  <2>3. E[idx[p]].ts >= E[idx[r]].ts
    <3>1. CASE p = r
      BY <3>1, <1>8, <2>1
    <3>2. CASE p < r
      <4>1. Precedes(E, idx[p], idx[r])
        BY <3>2, <2>1 DEF Top, Ordered
      <4> QED
        BY <4>1, <1>8, <2>1 DEF Precedes
    <3> QED
      BY <3>1, <3>2, <2>1
  <2>4. out[r] = E[idx[r]] /\ E[idx[r]].ts \in Nat /\ E[idx[p]].ts \in Nat /\ idx[p] \in 1..k
    BY <1>8, <2>1
  <2>5. E[idx[p]].ts >= E[k + 1].ts /\ idx[p] < k + 1
    BY <2>2, <2>3, <2>4, <1>7
  <2> QED
    BY <2>4, <2>5, <1>7 DEF Precedes
<1>10. ASSUME NEW p \in (r + 1)..m PROVE Precedes(E, k + 1, idx[p])
  <2>1. p \in 1..m /\ p > r
    BY <1>1, <1>5
  <2>2. p \notin S
    BY <1>5, <2>1
  <2>3. ~(out[p].ts >= E[k + 1].ts)
    BY <2>2, <2>1, <1>1
  <2>4. E[k + 1].ts > E[idx[p]].ts
    BY <2>1, <2>3, <1>7, <1>8
  <2> QED
    BY <2>4 DEF Precedes
<1> HIDE DEF S
<1> QED
  BY <1>4, <1>5, <1>9, <1>10 DEF S

(* The place of each file of the table moves with the table.               *)
Shifted(idx, at, new, last) ==
    [i \in 1..(last + 1) |-> IF i < at THEN idx[i] ELSE IF i = at THEN new ELSE idx[i - 1]]

LEMMA ShiftedAt ==
    ASSUME NEW idx, NEW at \in Nat, NEW new, NEW last \in Nat, NEW i \in 1..(last + 1)
    PROVE  /\ i < at => Shifted(idx, at, new, last)[i] = idx[i]
           /\ i = at => Shifted(idx, at, new, last)[i] = new
           /\ i > at => Shifted(idx, at, new, last)[i] = idx[i - 1]
BY DEF Shifted

LEMMA InsertShifts ==
    ASSUME NEW E \in Seq(CrashEntry), NEW k \in 0..(Len(E) - 1), NEW max \in Nat, max > 0,
           NEW out, NEW idx, Top(E, k, max, out, idx), parse_name(E[k + 1]),
           NEW r \in 0..Len(out), r < max,
           \A p \in 1..r : Precedes(E, idx[p], k + 1),
           \A p \in (r + 1)..Len(out) : Precedes(E, k + 1, idx[p]),
           NEW last, last = IF Len(out) < max THEN Len(out) ELSE max - 1
    PROVE  Top(E, k + 1, max, Shifted(out, r + 1, E[k + 1], last), Shifted(idx, r + 1, k + 1, last))
<1> DEFINE m == Len(out)
           new == Shifted(out, r + 1, E[k + 1], last)
           idn == Shifted(idx, r + 1, k + 1, last)
<1>1. out \in Seq(CrashEntry) /\ m \in Nat /\ m <= max /\ DOMAIN out = 1..m
  BY DEF Top, Holds
<1>a. r \in 0..m /\ last = IF m < max THEN m ELSE max - 1
  OBVIOUS
<1>b. /\ \A p \in 1..r : Precedes(E, idx[p], k + 1)
      /\ \A p \in (r + 1)..m : Precedes(E, k + 1, idx[p])
  OBVIOUS
<1>2. /\ last \in Nat /\ r \in Nat /\ last <= m /\ last + 1 <= max /\ r <= last
      /\ m = max => last = m - 1
      /\ m < max => last = m
  <2> HIDE DEF m
  <2>1. CASE m < max
    BY <1>1, <1>a, <2>1
  <2>2. CASE ~(m < max)
    <3>1. m = max
      BY <1>1, <2>2
    <3>2. last = m - 1
      BY <1>a, <2>2, <3>1
    <3> QED
      BY <1>1, <1>a, <3>1, <3>2
  <2> QED
    BY <2>1, <2>2
<1>3. k \in 0..Len(E) /\ k + 1 \in 0..Len(E) /\ k + 1 \in Reports(E, k + 1) /\ k \in Nat
  BY DEF Reports
<1>4. E[k + 1] \in CrashEntry
  BY <1>3, StampOf
<1>5. ASSUME NEW p \in 1..m PROVE idx[p] \in Reports(E, k) /\ idx[p] \in Reports(E, k + 1) /\ out[p] = E[idx[p]]
  <2>1. idx[p] \in Reports(E, k) /\ out[p] = E[idx[p]]
    BY <1>5 DEF Top, Holds
  <2> QED
    BY <2>1, <1>3 DEF Reports
<1>6. ASSUME NEW i \in 1..(last + 1)
      PROVE  /\ i < r + 1 => i \in 1..m /\ i \in 1..r /\ new[i] = out[i] /\ idn[i] = idx[i]
             /\ i = r + 1 => new[i] = E[k + 1] /\ idn[i] = k + 1
             /\ i > r + 1 => i - 1 \in 1..m /\ i - 1 \in (r + 1)..m /\ new[i] = out[i - 1] /\ idn[i] = idx[i - 1]
  <2>1. r + 1 \in Nat /\ last \in Nat
    BY <1>2
  <2>2. CASE i < r + 1
    <3>1. i \in 1..m /\ i \in 1..r /\ ~(i = r + 1) /\ ~(i > r + 1)
      <4> HIDE DEF m, new, idn
      <4>1. i \in Nat /\ i >= 1 /\ i <= r /\ i <= m
        BY <1>1, <1>2, <2>2
      <4> QED
        BY <4>1, <1>1, <1>2
    <3>2. new[i] = out[i] /\ idn[i] = idx[i]
      BY <2>1, <2>2, ShiftedAt
    <3> HIDE DEF new, idn
    <3> QED
      BY <3>1, <3>2
  <2>3. CASE i = r + 1
    <3>1. ~(i < r + 1) /\ ~(i > r + 1)
      BY <1>2, <2>3
    <3>2. new[i] = E[k + 1] /\ idn[i] = k + 1
      BY <1>2, <2>1, <2>3 DEF Shifted
    <3> HIDE DEF new, idn
    <3> QED
      BY <3>1, <3>2
  <2>4. CASE i > r + 1
    <3>1. i - 1 \in 1..m /\ i - 1 \in (r + 1)..m /\ ~(i = r + 1) /\ ~(i < r + 1)
      <4> HIDE DEF m, new, idn
      <4>1. i \in Nat /\ i >= r + 2 /\ i <= m + 1
        BY <1>1, <1>2, <2>4
      <4> QED
        BY <4>1, <1>1, <1>2
    <3>2. new[i] = out[i - 1] /\ idn[i] = idx[i - 1]
      BY <2>1, <2>4, ShiftedAt
    <3> HIDE DEF new, idn
    <3> QED
      BY <3>1, <3>2
  <2>5. i < r + 1 \/ i = r + 1 \/ i > r + 1
    BY <1>2
  <2> HIDE DEF new, idn
  <2> QED
    BY <2>2, <2>3, <2>4, <2>5
<1>7. new \in Seq(CrashEntry) /\ Len(new) = last + 1
  <2>1. \A i \in 1..(last + 1) : new[i] \in CrashEntry
    <3> SUFFICES ASSUME NEW i \in 1..(last + 1) PROVE new[i] \in CrashEntry
      OBVIOUS
    <3>1. \A p \in 1..m : out[p] \in CrashEntry
      BY <1>1
    <3>2. i < r + 1 \/ i = r + 1 \/ i > r + 1
      BY <1>2
    <3> HIDE DEF new, idn
    <3>3. \/ i \in 1..m /\ new[i] = out[i]
          \/ new[i] = E[k + 1]
          \/ i - 1 \in 1..m /\ new[i] = out[i - 1]
      BY <1>6, <3>2
    <3> QED
      BY <1>4, <3>1, <3>3
  <2>2. new = [i \in 1..(last + 1) |-> new[i]]
    BY DEF Shifted
  <2>3. last + 1 \in Nat
    BY <1>2
  <2> HIDE DEF new
  <2>4. new \in [1..(last + 1) -> CrashEntry]
    BY <2>1, <2>2
  <2> QED
    BY <2>3, <2>4
<1>8. idn \in [1..(last + 1) -> Reports(E, k + 1)]
  <2>1. \A i \in 1..(last + 1) : idn[i] \in Reports(E, k + 1)
    <3> SUFFICES ASSUME NEW i \in 1..(last + 1) PROVE idn[i] \in Reports(E, k + 1)
      OBVIOUS
    <3>1. i < r + 1 \/ i = r + 1 \/ i > r + 1
      BY <1>2
    <3> HIDE DEF new, idn, m
    <3>2. \/ i \in 1..m /\ idn[i] = idx[i]
          \/ idn[i] = k + 1
          \/ i - 1 \in 1..m /\ idn[i] = idx[i - 1]
      BY <1>6, <3>1
    <3> QED
      BY <1>3, <1>5, <3>2
  <2>2. idn = [i \in 1..(last + 1) |-> idn[i]]
    BY DEF Shifted
  <2> HIDE DEF idn
  <2> QED
    BY <2>1, <2>2
<1> HIDE DEF new, idn, m
<1>9. ASSUME NEW i \in 1..(last + 1) PROVE new[i] = E[idn[i]]
  <2>1. i < r + 1 \/ i = r + 1 \/ i > r + 1
    BY <1>2
  <2>2. CASE i < r + 1
    BY <2>2, <1>5, <1>6
  <2>3. CASE i = r + 1
    BY <2>3, <1>6
  <2>4. CASE i > r + 1
    <3>1. i - 1 \in 1..m /\ new[i] = out[i - 1] /\ idn[i] = idx[i - 1]
      BY <2>4, <1>6
    <3> QED
      BY <3>1, <1>5
  <2> QED
    BY <2>1, <2>2, <2>3, <2>4
<1>10. Holds(E, k + 1, max, new, idn)
  BY <1>2, <1>7, <1>8, <1>9 DEF Holds
<1>11. Ordered(E, last + 1, idn)
  <2> SUFFICES ASSUME NEW p \in 1..(last + 1), NEW q \in 1..(last + 1), p < q
               PROVE  Precedes(E, idn[p], idn[q])
    BY DEF Ordered
  <2>0. \A a, b \in 1..m : a < b => Precedes(E, idx[a], idx[b])
    BY DEF Top, Ordered, m
  <2>1. CASE q < r + 1
    <3>1. p < r + 1
      BY <1>2, <2>1
    <3> QED
      BY <2>0, <2>1, <3>1, <1>6
  <2>2. CASE q = r + 1
    <3>1. p < r + 1
      BY <2>2
    <3> QED
      BY <2>2, <3>1, <1>6
  <2>3. CASE q > r + 1 /\ p < r + 1
    <3>1. p < q - 1
      BY <2>3
    <3> QED
      BY <2>0, <2>3, <3>1, <1>6
  <2>4. CASE q > r + 1 /\ p = r + 1
    BY <2>4, <1>6
  <2>5. CASE q > r + 1 /\ p > r + 1
    <3>1. p - 1 < q - 1
      BY <1>2
    <3> QED
      BY <2>0, <2>5, <3>1, <1>6
  <2> QED
    BY <2>1, <2>2, <2>3, <2>4, <2>5, <1>2
<1>12. Complete(E, k + 1, max, last + 1, idn)
  <2> SUFFICES ASSUME NEW i \in Reports(E, k + 1)
               PROVE  Listed(last + 1, idn, i) \/ LeftOut(E, last + 1, max, idn, i)
    BY DEF Complete
  <2>1. CASE i = k + 1
    <3>1. r + 1 \in 1..(last + 1)
      BY <1>2
    <3>2. idn[r + 1] = i
      BY <2>1, <3>1, <1>6
    <3> QED
      BY <3>1, <3>2 DEF Listed
  <2>2. CASE i # k + 1
    <3>1. i \in Reports(E, k)
      BY <2>2, <1>3 DEF Reports
    <3>2. ASSUME NEW p \in 1..m, idx[p] = i, p < r + 1 PROVE Listed(last + 1, idn, i)
      <4>1. p \in 1..(last + 1)
        BY <1>2, <3>2
      <4> QED
        BY <4>1, <1>6, <3>2 DEF Listed
    <3>3. ASSUME NEW p \in 1..m, idx[p] = i, p >= r + 1, p <= last PROVE Listed(last + 1, idn, i)
      <4>1. p + 1 \in 1..(last + 1) /\ p + 1 > r + 1 /\ p + 1 - 1 = p
        BY <1>2, <3>3
      <4>2. idn[p + 1] = idx[p]
        BY <4>1, <1>6
      <4> QED
        BY <4>1, <4>2, <3>3 DEF Listed
    <3>4. ASSUME NEW p \in 1..m, idx[p] = i, p >= r + 1, p > last PROVE LeftOut(E, last + 1, max, idn, i)
      <4>1. m = max /\ p = m /\ last + 1 = max
        BY <1>1, <1>2, <3>4
      <4>2. ASSUME NEW q \in 1..(last + 1) PROVE Precedes(E, idn[q], i)
        <5>0. \A a, b \in 1..m : a < b => Precedes(E, idx[a], idx[b])
          BY DEF Top, Ordered, m
        <5>1. CASE q < r + 1
          <6>1. q < p
            BY <5>1, <3>4, <1>2
          <6> QED
            BY <5>0, <5>1, <6>1, <1>6, <3>4
        <5>2. CASE q = r + 1
          <6>1. p \in (r + 1)..m
            BY <3>4, <1>2
          <6> QED
            BY <5>2, <6>1, <1>6, <1>b, <3>4
        <5>3. CASE q > r + 1
          <6>1. q - 1 < p
            BY <4>1, <1>2
          <6> QED
            BY <5>0, <5>3, <6>1, <1>6, <3>4
        <5> QED
          BY <5>1, <5>2, <5>3, <1>2
      <4> QED
        BY <4>1, <4>2 DEF LeftOut
    <3>5. ASSUME LeftOut(E, m, max, idx, i) PROVE LeftOut(E, last + 1, max, idn, i)
      <4>1. m = max /\ last + 1 = max /\ \A p \in 1..m : Precedes(E, idx[p], i)
        BY <3>5, <1>2 DEF LeftOut
      <4>2. Precedes(E, k + 1, i)
        <5>1. r + 1 \in 1..m /\ r + 1 \in (r + 1)..m
          BY <4>1, <1>1
        <5>2. Precedes(E, k + 1, idx[r + 1]) /\ Precedes(E, idx[r + 1], i)
          BY <4>1, <5>1, <1>b
        <5>3. idx[r + 1] \in Reports(E, k + 1)
          BY <5>1, <1>5
        <5> QED
          BY <5>2, <5>3, <1>3, PrecedesOrder
      <4>3. ASSUME NEW q \in 1..(last + 1) PROVE Precedes(E, idn[q], i)
        BY <4>1, <4>2, <1>2, <1>6
      <4> QED
        BY <4>1, <4>3 DEF LeftOut
    <3>6. Listed(m, idx, i) \/ LeftOut(E, m, max, idx, i)
      BY <3>1 DEF Top, Complete, m
    <3>7. CASE Listed(m, idx, i)
      <4>1. PICK p \in 1..m : idx[p] = i
        BY <3>7 DEF Listed
      <4>2. p < r + 1 \/ (p >= r + 1 /\ p <= last) \/ (p >= r + 1 /\ p > last)
        BY <1>2
      <4> QED
        BY <4>1, <4>2, <3>2, <3>3, <3>4
    <3> QED
      BY <3>5, <3>6, <3>7
  <2> QED
    BY <2>1, <2>2
<1>13. Top(E, k + 1, max, new, idn)
  BY <1>7, <1>10, <1>11, <1>12 DEF Top
<1> QED
  BY <1>13 DEF new, idn

(* A file taken, and one that is no report.                                *)
LEMMA InsertKeepsTop ==
    ASSUME NEW E \in Seq(CrashEntry), NEW k \in 0..(Len(E) - 1), NEW max \in Nat, max > 0,
           NEW out, NEW idx, Top(E, k, max, out, idx), parse_name(E[k + 1])
    PROVE  \E idn : Top(E, k + 1, max, Insert(out, E[k + 1], max), idn)
<1>1. PICK r \in 0..Len(out) :
         /\ r = Max({0} \cup {p \in DOMAIN out : out[p].ts >= E[k + 1].ts})
         /\ \A p \in 1..r : Precedes(E, idx[p], k + 1)
         /\ \A p \in (r + 1)..Len(out) : Precedes(E, k + 1, idx[p])
  BY PlaceOf
<1>2. PICK last : last = IF Len(out) < max THEN Len(out) ELSE max - 1
  OBVIOUS
<1>3. Insert(out, E[k + 1], max) =
         IF r + 1 > max THEN out ELSE Shifted(out, r + 1, E[k + 1], last)
  <2>1. 1 + r = r + 1
    OBVIOUS
  <2> QED
    BY <1>1, <1>2, <2>1 DEF Insert, Shifted
<1>4. out \in Seq(CrashEntry) /\ Len(out) \in Nat /\ Len(out) <= max
  BY DEF Top, Holds
<1>5. CASE r < max
  <2>1. Top(E, k + 1, max, Shifted(out, r + 1, E[k + 1], last), Shifted(idx, r + 1, k + 1, last))
    BY <1>1, <1>2, <1>5, InsertShifts
  <2>2. ~(r + 1 > max)
    BY <1>5
  <2> QED
    BY <2>1, <2>2, <1>3
<1>6. CASE ~(r < max)
  <2>1. r = Len(out) /\ Len(out) = max /\ r + 1 > max
    BY <1>4, <1>6
  <2>2. \A i \in Reports(E, k + 1) : i \in Reports(E, k) \/ i = k + 1
    BY DEF Reports
  <2>3. Complete(E, k + 1, max, Len(out), idx)
    <3>1. ASSUME NEW i \in Reports(E, k + 1)
          PROVE  Listed(Len(out), idx, i) \/ LeftOut(E, Len(out), max, idx, i)
      <4>1. CASE i \in Reports(E, k)
        BY <4>1 DEF Top, Complete
      <4>2. CASE i = k + 1
        BY <4>2, <1>1, <2>1 DEF LeftOut
      <4> QED
        BY <4>1, <4>2, <2>2
    <3> QED
      BY <3>1 DEF Complete
  <2>4. Reports(E, k) \subseteq Reports(E, k + 1)
    BY DEF Reports
  <2>5. Holds(E, k + 1, max, out, idx)
    BY <2>4 DEF Top, Holds
  <2> QED
    BY <1>3, <2>1, <2>3, <2>5 DEF Top
<1> QED
  BY <1>5, <1>6, <1>4

LEMMA SkipKeepsTop ==
    ASSUME NEW E \in Seq(CrashEntry), NEW k \in 0..(Len(E) - 1), NEW max \in Nat,
           NEW out, NEW idx, Top(E, k, max, out, idx), ~parse_name(E[k + 1])
    PROVE  Top(E, k + 1, max, out, idx)
<1>1. Reports(E, k + 1) = Reports(E, k)
  BY DEF Reports
<1> QED
  BY <1>1 DEF Top, Holds, Complete

Table(max) == {out \in Seq(CrashEntry) : Len(out) <= max}

LEMMA InsertType ==
    ASSUME NEW max \in Nat, NEW out \in Table(max), NEW e \in CrashEntry
    PROVE  Insert(out, e, max) \in Table(max)
<1> DEFINE S == {0} \cup {p \in DOMAIN out : out[p].ts >= e.ts}
<1>1. PICK m : m = Len(out)
  OBVIOUS
<1>2. m \in Nat /\ m <= max /\ DOMAIN out = 1..m /\ \A p \in 1..m : out[p] \in CrashEntry
  BY <1>1 DEF Table
<1>3. S \in SUBSET (0..m) /\ S # {}
  BY <1>2
<1>4. PICK r : r = Max(S)
  OBVIOUS
<1>5. r \in 0..m
  <2> HIDE DEF S
  <2>1. Max(S) \in S
    BY <1>2, <1>3, GreatestOf
  <2> QED
    BY <2>1, <1>3, <1>4
<1>6. PICK last : last = IF m < max THEN m ELSE max - 1
  OBVIOUS
<1>7. Insert(out, e, max) = IF 1 + r > max THEN out ELSE Shifted(out, 1 + r, e, last)
  BY <1>1, <1>4, <1>6 DEF Insert, Shifted
<1>8. CASE 1 + r > max
  BY <1>7, <1>8
<1>9. CASE ~(1 + r > max)
  <2>0. r \in Nat /\ r < max
    BY <1>5, <1>9
  <2>1. last \in Nat /\ last <= m /\ last + 1 <= max
    BY <2>0, <1>2, <1>6
  <2>2. ASSUME NEW i \in 1..(last + 1)
        PROVE  (IF i < 1 + r THEN out[i] ELSE IF i = 1 + r THEN e ELSE out[i - 1]) \in CrashEntry
    <3>1. CASE i < 1 + r
      <4>1. i \in 1..m
        BY <3>1, <1>2, <1>5
      <4> QED
        BY <3>1, <4>1, <1>2
    <3>2. CASE i = 1 + r
      <4>1. ~(i < 1 + r)
        BY <3>2, <2>0
      <4> QED
        BY <3>2, <4>1
    <3>3. CASE i > 1 + r
      <4>1. i - 1 \in 1..m /\ ~(i < 1 + r) /\ ~(i = 1 + r)
        BY <3>3, <1>2, <2>0, <2>1
      <4> QED
        BY <4>1, <1>2
    <3> QED
      BY <3>1, <3>2, <3>3, <2>0
  <2>3. Shifted(out, 1 + r, e, last) \in [1..(last + 1) -> CrashEntry]
    BY <2>2 DEF Shifted
  <2>4. PICK new : new = Shifted(out, 1 + r, e, last)
    OBVIOUS
  <2>5. new \in Seq(CrashEntry) /\ Len(new) = last + 1
    BY <2>1, <2>3, <2>4
  <2>6. new \in Table(max)
    BY <2>1, <2>5 DEF Table
  <2> QED
    BY <2>4, <2>6, <1>7, <1>9
<1> QED
  BY <1>8, <1>9

(* The table after each file.                                              *)
Taken(E, max, out, i) == IF parse_name(E[i]) THEN Insert(out, E[i], max) ELSE out

LEMMA TableExists ==
    ASSUME NEW E \in Seq(CrashEntry), NEW max \in Nat
    PROVE  \E h : h = [i \in 0..Len(E) |-> IF i = 0 THEN <<>> ELSE Taken(E, max, h[i - 1], i)]
<1> DEFINE N == Len(E)
           step == [p \in Table(max) \X (1..N) |-> Taken(E, max, p[1], p[2])]
<1>1. N \in Nat /\ \A i \in 1..N : E[i] \in CrashEntry
  OBVIOUS
<1>2. \A c \in Table(max), i \in 1..N : step[<<c, i>>] = Taken(E, max, c, i)
  OBVIOUS
<1>3. ClosedUnder(step, Table(max), N)
  BY <1>1, <1>2, InsertType DEF ClosedUnder, Taken
<1>4. <<>> \in Table(max)
  BY DEF Table
<1> HIDE DEF step, N
<1>5. PICK g : Recursive(g, N, Table(max), <<>>, step)
  BY <1>1, <1>3, <1>4, RecursionExists
<1>6. ASSUME NEW i \in 0..N, i # 0 PROVE g[i] = Taken(E, max, g[i - 1], i)
  <2>1. i \in 1..N /\ i - 1 \in 0..N
    BY <1>1, <1>6
  <2> QED
    BY <1>2, <1>5, <2>1 DEF Recursive
<1>7. g = [i \in 0..N |-> IF i = 0 THEN <<>> ELSE Taken(E, max, g[i - 1], i)]
  BY <1>5, <1>6 DEF Recursive
<1> QED
  BY <1>7 DEF N

LEMMA TableGrows ==
    ASSUME NEW dirs, Entries(dirs) \in Seq(CrashEntry), NEW max \in Nat
    PROVE  \E f : /\ crash_list(dirs, max) = f[Len(Entries(dirs))]
                  /\ f[0] = <<>>
                  /\ \A i \in 1..Len(Entries(dirs)) : f[i] = Taken(Entries(dirs), max, f[i - 1], i)
<1>1. PICK E : E = Entries(dirs)
  OBVIOUS
<1>a. E \in Seq(CrashEntry)
  BY <1>1
<1>3. PICK h : h = [i \in 0..Len(E) |-> IF i = 0 THEN <<>> ELSE Taken(E, max, h[i - 1], i)]
  BY <1>a, TableExists, Zenon
<1> DEFINE listed[i \in 0..Len(E)] ==
              IF i = 0 THEN <<>>
              ELSE IF parse_name(E[i]) THEN Insert(listed[i - 1], E[i], max) ELSE listed[i - 1]
<1>2. crash_list(dirs, max) = listed[Len(E)]
  BY <1>1 DEF crash_list
<1>4. listed = [i \in 0..Len(E) |->
                IF i = 0 THEN <<>>
                ELSE IF parse_name(E[i]) THEN Insert(listed[i - 1], E[i], max) ELSE listed[i - 1]]
  <2>1. h = [i \in 0..Len(E) |->
                IF i = 0 THEN <<>>
                ELSE IF parse_name(E[i]) THEN Insert(h[i - 1], E[i], max) ELSE h[i - 1]]
    BY <1>3 DEF Taken
  <2> QED
    BY <2>1
<1> HIDE DEF listed
<1>5. Len(E) \in Nat
  BY <1>1
<1>b. listed[0] = <<>>
  BY <1>4, <1>5
<1>c. ASSUME NEW i \in 1..Len(E) PROVE listed[i] = Taken(E, max, listed[i - 1], i)
  <2>1. i \in 0..Len(E) /\ i # 0
    BY <1>5
  <2>2. listed[i] = IF parse_name(E[i]) THEN Insert(listed[i - 1], E[i], max) ELSE listed[i - 1]
    BY <1>4, <2>1
  <2> QED
    BY <2>2 DEF Taken
<1>6. listed[0] = <<>> /\ \A i \in 1..Len(E) : listed[i] = Taken(E, max, listed[i - 1], i)
  BY <1>b, <1>c
<1> QED
  BY <1>1, <1>2, <1>6

LEMMA ListIsTop ==
    ASSUME NEW dirs, Entries(dirs) \in Seq(CrashEntry), NEW max \in Nat, max > 0
    PROVE  \E idx : Top(Entries(dirs), Len(Entries(dirs)), max, crash_list(dirs, max), idx)
<1>1. PICK E : E = Entries(dirs)
  OBVIOUS
<1>2. PICK N : N = Len(E)
  OBVIOUS
<1>3. E \in Seq(CrashEntry) /\ N \in Nat
  BY <1>1, <1>2
<1>4. PICK f : /\ crash_list(dirs, max) = f[N]
               /\ f[0] = <<>>
               /\ \A i \in 1..N : f[i] = Taken(E, max, f[i - 1], i)
  BY <1>1, <1>2, TableGrows
<1> DEFINE P == {k \in 0..N : \E idx : Top(E, k, max, f[k], idx)}
<1>5. 0 \in P
  <2>1. PICK idx : idx \in [1..0 -> Reports(E, 0)]
    <3>1. [p \in 1..0 |-> 0] \in [1..0 -> Reports(E, 0)]
      OBVIOUS
    <3> QED
      BY <3>1
  <2>2. Len(<<>>) = 0 /\ 1..0 = {} /\ <<>> \in Seq(CrashEntry)
    OBVIOUS
  <2>3. Reports(E, 0) = {}
    BY <2>2 DEF Reports
  <2>4. Holds(E, 0, max, <<>>, idx) /\ Ordered(E, 0, idx) /\ Complete(E, 0, max, 0, idx)
    BY <2>1, <2>2, <2>3 DEF Holds, Ordered, Complete
  <2>5. Top(E, 0, max, f[0], idx)
    BY <1>4, <2>2, <2>4 DEF Top
  <2> QED
    BY <1>3, <2>5
<1>6. ASSUME NEW k \in 0..(N - 1), k \in P PROVE k + 1 \in P
  <2>1. PICK idx : Top(E, k, max, f[k], idx)
    BY <1>6
  <2>2. k + 1 \in 1..N /\ k + 1 - 1 = k /\ k + 1 \in 0..N /\ k \in 0..(Len(E) - 1)
    BY <1>2, <1>3
  <2>3. f[k + 1] = Taken(E, max, f[k], k + 1)
    BY <1>4, <2>2
  <2>4. \E idn : Top(E, k + 1, max, f[k + 1], idn)
    <3>1. CASE parse_name(E[k + 1])
      <4>1. f[k + 1] = Insert(f[k], E[k + 1], max)
        BY <2>3, <3>1 DEF Taken
      <4> QED
        BY <1>3, <2>1, <2>2, <3>1, <4>1, InsertKeepsTop
    <3>2. CASE ~parse_name(E[k + 1])
      <4>1. f[k + 1] = f[k]
        BY <2>3, <3>2 DEF Taken
      <4> QED
        BY <1>3, <2>1, <2>2, <3>2, <4>1, SkipKeepsTop
    <3> QED
      BY <3>1, <3>2
  <2> QED
    BY <2>2, <2>4
<1>7. N \in P
  <2> HIDE DEF P
  <2>1. \A n \in 0..N : n \in P
    BY <1>3, <1>5, <1>6, SetInduction
  <2> QED
    BY <1>3, <2>1
<1> QED
  BY <1>1, <1>2, <1>4, <1>7

LEMMA CountPlaces ==
    ASSUME NEW m \in Nat, NEW idx, \A p, q \in 1..m : p < q => idx[p] # idx[q]
    PROVE  IsFiniteSet({idx[p] : p \in 1..m}) /\ Cardinality({idx[p] : p \in 1..m}) = m
<1> DEFINE S == {idx[p] : p \in 1..m}
           g == [p \in 1..m |-> idx[p]]
<1>1. g \in [1..m -> S] /\ \A t \in S : \E p \in 1..m : g[p] = t
  OBVIOUS
<1>2. \A p, q \in DOMAIN g : g[p] = g[q] => p = q
  <2> SUFFICES ASSUME NEW p \in 1..m, NEW q \in 1..m, g[p] = g[q], p # q PROVE FALSE
    OBVIOUS
  <2>1. p < q \/ q < p
    OBVIOUS
  <2> QED
    BY <2>1
<1> HIDE DEF g, S
<1>3. g \in Bijection(1..m, S)
  BY <1>1, <1>2 DEF Bijection, Injection, Surjection, IsInjective
<1>4. ExistsBijection(1..m, S)
  BY <1>3 DEF ExistsBijection
<1>5. Cardinality(S) = m
  BY <1>4, FS_CountingElements
<1>6. IsFiniteSet(S)
  BY <1>4, FS_NatBijection
<1> QED
  BY <1>5, <1>6 DEF S

(* The list is the head of the order: of the reports, as many as fit, each *)
(* at the place the reports before it leave.                               *)
Earlier(E, i) == {j \in Reports(E, Len(E)) : Precedes(E, j, i)}

LEMMA TopIsNewest ==
    ASSUME NEW E \in Seq(CrashEntry), NEW max \in Nat, max > 0, NEW out, NEW idx,
           Top(E, Len(E), max, out, idx)
    PROVE  /\ Len(out) = IF Cardinality(Reports(E, Len(E))) < max
                           THEN Cardinality(Reports(E, Len(E))) ELSE max
           /\ \A i \in Reports(E, Len(E)) : Cardinality(Earlier(E, i)) < max =>
                 out[Cardinality(Earlier(E, i)) + 1] = E[i]
<1>1. PICK N : N = Len(E)
  OBVIOUS
<1>2. PICK m : m = Len(out)
  OBVIOUS
<1>3. PICK R : R = Reports(E, N)
  OBVIOUS
<1>4. N \in Nat /\ m \in Nat /\ m <= max
  BY <1>1, <1>2 DEF Top, Holds
<1>5. ASSUME NEW p \in 1..m PROVE idx[p] \in R /\ out[p] = E[idx[p]]
  BY <1>1, <1>2, <1>3, <1>5 DEF Top, Holds
<1>6. ASSUME NEW i \in R, NEW j \in R PROVE ~(Precedes(E, i, j) /\ Precedes(E, j, i))
  <2>1. N \in 0..Len(E)
    BY <1>1, <1>4
  <2> QED
    BY <1>3, <1>6, <2>1, PrecedesOrder
<1>7. ASSUME NEW p \in 1..m, NEW q \in 1..m, p < q
      PROVE  Precedes(E, idx[p], idx[q]) /\ idx[p] # idx[q]
  <2>1. Precedes(E, idx[p], idx[q])
    BY <1>2, <1>7 DEF Top, Ordered
  <2> QED
    BY <1>5, <1>6, <2>1
<1>8. ASSUME NEW i \in R PROVE Listed(m, idx, i) \/ LeftOut(E, m, max, idx, i)
  BY <1>1, <1>2, <1>3, <1>8 DEF Top, Complete
<1>9. IsFiniteSet(R) /\ Cardinality(R) \in Nat
  <2>1. R \in SUBSET (1..N) /\ IsFiniteSet(1..N)
    BY <1>3, <1>4, FS_Interval DEF Reports
  <2>2. IsFiniteSet(R)
    BY <2>1, FS_Subset
  <2> QED
    BY <2>2, FS_CardinalityType
<1>10. PICK I : I = {idx[p] : p \in 1..m}
  OBVIOUS
<1>11. IsFiniteSet(I) /\ Cardinality(I) = m
  <2>1. \A p, q \in 1..m : p < q => idx[p] # idx[q]
    BY <1>7
  <2> QED
    BY <1>4, <1>10, <2>1, CountPlaces
<1>12. I \in SUBSET R
  BY <1>5, <1>10
<1>13. m = IF Cardinality(R) < max THEN Cardinality(R) ELSE max
  <2>1. m <= Cardinality(R)
    BY <1>9, <1>11, <1>12, FS_Subset
  <2>2. CASE m = max
    BY <2>1, <2>2, <1>4, <1>9
  <2>3. CASE m # max
    <3>1. I = R
      BY <1>8, <1>10, <1>12, <2>3 DEF Listed, LeftOut
    <3> QED
      BY <3>1, <1>4, <1>11, <2>3
  <2> QED
    BY <2>2, <2>3
<1>14. ASSUME NEW i \in R, Cardinality(Earlier(E, i)) < max
       PROVE  out[Cardinality(Earlier(E, i)) + 1] = E[i]
  <2>1. PICK B : B = Earlier(E, i)
    OBVIOUS
  <2>2. B = {j \in R : Precedes(E, j, i)}
    BY <1>1, <1>3, <2>1 DEF Earlier
  <2>3. IsFiniteSet(B) /\ Cardinality(B) \in Nat
    <3>1. B \in SUBSET R
      BY <2>2
    <3>2. IsFiniteSet(B)
      BY <3>1, <1>9, FS_Subset
    <3> QED
      BY <3>2, FS_CardinalityType
  <2>4. ~LeftOut(E, m, max, idx, i)
    <3> SUFFICES ASSUME LeftOut(E, m, max, idx, i) PROVE FALSE
      OBVIOUS
    <3>1. m = max /\ \A p \in 1..m : Precedes(E, idx[p], i)
      BY DEF LeftOut
    <3>2. I \in SUBSET B
      BY <3>1, <1>5, <1>10, <2>2
    <3>3. Cardinality(I) <= Cardinality(B)
      BY <3>2, <2>3, FS_Subset
    <3> QED
      BY <3>1, <3>3, <1>11, <1>14, <2>1, <2>3
  <2>5. PICK p \in 1..m : idx[p] = i
    BY <1>8, <2>4 DEF Listed
  <2>6. B = {idx[q] : q \in 1..(p - 1)}
    <3>1. ASSUME NEW q \in 1..(p - 1) PROVE idx[q] \in B
      <4>1. q \in 1..m /\ q < p
        BY <1>4, <2>5
      <4> QED
        BY <4>1, <1>5, <1>7, <2>2, <2>5
    <3>2. ASSUME NEW j \in B PROVE \E q \in 1..(p - 1) : j = idx[q]
      <4>1. j \in R /\ Precedes(E, j, i)
        BY <2>2
      <4>2. ~Precedes(E, i, j)
        BY <4>1, <1>6
      <4>3. ~LeftOut(E, m, max, idx, j)
        BY <4>2, <2>5 DEF LeftOut
      <4>4. PICK q \in 1..m : idx[q] = j
        BY <4>1, <4>3, <1>8 DEF Listed
      <4>5. ~(p < q)
        BY <4>2, <4>4, <1>7, <2>5
      <4>6. p # q
        BY <4>1, <4>2, <4>4, <2>5
      <4>7. q \in 1..(p - 1)
        BY <4>5, <4>6, <1>4
      <4> QED
        BY <4>4, <4>7
    <3> QED
      BY <3>1, <3>2
  <2>7. Cardinality(B) = p - 1
    <3>1. p - 1 \in Nat
      BY <1>4, <2>5
    <3>2. \A a, b \in 1..(p - 1) : a < b => idx[a] # idx[b]
      <4>1. \A a \in 1..(p - 1) : a \in 1..m
        BY <1>4, <2>5
      <4> QED
        BY <4>1, <1>7
    <3> QED
      BY <3>1, <3>2, <2>6, CountPlaces
  <2>8. Cardinality(B) + 1 = p
    BY <2>7, <1>4, <2>5
  <2> QED
    BY <2>1, <2>5, <2>8, <1>5
<1> QED
  BY <1>1, <1>2, <1>3, <1>13, <1>14

LEMMA EntriesType ==
    ASSUME NEW crash \in Directory, NEW fatal \in Directory
    PROVE  Entries(<<crash, fatal>>) \in Seq(CrashEntry)
<1>1. ASSUME NEW d \in Directory, NEW b \in BOOLEAN
      PROVE  [i \in DOMAIN d |-> Entry(b, d[i])] \in Seq(CrashEntry)
  <2>1. PICK n \in 0..MaxEntries : d \in [1..n -> Stamps \cup {Foreign}]
    BY DEF Directory
  <2>2. n \in Nat
    BY <2>1, CrashAssumption
  <2>3. [i \in 1..n |-> Entry(b, d[i])] \in [1..n -> CrashEntry]
    BY <2>1 DEF Entry, CrashEntry
  <2>4. DOMAIN d = 1..n
    BY <2>1
  <2>5. [i \in 1..n |-> Entry(b, d[i])] \in Seq(CrashEntry)
    BY <2>2, <2>3
  <2> QED
    BY <2>4, <2>5
<1>2. PICK x : x = [i \in DOMAIN crash |-> Entry(FALSE, crash[i])]
  OBVIOUS
<1>3. PICK y : y = [i \in DOMAIN fatal |-> Entry(TRUE, fatal[i])]
  OBVIOUS
<1>4. x \in Seq(CrashEntry) /\ y \in Seq(CrashEntry)
  BY <1>1, <1>2, <1>3
<1>5. Entries(<<crash, fatal>>) = x \o y
  BY <1>2, <1>3 DEF Entries
<1>6. x \o y \in Seq(CrashEntry)
  BY <1>4
<1>7. PICK z : z = x \o y
  OBVIOUS
<1> QED
  BY <1>5, <1>6, <1>7

(* What the property says of a list, over the table's terms.               *)
NewestOf(E, max, out) ==
    /\ Len(out) = IF Cardinality(Reports(E, Len(E))) < max
                    THEN Cardinality(Reports(E, Len(E))) ELSE max
    /\ \A i \in Reports(E, Len(E)) : Cardinality(Earlier(E, i)) < max =>
          out[Cardinality(Earlier(E, i)) + 1] = E[i]

LEMMA ListIsNewest ==
    ASSUME NEW crash \in Directory, NEW fatal \in Directory, NEW limit \in 1..MaxReports
    PROVE  NewestOf(Entries(<<crash, fatal>>), limit, crash_list(<<crash, fatal>>, limit))
<1>1. PICK E : E = Entries(<<crash, fatal>>)
  OBVIOUS
<1>2. PICK out : out = crash_list(<<crash, fatal>>, limit)
  OBVIOUS
<1>3. E \in Seq(CrashEntry) /\ limit \in Nat /\ limit > 0
  BY <1>1, EntriesType, CrashAssumption
<1>4. PICK idx : Top(E, Len(E), limit, out, idx)
  BY <1>1, <1>2, <1>3, ListIsTop
<1>5. NewestOf(E, limit, out)
  BY <1>3, <1>4, TopIsNewest DEF NewestOf
<1> QED
  BY <1>1, <1>2, <1>5

LEMMA NewestIs ==
    ASSUME NEW E, E \in Seq(CrashEntry), NEW max, NEW out, NewestOf(E, max, out)
    PROVE  LET Found == {i \in DOMAIN E : parse_name(E[i])}
               Before(i) == {j \in Found : \/ E[j].ts > E[i].ts
                                           \/ E[j].ts = E[i].ts /\ j < i}
           IN  /\ Len(out) = IF Cardinality(Found) < max THEN Cardinality(Found) ELSE max
               /\ \A i \in Found : Cardinality(Before(i)) < max =>
                     out[Cardinality(Before(i)) + 1] = E[i]
<1> DEFINE Found == {i \in DOMAIN E : parse_name(E[i])}
           Before(i) == {j \in Found : \/ E[j].ts > E[i].ts
                                       \/ E[j].ts = E[i].ts /\ j < i}
<1>1. Found = Reports(E, Len(E))
  BY DEF Reports
<1>2. \A i : Before(i) = Earlier(E, i)
  BY <1>1 DEF Earlier, Precedes
<1> HIDE DEF Found, Before
<1>3. /\ Len(out) = IF Cardinality(Found) < max THEN Cardinality(Found) ELSE max
      /\ \A i \in Found : Cardinality(Before(i)) < max =>
            out[Cardinality(Before(i)) + 1] = E[i]
  BY <1>1, <1>2 DEF NewestOf
<1> QED
  BY <1>3 DEF Found, Before

LEMMA ReportsListed ==
    ASSUME NEW limit, get_reports(limit) PROVE NewestReports'
<1>1. CASE limit \in 1..MaxReports
  <2>1. PICK crash \in Directory, fatal \in Directory :
          reports' = [answer |-> "list", dirs |-> <<crash, fatal>>, limit |-> limit,
                      out |-> crash_list(<<crash, fatal>>, limit)]
    BY <1>1 DEF get_reports
  <2>2. PICK E : E = Entries(<<crash, fatal>>)
    OBVIOUS
  <2>3. PICK out : out = crash_list(<<crash, fatal>>, limit)
    OBVIOUS
  <2>4. E \in Seq(CrashEntry) /\ NewestOf(E, limit, out)
    BY <1>1, <2>2, <2>3, EntriesType, ListIsNewest
  <2>5. Entries(reports'.dirs) = E /\ reports'.limit = limit /\ reports'.out = out
    BY <2>1, <2>2, <2>3
  <2> DEFINE Found == {i \in DOMAIN E : parse_name(E[i])}
             Before(i) == {j \in Found : \/ E[j].ts > E[i].ts
                                         \/ E[j].ts = E[i].ts /\ j < i}
  <2>6. /\ Len(out) = IF Cardinality(Found) < limit THEN Cardinality(Found) ELSE limit
        /\ \A i \in Found : Cardinality(Before(i)) < limit =>
              out[Cardinality(Before(i)) + 1] = E[i]
    BY <2>4, NewestIs
  <2> QED
    BY <2>5, <2>6 DEF NewestReports, Entries, Entry, parse_name
<1>2. CASE limit \notin 1..MaxReports
  BY <1>2 DEF get_reports, NewestReports
<1> QED
  BY <1>1, <1>2

LEMMA NewestNext == NewestReports /\ [Next]_vars => NewestReports'
<1> SUFFICES ASSUME NewestReports, [Next]_vars PROVE NewestReports'
  OBVIOUS
<1>1. ASSUME NEW limit, get_reports(limit) \/ tool_list_crash_reports(limit) PROVE NewestReports'
  <2>1. CASE get_reports(limit)
    BY <2>1, ReportsListed
  <2>2. CASE reports' = [answer |-> "out of memory"]
    BY <2>2 DEF NewestReports
  <2> QED
    BY <1>1, <2>1, <2>2 DEF tool_list_crash_reports
<1>2. CASE UNCHANGED reports
  BY <1>2 DEF NewestReports
<1>3. CrashNext \/ UNCHANGED reports
  BY DEF Next, vars, CrashStep, DnsStep, SettingStep, ClockStep, MdnsStep, RouteStep,
         JsonStep, ReadsStep
<1> QED
  BY <1>1, <1>2, <1>3 DEF CrashNext

(* For every content of the two directories, in any order, and every       *)
(* limit: the list is the newest reports, newest first, as many as the     *)
(* limit allows, equal timestamps in the order of the files (crash.c,      *)
(* crash_list).                                                            *)
THEOREM ReportsAreNewest == Spec => []NewestReports
<1>1. Init => NewestReports
  BY DEF Init, CrashInit, NoReports, NewestReports
<1> QED
  BY <1>1, NewestNext, PTL DEF Spec

(* ---- what is read from the card ---- *)

LEMMA LeastOf ==
    ASSUME NEW S, S \in SUBSET Nat, S # {}
    PROVE  Min(S) \in S /\ \A k \in S : Min(S) <= k
<1>1. PICK m \in S : \A k \in S : m <= k
  BY LeastNatural
<1>2. Min(S) \in S /\ \A k \in S : Min(S) =< k
  BY <1>1 DEF Min
<1> QED
  BY <1>2

LEMMA LesserOf ==
    ASSUME NEW a \in Int, NEW b \in Int
    PROVE  /\ Min({a, b}) = IF a <= b THEN a ELSE b
           /\ Max({a, b}) = IF a >= b THEN a ELSE b
<1>1. \E m \in {a, b} : \A k \in {a, b} : m =< k
  OBVIOUS
<1>2. Min({a, b}) \in {a, b} /\ \A k \in {a, b} : Min({a, b}) =< k
  BY <1>1 DEF Min
<1>3. \E m \in {a, b} : \A k \in {a, b} : m >= k
  OBVIOUS
<1>4. Max({a, b}) \in {a, b} /\ \A k \in {a, b} : Max({a, b}) >= k
  BY <1>3 DEF Max
<1>5. PICK x, y : x = Min({a, b}) /\ y = Max({a, b})
  OBVIOUS
<1> QED
  BY <1>2, <1>4, <1>5

LEMMA LeastOfThree ==
    ASSUME NEW a \in Int, NEW b \in Int, NEW c \in Int
    PROVE  Min({a, b, c}) \in {a, b, c} /\ \A k \in {a, b, c} : Min({a, b, c}) <= k
<1>1. \E m \in {a, b, c} : \A k \in {a, b, c} : m =< k
  <2>1. CASE a <= b /\ a <= c
    BY <2>1
  <2>2. CASE b <= a /\ b <= c
    BY <2>2
  <2>3. CASE c <= a /\ c <= b
    BY <2>3
  <2> QED
    BY <2>1, <2>2, <2>3
<1>2. Min({a, b, c}) \in {a, b, c} /\ \A k \in {a, b, c} : Min({a, b, c}) =< k
  BY <1>1 DEF Min
<1> QED
  BY <1>2

(* ---- a path that climbs ---- *)

Dots(path, i) == i < Len(path) /\ path[i] = "." /\ path[i + 1] = "."
Segments(path, i) == (i = 1 \/ path[i - 1] = "/") /\ (i + 2 > Len(path) \/ path[i + 2] = "/")
Scans(path, p, i) ==
    IF p \in 1..i /\ Dots(path, i) THEN IF Segments(path, i) THEN 0 ELSE i + 2 ELSE p

LEMMA ScanExists ==
    ASSUME NEW path \in Seq(STRING)
    PROVE  \E h : h = [i \in 0..Len(path) |-> IF i = 0 THEN 1 ELSE Scans(path, h[i - 1], i)]
<1> DEFINE N == Len(path)
           step == [p \in Nat \X (1..N) |-> Scans(path, p[1], p[2])]
<1>1. N \in Nat
  OBVIOUS
<1>2. \A p \in Nat, i \in 1..N : step[<<p, i>>] = Scans(path, p, i)
  OBVIOUS
<1>3. \A p \in Nat, i \in 1..N : Scans(path, p, i) \in Nat
  BY <1>1 DEF Scans
<1>4. ClosedUnder(step, Nat, N)
  BY <1>2, <1>3 DEF ClosedUnder
<1> HIDE DEF step, N
<1>5. PICK g : Recursive(g, N, Nat, 1, step)
  BY <1>1, <1>4, RecursionExists
<1>6. ASSUME NEW i \in 0..N, i # 0 PROVE g[i] = Scans(path, g[i - 1], i)
  <2>1. i \in 1..N /\ i - 1 \in 0..N
    BY <1>1, <1>6
  <2> QED
    BY <1>2, <1>5, <2>1 DEF Recursive
<1>7. g = [i \in 0..N |-> IF i = 0 THEN 1 ELSE Scans(path, g[i - 1], i)]
  BY <1>5, <1>6 DEF Recursive
<1> QED
  BY <1>7 DEF N

LEMMA PathScanned ==
    ASSUME NEW path \in Seq(STRING), files_resolve(path)
    PROVE  \E f : /\ f[0] = 1 /\ f[Len(path)] # 0
                  /\ \A i \in 1..Len(path) : f[i] = Scans(path, f[i - 1], i)
<1>1. PICK h : h = [i \in 0..Len(path) |-> IF i = 0 THEN 1 ELSE Scans(path, h[i - 1], i)]
  BY ScanExists, Zenon
<1> DEFINE IsDots(i) == i < Len(path) /\ path[i] = "." /\ path[i + 1] = "."
           Segment(i) == (i = 1 \/ path[i - 1] = "/") /\ (i + 2 > Len(path) \/ path[i + 2] = "/")
           scan[i \in 0..Len(path)] ==
              IF i = 0 THEN 1
              ELSE IF scan[i - 1] \in 1..i /\ IsDots(i) THEN IF Segment(i) THEN 0 ELSE i + 2
              ELSE scan[i - 1]
<1>2. scan[Len(path)] # 0
  BY DEF files_resolve
<1>3. scan = [i \in 0..Len(path) |->
              IF i = 0 THEN 1
              ELSE IF scan[i - 1] \in 1..i /\ IsDots(i) THEN IF Segment(i) THEN 0 ELSE i + 2
              ELSE scan[i - 1]]
  <2>1. h = [i \in 0..Len(path) |->
              IF i = 0 THEN 1
              ELSE IF h[i - 1] \in 1..i /\ IsDots(i) THEN IF Segment(i) THEN 0 ELSE i + 2
              ELSE h[i - 1]]
    BY <1>1 DEF Scans, Dots, Segments
  <2> QED
    BY <2>1
<1> HIDE DEF scan
<1>4. Len(path) \in Nat
  OBVIOUS
<1>5. scan[0] = 1
  BY <1>3, <1>4
<1>6. ASSUME NEW i \in 1..Len(path) PROVE scan[i] = Scans(path, scan[i - 1], i)
  <2>1. i \in 0..Len(path) /\ i # 0
    BY <1>4
  <2>2. scan[i] = IF scan[i - 1] \in 1..i /\ IsDots(i) THEN IF Segment(i) THEN 0 ELSE i + 2
                  ELSE scan[i - 1]
    BY <1>3, <2>1
  <2> QED
    BY <2>2 DEF Scans, Dots, Segments
<1> QED
  BY <1>2, <1>5, <1>6

LEMMA ResolvedDoesNotClimb ==
    ASSUME NEW path \in Seq(STRING), Climbs(path) PROVE ~files_resolve(path)
<1> SUFFICES ASSUME files_resolve(path) PROVE FALSE
  OBVIOUS
<1>1. PICK N : N = Len(path)
  OBVIOUS
<1>2. N \in Nat /\ DOMAIN path = 1..N
  BY <1>1
<1>3. PICK i \in 1..N : /\ i + 3 \in 1..(N + 1) /\ SubSeq(path, i, i + 2) = <<"/", ".", ".">>
                        /\ i + 3 = N + 1 \/ path[i + 3] = "/"
  <2>1. PICK i \in DOMAIN path, j \in 1..(Len(path) + 1) :
          /\ i + 3 = j /\ SubSeq(path, i, j - 1) = <<"/", ".", ".">>
          /\ j = Len(path) + 1 \/ path[j] = "/"
    BY DEF Climbs
  <2>2. j - 1 = i + 2
    BY <1>2, <2>1
  <2> QED
    BY <1>1, <1>2, <2>1, <2>2
<1>4. path[i] = "/" /\ path[i + 1] = "." /\ path[i + 2] = "."
  <2>1. PICK s : s = SubSeq(path, i, i + 2)
    OBVIOUS
  <2>2. s = <<"/", ".", ".">>
    BY <1>3, <2>1
  <2>3. i \in Nat /\ i + 2 \in Nat /\ i + 2 <= N
    BY <1>2, <1>3
  <2>4. \A k \in 1..3 : s[k] = path[i + k - 1]
    BY <1>1, <2>1, <2>3
  <2>5. s[1] = path[i + 1 - 1] /\ s[2] = path[i + 2 - 1] /\ s[3] = path[i + 3 - 1]
    BY <2>4
  <2>6. i + 1 - 1 = i /\ i + 2 - 1 = i + 1 /\ i + 3 - 1 = i + 2
    BY <2>3
  <2>7. s[1] = "/" /\ s[2] = "." /\ s[3] = "."
    BY <2>2
  <2> QED
    BY <2>5, <2>6, <2>7
<1>5. PICK f : /\ f[0] = 1 /\ f[N] # 0
               /\ \A k \in 1..N : f[k] = Scans(path, f[k - 1], k)
  BY <1>1, PathScanned
<1>6. \A k \in 0..N : f[k] \in Nat /\ (f[k] <= k + 1 \/ (f[k] = k + 2 /\ Dots(path, k)))
  <2> DEFINE P == {k \in 0..N : f[k] \in Nat /\ (f[k] <= k + 1 \/ (f[k] = k + 2 /\ Dots(path, k)))}
  <2>1. 0 \in P
    BY <1>2, <1>5
  <2>2. ASSUME NEW n \in 0..(N - 1), n \in P PROVE n + 1 \in P
    <3>1. n + 1 \in 1..N /\ n + 1 - 1 = n /\ n \in Nat
      BY <1>2
    <3>2. f[n + 1] = Scans(path, f[n], n + 1)
      BY <1>5, <3>1
    <3>3. f[n] \in Nat /\ f[n] <= n + 2
      BY <2>2, <3>1
    <3>4. CASE f[n] \in 1..(n + 1) /\ Dots(path, n + 1)
      <4>1. f[n + 1] = 0 \/ (f[n + 1] = n + 3 /\ Dots(path, n + 1))
        BY <3>1, <3>2, <3>4 DEF Scans
      <4> QED
        BY <3>1, <4>1
    <3>5. CASE ~(f[n] \in 1..(n + 1) /\ Dots(path, n + 1))
      <4>1. f[n + 1] = f[n]
        BY <3>2, <3>5 DEF Scans
      <4> QED
        BY <3>1, <3>3, <4>1
    <3> QED
      BY <3>4, <3>5
  <2>3. \A k \in 0..N : k \in P
    <3> HIDE DEF P
    <3> QED
      BY <1>2, <2>1, <2>2, SetInduction
  <2> QED
    BY <2>3
<1>7. f[i + 1] = 0
  <2>1. i + 1 \in 1..N /\ i \in 0..N /\ i + 1 - 1 = i /\ i + 2 <= N
    BY <1>2, <1>3
  <2>2. f[i + 1] = Scans(path, f[i], i + 1)
    BY <1>5, <2>1
  <2>3. ~Dots(path, i)
    BY <1>4 DEF Dots
  <2>4. f[i] \in Nat /\ f[i] <= i + 1
    BY <1>6, <2>1, <2>3
  <2>5. Dots(path, i + 1)
    <3>1. i + 1 + 1 = i + 2 /\ i + 1 < Len(path)
      BY <1>1, <1>2, <2>1
    <3> QED
      BY <1>4, <3>1 DEF Dots
  <2>6. Segments(path, i + 1)
    <3>1. i + 1 - 1 = i /\ i + 1 + 2 = i + 3 /\ (i + 3 = N + 1 => i + 3 > Len(path))
      BY <1>1, <1>2
    <3> QED
      BY <1>3, <1>4, <3>1 DEF Segments
  <2>7. CASE f[i] = 0
    <3>1. f[i] \notin 1..(i + 1)
      BY <2>7
    <3> QED
      BY <2>2, <2>7, <3>1 DEF Scans
  <2>8. CASE f[i] # 0
    <3>1. f[i] \in 1..(i + 1)
      BY <2>1, <2>4, <2>8
    <3> QED
      BY <2>2, <2>5, <2>6, <3>1 DEF Scans
  <2> QED
    BY <2>7, <2>8
<1>8. f[N] = 0
  <2> DEFINE P == {k \in 0..N : k >= i + 1 => f[k] = 0}
  <2>1. 0 \in P
    BY <1>2
  <2>2. ASSUME NEW n \in 0..(N - 1), n \in P PROVE n + 1 \in P
    <3>1. n + 1 \in 1..N /\ n + 1 - 1 = n /\ n \in Nat /\ n + 1 \in 0..N
      BY <1>2
    <3>2. f[n + 1] = Scans(path, f[n], n + 1)
      BY <1>5, <3>1
    <3>3. CASE n + 1 = i + 1
      BY <1>7, <3>1, <3>3
    <3>4. CASE n + 1 > i + 1
      <4>1. f[n] = 0 /\ f[n] \notin 1..(n + 1)
        BY <2>2, <3>1, <3>4
      <4>2. f[n + 1] = 0
        BY <3>2, <4>1 DEF Scans
      <4> QED
        BY <3>1, <4>2
    <3>5. CASE n + 1 < i + 1
      BY <3>1, <3>5
    <3> QED
      BY <3>1, <3>3, <3>4, <3>5
  <2>3. \A k \in 0..N : k \in P
    <3> HIDE DEF P
    <3> QED
      BY <1>2, <2>1, <2>2, SetInduction
  <2>4. N \in 0..N /\ N >= i + 1
    BY <1>2, <1>3
  <2> QED
    BY <2>3, <2>4
<1> QED
  BY <1>5, <1>8

(* ---- a range of a file ---- *)

Bytes == 0..255
Part(content, from, n) == SubSeq(content, from + 1, from + n)

LEMMA SameSequence ==
    ASSUME NEW S, NEW x \in Seq(S), NEW y \in Seq(S), Len(x) = Len(y),
           \A i \in 1..Len(x) : x[i] = y[i]
    PROVE  x = y
<1>1. x = [i \in 1..Len(x) |-> x[i]] /\ y = [i \in 1..Len(y) |-> y[i]]
  OBVIOUS
<1> QED
  BY <1>1

LEMMA Joined ==
    ASSUME NEW S, NEW x \in Seq(S), NEW y \in Seq(S)
    PROVE  /\ x \o y \in Seq(S) /\ Len(x \o y) = Len(x) + Len(y)
           /\ \A i \in 1..Len(x) : (x \o y)[i] = x[i]
           /\ \A i \in 1..Len(y) : (x \o y)[Len(x) + i] = y[i]
<1>1. x \o y \in Seq(S)
  OBVIOUS
<1>2. Len(x \o y) = Len(x) + Len(y)
  OBVIOUS
<1>3. \A i \in 1..Len(x) : (x \o y)[i] = x[i]
  OBVIOUS
<1>4. \A i \in 1..Len(y) : (x \o y)[Len(x) + i] = y[i]
  OBVIOUS
<1> QED
  BY <1>1, <1>2, <1>3, <1>4

LEMMA PartIs ==
    ASSUME NEW content \in Seq(Bytes), NEW from \in Nat, NEW n \in Nat, from + n <= Len(content)
    PROVE  /\ Part(content, from, n) \in Seq(Bytes) /\ Len(Part(content, from, n)) = n
           /\ \A i \in 1..n : Part(content, from, n)[i] = content[from + i]
<1>1. PICK p : p = Part(content, from, n)
  OBVIOUS
<1>2. from + 1 \in Nat /\ from + n \in Nat /\ \A i \in 1..n : from + i \in 1..Len(content)
  OBVIOUS
<1>3. p = [i \in 1..n |-> content[from + i]]
  <2>1. p = [i \in 1..(1 + (from + n) - (from + 1)) |-> content[i + (from + 1) - 1]]
    BY <1>1, <1>2 DEF Part
  <2>2. 1 + (from + n) - (from + 1) = n /\ \A i \in 1..n : i + (from + 1) - 1 = from + i
    OBVIOUS
  <2> QED
    BY <2>1, <2>2
<1>4. p \in [1..n -> Bytes]
  BY <1>2, <1>3
<1>5. p \in Seq(Bytes) /\ Len(p) = n
  BY <1>4
<1>6. \A i \in 1..n : p[i] = content[from + i]
  BY <1>3
<1> QED
  BY <1>1, <1>5, <1>6

LEMMA PartGrows ==
    ASSUME NEW content \in Seq(Bytes), NEW from \in Nat, NEW d \in Nat, NEW n \in Nat,
           from + d + n <= Len(content)
    PROVE  Part(content, from, d) \o SubSeq(content, from + d + 1, from + d + n) = Part(content, from, d + n)
<1>1. PICK a : a = Part(content, from, d)
  OBVIOUS
<1>2. PICK b : b = Part(content, from + d, n)
  OBVIOUS
<1>3. PICK c : c = Part(content, from, d + n)
  OBVIOUS
<1>0. Len(content) \in Nat
  OBVIOUS
<1>a. /\ from + d \in Nat /\ d + n \in Nat /\ from + d <= Len(content)
      /\ from + d + n = from + (d + n)
  BY <1>0
<1>4. a \in Seq(Bytes) /\ Len(a) = d /\ \A i \in 1..d : a[i] = content[from + i]
  BY <1>1, <1>a, PartIs
<1>5. b \in Seq(Bytes) /\ Len(b) = n /\ \A i \in 1..n : b[i] = content[from + d + i]
  BY <1>2, <1>a, PartIs
<1>6. c \in Seq(Bytes) /\ Len(c) = d + n /\ \A i \in 1..(d + n) : c[i] = content[from + i]
  <2>1. from + (d + n) <= Len(content)
    BY <1>a
  <2> QED
    BY <1>3, <1>a, <2>1, PartIs
<1>7. a \o b \in Seq(Bytes) /\ Len(a \o b) = d + n
  BY <1>4, <1>5, Joined
<1>8. PICK ab : ab = a \o b
  OBVIOUS
<1>9. ASSUME NEW i \in 1..(d + n) PROVE ab[i] = c[i]
  <2>1. CASE i <= d
    <3>1. i \in 1..d
      BY <2>1
    <3>2. ab[i] = a[i]
      BY <1>4, <1>5, <1>8, <3>1
    <3> QED
      BY <3>1, <3>2, <1>4, <1>6
  <2>2. CASE i > d
    <3>1. i - d \in 1..n /\ from + d + (i - d) = from + i
      BY <2>2
    <3>2. ab[i] = b[i - d]
      BY <1>4, <1>5, <1>8, <2>2
    <3> QED
      BY <3>1, <3>2, <1>5, <1>6
  <2> QED
    BY <2>1, <2>2, <1>a
<1>10. ab = c
  BY <1>6, <1>7, <1>8, <1>9, SameSequence
<1> QED
  BY <1>1, <1>2, <1>3, <1>8, <1>10 DEF Part

ClampedTo(size, offset, length, from, n) ==
    /\ files_clamp_range(size, offset, length) = [offset |-> from, length |-> n]
    /\ from + n <= size
    /\ from = IF offset < 0 THEN IF size + offset < 0 THEN 0 ELSE size + offset
              ELSE IF offset > size THEN size ELSE offset
    /\ n = IF length < 0 \/ length > size - from THEN size - from ELSE length

LEMMA RangeClamped ==
    ASSUME NEW size \in Nat, NEW offset \in Int, NEW length \in Int
    PROVE  \E from \in 0..size, n \in 0..size : ClampedTo(size, offset, length, from, n)
<1>1. PICK from : from = IF offset < 0 THEN Max({0, size + offset}) ELSE Min({offset, size})
  OBVIOUS
<1>2. size + offset \in Int /\ 0 \in Int /\ size \in Int
  OBVIOUS
<1>3. /\ Max({0, size + offset}) = IF 0 >= size + offset THEN 0 ELSE size + offset
      /\ Min({offset, size}) = IF offset <= size THEN offset ELSE size
  BY <1>2, LesserOf
<1>4. from = IF offset < 0 THEN IF size + offset < 0 THEN 0 ELSE size + offset
             ELSE IF offset > size THEN size ELSE offset
  BY <1>1, <1>2, <1>3
<1>5. from \in 0..size
  BY <1>4
<1>6. files_clamp_range(size, offset, length) =
        [offset |-> from,
         length |-> IF length < 0 \/ length > size - from THEN size - from ELSE length]
  BY <1>1 DEF files_clamp_range
<1>7. PICK n : n = IF length < 0 \/ length > size - from THEN size - from ELSE length
  OBVIOUS
<1>8. n \in 0..size /\ from + n <= size
  BY <1>5, <1>7
<1> QED
  BY <1>4, <1>5, <1>6, <1>7, <1>8 DEF ClampedTo

(* The bytes asked for are the range the request was clamped to.           *)
LEMMA SliceIsRange ==
    ASSUME NEW content \in Seq(Bytes), NEW span \in Int \X Int,
           NEW from, NEW n,
           from = files_clamp_range(Len(content), span[1], span[2]).offset,
           n = files_clamp_range(Len(content), span[1], span[2]).length
    PROVE  from \in Nat /\ n \in Nat /\ from + n <= Len(content) /\ Slice(content, span) = Part(content, from, n)
<1>1. PICK size : size = Len(content)
  OBVIOUS
<1>2. PICK o, l : o = span[1] /\ l = span[2]
  OBVIOUS
<1>3. size \in Nat /\ o \in Int /\ l \in Int /\ DOMAIN content = 1..size
  BY <1>1, <1>2
<1>4. /\ from \in 0..size /\ n \in 0..(size - from)
      /\ from = IF o < 0 THEN IF size + o < 0 THEN 0 ELSE size + o
                ELSE IF o > size THEN size ELSE o
      /\ n = IF l < 0 \/ l > size - from THEN size - from ELSE l
  <2>1. PICK g \in 0..size, h \in 0..size : ClampedTo(size, o, l, g, h)
    BY <1>3, RangeClamped
  <2>2. from = g /\ n = h
    BY <1>1, <1>2, <2>1 DEF ClampedTo
  <2> QED
    BY <1>3, <2>1, <2>2 DEF ClampedTo
<1>5. from \in Nat /\ n \in Nat /\ from + n <= size
  BY <1>3, <1>4
<1>6. PICK first : first = IF o >= 0 THEN o ELSE Max({0, size + o})
  OBVIOUS
<1>7. first \in Nat /\ (first = from \/ (first > size /\ from = size))
  <2>1. Max({0, size + o}) = IF 0 >= size + o THEN 0 ELSE size + o
    <3>1. 0 \in Int /\ size + o \in Int
      BY <1>3
    <3> QED
      BY <3>1, LesserOf
  <2> QED
    BY <1>3, <1>4, <1>6, <2>1
<1>8. PICK at : at = {i \in 1..size : i > first /\ (l < 0 \/ i <= first + l)}
  OBVIOUS
<1>9. Slice(content, span) = IF at = {} THEN <<>> ELSE SubSeq(content, Min(at), Max(at))
  BY <1>1, <1>2, <1>3, <1>6, <1>8 DEF Slice
<1>10. at = (from + 1)..(from + n)
  <2>1. ASSUME NEW i \in 1..size PROVE i > first /\ (l < 0 \/ i <= first + l) <=> i \in (from + 1)..(from + n)
    <3>1. CASE first = from
      BY <3>1, <1>3, <1>4
    <3>2. CASE first > size /\ from = size
      <4>1. ~(i > first) /\ n = 0
        BY <3>2, <1>3, <1>4, <1>7
      <4>2. i \notin (from + 1)..(from + n)
        BY <3>2, <4>1, <1>3
      <4> QED
        BY <4>1, <4>2
    <3> QED
      BY <3>1, <3>2, <1>7
  <2>2. \A i \in (from + 1)..(from + n) : i \in 1..size
    BY <1>3, <1>5
  <2> QED
    BY <1>8, <2>1, <2>2
<1>11. CASE n = 0
  <2>1. at = {}
    BY <1>5, <1>10, <1>11
  <2>2. Part(content, from, n) \in Seq(Bytes) /\ Len(Part(content, from, n)) = 0
    BY <1>1, <1>5, <1>11, PartIs
  <2>3. Part(content, from, n) = <<>>
    BY <2>2
  <2> QED
    BY <1>1, <1>5, <1>9, <2>1, <2>3
<1>12. CASE n > 0
  <2>1. from + 1 \in at /\ from + n \in at /\ \A i \in at : from + 1 <= i /\ i <= from + n
    <3>1. from \in Nat /\ n \in Nat /\ n >= 1
      BY <1>5, <1>12
    <3>2. from + 1 \in (from + 1)..(from + n) /\ from + n \in (from + 1)..(from + n)
      BY <3>1
    <3>3. \A i \in (from + 1)..(from + n) : from + 1 <= i /\ i <= from + n
      BY <3>1
    <3> QED
      BY <1>10, <3>2, <3>3, Zenon
  <2>2. at # {} /\ at \in SUBSET Nat /\ at \in SUBSET (0..(from + n)) /\ from + n \in Nat
    BY <1>5, <1>10, <2>1
  <2>3. Min(at) \in at /\ \A k \in at : Min(at) <= k
    BY <2>2, LeastOf
  <2>4. Max(at) \in at /\ \A k \in at : k <= Max(at)
    BY <2>2, GreatestOf
  <2>5. PICK x, y : x = Min(at) /\ y = Max(at)
    OBVIOUS
  <2>6. x = from + 1 /\ y = from + n
    <3>1. x \in at /\ x <= from + 1 /\ y \in at /\ from + n <= y
      BY <2>1, <2>3, <2>4, <2>5
    <3>2. from + 1 <= x /\ y <= from + n /\ x \in Nat /\ y \in Nat
      BY <2>1, <2>2, <3>1
    <3>3. from + 1 \in Nat /\ from + n \in Nat
      BY <1>5
    <3> QED
      BY <3>1, <3>2, <3>3
  <2> QED
    BY <1>1, <1>5, <1>9, <2>2, <2>5, <2>6 DEF Part
<1> QED
  BY <1>5, <1>11, <1>12

(* ---- a file in buffers ---- *)

Buffered(content, from, length, out) ==
    LET n == Min({length - Len(out), IoBuf, Len(content) - from - Len(out)})
    IN  out \o SubSeq(content, from + Len(out) + 1, from + Len(out) + n)

LEMMA BufferGrows ==
    ASSUME NEW content \in Seq(Bytes), NEW from \in Nat, NEW length \in Nat,
           from + length <= Len(content), NEW d \in 0..length
    PROVE  \E e \in d..length :
             /\ Buffered(content, from, length, Part(content, from, d)) = Part(content, from, e)
             /\ d < length => d < e
<1>1. PICK size : size = Len(content)
  OBVIOUS
<1>2. size \in Nat /\ d \in Nat /\ d <= length /\ from + d <= size /\ from + length <= size
  BY <1>1
<1>3. PICK out : out = Part(content, from, d)
  OBVIOUS
<1>4. Len(out) = d
  BY <1>1, <1>2, <1>3, PartIs
<1>5. IoBuf \in Nat /\ IoBuf > 0
  BY FileReadsAssumption
<1>6. PICK n : n = Min({length - d, IoBuf, size - from - d})
  OBVIOUS
<1>7. length - d \in Int /\ IoBuf \in Int /\ size - from - d \in Int
  BY <1>2, <1>5
<1>8. n \in {length - d, IoBuf, size - from - d} /\ n <= length - d /\ n <= size - from - d
  BY <1>6, <1>7, LeastOfThree
<1>9. n \in Nat /\ d + n <= length /\ (d < length => n > 0)
  BY <1>2, <1>5, <1>8
<1>10. from + d + n <= Len(content)
  BY <1>1, <1>2, <1>9
<1>11. Buffered(content, from, length, out) = out \o SubSeq(content, from + d + 1, from + d + n)
  BY <1>1, <1>4, <1>6 DEF Buffered
<1>12. Buffered(content, from, length, out) = Part(content, from, d + n)
  BY <1>2, <1>3, <1>9, <1>10, <1>11, PartGrows
<1>13. d + n \in d..length /\ (d < length => d < d + n)
  BY <1>2, <1>9
<1> QED
  BY <1>3, <1>12, <1>13

LEMMA BuffersExist ==
    ASSUME NEW content \in Seq(Bytes), NEW from \in Nat, NEW length \in Nat,
           from + length <= Len(content)
    PROVE  \E h : h = [k \in 0..length |->
                         IF k = 0 THEN <<>> ELSE Buffered(content, from, length, h[k - 1])]
<1> DEFINE S == {Part(content, from, d) : d \in 0..length}
           step == [p \in S \X (1..length) |-> Buffered(content, from, length, p[1])]
<1>1. \A x \in S, i \in 1..length : step[<<x, i>>] = Buffered(content, from, length, x)
  OBVIOUS
<1>2. ASSUME NEW x \in S PROVE Buffered(content, from, length, x) \in S
  <2>1. PICK d \in 0..length : x = Part(content, from, d)
    OBVIOUS
  <2>2. PICK e \in d..length : Buffered(content, from, length, x) = Part(content, from, e)
    BY <2>1, BufferGrows
  <2>3. e \in 0..length
    BY <2>1, <2>2
  <2> QED
    BY <2>2, <2>3
<1>3. ClosedUnder(step, S, length)
  <2> HIDE DEF S, step
  <2> QED
    BY <1>1, <1>2 DEF ClosedUnder
<1>4. <<>> \in S
  <2>1. 0 \in 0..length /\ from + 0 <= Len(content)
    OBVIOUS
  <2>2. Part(content, from, 0) \in Seq(Bytes) /\ Len(Part(content, from, 0)) = 0
    BY <2>1, PartIs
  <2>3. Part(content, from, 0) = <<>>
    BY <2>2
  <2> QED
    BY <2>1, <2>3
<1> HIDE DEF step, S
<1>5. PICK g : Recursive(g, length, S, <<>>, step)
  BY <1>3, <1>4, RecursionExists
<1>6. ASSUME NEW i \in 0..length, i # 0 PROVE g[i] = Buffered(content, from, length, g[i - 1])
  <2>1. i \in 1..length /\ i - 1 \in 0..length
    BY <1>6
  <2> QED
    BY <1>1, <1>5, <2>1 DEF Recursive
<1>7. g = [k \in 0..length |-> IF k = 0 THEN <<>> ELSE Buffered(content, from, length, g[k - 1])]
  BY <1>5, <1>6 DEF Recursive
<1> QED
  BY <1>7

LEMMA BuffersCopy ==
    ASSUME NEW content \in Seq(Bytes), NEW from \in Nat, NEW length \in Nat,
           from + length <= Len(content), NEW fault, fault # "read"
    PROVE  \E f : /\ f[0] = <<>> /\ Copied(content, from, length, fault) = f[length]
                  /\ \A k \in 1..length : f[k] = Buffered(content, from, length, f[k - 1])
<1>1. PICK h : h = [k \in 0..length |->
                      IF k = 0 THEN <<>> ELSE Buffered(content, from, length, h[k - 1])]
  BY BuffersExist, Zenon
<1> DEFINE copy[k \in 0..length] ==
             IF k = 0 \/ fault = "read" THEN <<>>
             ELSE LET done == Len(copy[k - 1])
                      n == Min({length - done, IoBuf, Len(content) - from - done})
                  IN  copy[k - 1] \o SubSeq(content, from + done + 1, from + done + n)
<1>2. Copied(content, from, length, fault) = copy[length]
  BY DEF Copied
<1>3. copy = [k \in 0..length |->
             IF k = 0 \/ fault = "read" THEN <<>>
             ELSE LET done == Len(copy[k - 1])
                      n == Min({length - done, IoBuf, Len(content) - from - done})
                  IN  copy[k - 1] \o SubSeq(content, from + done + 1, from + done + n)]
  <2>1. h = [k \in 0..length |->
             IF k = 0 \/ fault = "read" THEN <<>>
             ELSE LET done == Len(h[k - 1])
                      n == Min({length - done, IoBuf, Len(content) - from - done})
                  IN  h[k - 1] \o SubSeq(content, from + done + 1, from + done + n)]
    BY <1>1 DEF Buffered
  <2> QED
    BY <2>1
<1> HIDE DEF copy
<1>4. copy[0] = <<>>
  BY <1>3
<1>5. ASSUME NEW k \in 1..length PROVE copy[k] = Buffered(content, from, length, copy[k - 1])
  <2>1. k \in 0..length /\ k # 0
    OBVIOUS
  <2> QED
    BY <1>3, <2>1 DEF Buffered
<1> QED
  BY <1>2, <1>4, <1>5

LEMMA CopiedIsPart ==
    ASSUME NEW content \in Seq(Bytes), NEW from \in Nat, NEW length \in Nat,
           from + length <= Len(content), NEW fault, fault # "read"
    PROVE  Copied(content, from, length, fault) = Part(content, from, length)
<1>1. PICK f : /\ f[0] = <<>> /\ Copied(content, from, length, fault) = f[length]
               /\ \A k \in 1..length : f[k] = Buffered(content, from, length, f[k - 1])
  BY BuffersCopy
<1> DEFINE P == {k \in 0..length : \E d \in k..length : f[k] = Part(content, from, d)}
<1>2. 0 \in P
  <2>1. 0 \in 0..length /\ from + 0 <= Len(content)
    OBVIOUS
  <2>2. Part(content, from, 0) \in Seq(Bytes) /\ Len(Part(content, from, 0)) = 0
    BY <2>1, PartIs
  <2>3. Part(content, from, 0) = <<>>
    BY <2>2
  <2> QED
    BY <1>1, <2>1, <2>3
<1>3. ASSUME NEW k \in 0..(length - 1), k \in P PROVE k + 1 \in P
  <2>1. PICK d \in k..length : f[k] = Part(content, from, d)
    BY <1>3
  <2>2. d \in 0..length /\ k + 1 \in 1..length /\ k + 1 - 1 = k /\ k + 1 \in 0..length
    BY <2>1
  <2>3. PICK e \in d..length :
          /\ Buffered(content, from, length, Part(content, from, d)) = Part(content, from, e)
          /\ d < length => d < e
    BY <2>2, BufferGrows
  <2>4. f[k + 1] = Part(content, from, e)
    BY <1>1, <2>1, <2>2, <2>3
  <2>5. e \in (k + 1)..length
    BY <2>1, <2>2, <2>3
  <2> QED
    BY <2>2, <2>4, <2>5
<1>4. \A k \in 0..length : k \in P
  <2> HIDE DEF P
  <2> QED
    BY <1>2, <1>3, SetInduction
<1>5. PICK d \in length..length : f[length] = Part(content, from, d)
  <2>1. length \in 0..length
    OBVIOUS
  <2> QED
    BY <1>4, <2>1
<1> QED
  BY <1>1, <1>5

(* ---- a directory ---- *)

Writable(names, i) == {j \in 1..i : names[j] < NameMax}
Appends(l, n) ==
    IF l.ok /\ l.len + n < ListMax THEN [l EXCEPT !.len = @ + n] ELSE [l EXCEPT !.ok = FALSE]
Enters(l, n) ==
    IF ~l.ok \/ n + 1 > NameMax THEN l ELSE [Appends(l, n) EXCEPT !.names = Append(@, n)]
Building == [ok : BOOLEAN, len : Nat, names : Seq(Nat)]
Started == Appends([ok |-> TRUE, len |-> 0, names |-> <<>>], 1)

LEMMA AppendsType ==
    ASSUME NEW l \in Building, NEW n \in Nat
    PROVE  Appends(l, n) \in Building /\ Appends(l, n).names = l.names /\ (Appends(l, n).ok => l.ok)
<1>1. l.ok \in BOOLEAN /\ l.len \in Nat /\ l.names \in Seq(Nat)
  BY DEF Building
<1>2. CASE l.ok /\ l.len + n < ListMax
  <2>1. Appends(l, n) = [l EXCEPT !.len = @ + n]
    BY <1>2 DEF Appends
  <2>2. l.len + n \in Nat
    BY <1>1
  <2> QED
    BY <1>1, <1>2, <2>1, <2>2 DEF Building
<1>3. CASE ~(l.ok /\ l.len + n < ListMax)
  <2>1. Appends(l, n) = [l EXCEPT !.ok = FALSE]
    BY <1>3 DEF Appends
  <2> QED
    BY <1>1, <2>1 DEF Building
<1> QED
  BY <1>2, <1>3

LEMMA EntersType ==
    ASSUME NEW l \in Building, NEW n \in Nat
    PROVE  /\ Enters(l, n) \in Building
           /\ Enters(l, n).ok =>
                l.ok /\ Enters(l, n).names = IF n < NameMax THEN Append(l.names, n) ELSE l.names
<1>0. NameMax \in Nat
  BY FileReadsAssumption
<1>1. CASE ~l.ok \/ n + 1 > NameMax
  <2>1. Enters(l, n) = l /\ (n + 1 > NameMax => ~(n < NameMax))
    BY <1>0, <1>1 DEF Enters
  <2> QED
    BY <1>1, <2>1
<1>2. CASE ~(~l.ok \/ n + 1 > NameMax)
  <2>1. PICK a : a = Appends(l, n)
    OBVIOUS
  <2>2. a \in Building /\ a.names = l.names /\ (a.ok => l.ok)
    BY <2>1, AppendsType
  <2>3. Enters(l, n) = [a EXCEPT !.names = Append(@, n)]
    BY <1>2, <2>1 DEF Enters
  <2>4. a.names \in Seq(Nat)
    BY <2>2 DEF Building
  <2>5. Append(a.names, n) \in Seq(Nat)
    BY <2>4
  <2>6. Enters(l, n) \in Building /\ Enters(l, n).names = Append(a.names, n) /\ Enters(l, n).ok = a.ok
    BY <2>2, <2>3, <2>5 DEF Building
  <2>7. n < NameMax
    BY <1>0, <1>2
  <2> QED
    BY <2>2, <2>6, <2>7
<1> QED
  BY <1>1, <1>2

LEMMA ListingExists ==
    ASSUME NEW names \in Seq(Nat)
    PROVE  \E h : h = [i \in 0..Len(names) |-> IF i = 0 THEN Started ELSE Enters(h[i - 1], names[i])]
<1> DEFINE N == Len(names)
           step == [p \in Building \X (1..N) |-> Enters(p[1], names[p[2]])]
<1>1. N \in Nat /\ \A i \in 1..N : names[i] \in Nat
  OBVIOUS
<1>2. \A l \in Building, i \in 1..N : step[<<l, i>>] = Enters(l, names[i])
  OBVIOUS
<1>3. ClosedUnder(step, Building, N)
  <2> HIDE DEF step
  <2> QED
    BY <1>1, <1>2, EntersType DEF ClosedUnder
<1>4. Started \in Building
  <2>1. [ok |-> TRUE, len |-> 0, names |-> <<>>] \in Building
    BY DEF Building
  <2> QED
    BY <2>1, AppendsType DEF Started
<1> HIDE DEF step, N
<1>5. PICK g : Recursive(g, N, Building, Started, step)
  BY <1>1, <1>3, <1>4, RecursionExists
<1>6. ASSUME NEW i \in 0..N, i # 0 PROVE g[i] = Enters(g[i - 1], names[i])
  <2>1. i \in 1..N /\ i - 1 \in 0..N
    BY <1>1, <1>6
  <2> QED
    BY <1>2, <1>5, <2>1 DEF Recursive
<1>7. g = [i \in 0..N |-> IF i = 0 THEN Started ELSE Enters(g[i - 1], names[i])]
  BY <1>5, <1>6 DEF Recursive
<1> QED
  BY <1>7 DEF N

LEMMA ListingBuilt ==
    ASSUME NEW names \in Seq(Nat)
    PROVE  \E f : /\ \A i \in 0..Len(names) : f[i] \in Building
                  /\ f[0] = Started
                  /\ \A i \in 1..Len(names) : f[i] = Enters(f[i - 1], names[i])
                  /\ files_build_listing(names) =
                       IF Appends(f[Len(names)], 1).ok
                         THEN [is |-> "listing", code |-> 200, listed |-> Appends(f[Len(names)], 1).names]
                         ELSE Refused(500)
<1>1. PICK h : h = [i \in 0..Len(names) |-> IF i = 0 THEN Started ELSE Enters(h[i - 1], names[i])]
  BY ListingExists, Zenon
<1> DEFINE appendf(l, n) == IF l.ok /\ l.len + n < ListMax THEN [l EXCEPT !.len = @ + n]
                            ELSE [l EXCEPT !.ok = FALSE]
           entry(l, n) == IF ~l.ok \/ n + 1 > NameMax THEN l
                          ELSE [appendf(l, n) EXCEPT !.names = Append(@, n)]
           head == appendf([ok |-> TRUE, len |-> 0, names |-> <<>>], 1)
           built[i \in 0..Len(names)] == IF i = 0 THEN head ELSE entry(built[i - 1], names[i])
<1>2. \A l, n : appendf(l, n) = Appends(l, n)
  BY DEF Appends
<1>3. \A l, n : entry(l, n) = Enters(l, n)
  BY DEF Enters, Appends
<1>4. head = Started
  BY DEF Started, Appends
<1>5. files_build_listing(names) =
        IF appendf(built[Len(names)], 1).ok
          THEN [is |-> "listing", code |-> 200, listed |-> appendf(built[Len(names)], 1).names]
          ELSE Refused(500)
  BY DEF files_build_listing
<1>6. built = [i \in 0..Len(names) |-> IF i = 0 THEN head ELSE entry(built[i - 1], names[i])]
  <2>1. h = [i \in 0..Len(names) |-> IF i = 0 THEN head ELSE entry(h[i - 1], names[i])]
    <3> HIDE DEF head, entry
    <3> QED
      BY <1>1, <1>3, <1>4
  <2> QED
    BY <2>1
<1> HIDE DEF built, entry, head, appendf
<1>7. Len(names) \in Nat /\ \A i \in 1..Len(names) : names[i] \in Nat
  OBVIOUS
<1>8. built[0] = Started
  BY <1>4, <1>6, <1>7
<1>9. ASSUME NEW i \in 1..Len(names) PROVE built[i] = Enters(built[i - 1], names[i])
  <2>1. i \in 0..Len(names) /\ i # 0
    BY <1>7
  <2> QED
    BY <1>3, <1>6, <2>1
<1>10. built[0] \in Building
  <2>1. [ok |-> TRUE, len |-> 0, names |-> <<>>] \in Building
    BY DEF Building
  <2> QED
    BY <1>8, <2>1, AppendsType DEF Started
<1>11. \A i \in 0..Len(names) : built[i] \in Building
  <2>1. ASSUME NEW i \in 1..Len(names), built[i - 1] \in Building PROVE built[i] \in Building
    BY <1>7, <1>9, <2>1, EntersType
  <2> QED
    BY <1>7, <1>10, <2>1, Stays
<1>12. files_build_listing(names) =
        IF Appends(built[Len(names)], 1).ok
          THEN [is |-> "listing", code |-> 200, listed |-> Appends(built[Len(names)], 1).names]
          ELSE Refused(500)
  BY <1>2, <1>5
<1> QED
  BY <1>8, <1>9, <1>11, <1>12

Entered(names, i, out) ==
    /\ Len(out) = Cardinality(Writable(names, i))
    /\ \A k \in Writable(names, i) : out[Cardinality(Writable(names, k))] = names[k]

LEMMA WritableCount ==
    ASSUME NEW names \in Seq(Nat), NEW i \in Nat, NEW k \in Writable(names, i)
    PROVE  /\ IsFiniteSet(Writable(names, i)) /\ Cardinality(Writable(names, i)) \in Nat
           /\ k \in 1..i /\ Cardinality(Writable(names, k)) \in 1..Cardinality(Writable(names, i))
<1>1. k \in 1..i /\ k \in Writable(names, k) /\ Writable(names, k) \in SUBSET Writable(names, i)
  BY DEF Writable
<1>2. IsFiniteSet(1..i) /\ Writable(names, i) \in SUBSET (1..i)
  <2>1. 1 \in Int /\ i \in Int
    OBVIOUS
  <2>2. IsFiniteSet(1..i)
    BY <2>1, FS_Interval
  <2> QED
    BY <2>2 DEF Writable
<1>3. IsFiniteSet(Writable(names, i))
  BY <1>2, FS_Subset
<1>4. Cardinality(Writable(names, i)) \in Nat
  BY <1>3, FS_CardinalityType
<1>5. IsFiniteSet(Writable(names, k)) /\ Cardinality(Writable(names, k)) <= Cardinality(Writable(names, i))
  BY <1>1, <1>3, FS_Subset
<1>6. Cardinality(Writable(names, k)) \in Nat
  BY <1>5, FS_CardinalityType
<1>7. Cardinality(Writable(names, k)) # 0
  BY <1>1, <1>5, FS_EmptySet
<1> QED
  BY <1>1, <1>3, <1>4, <1>5, <1>6, <1>7

LEMMA EntersOne ==
    ASSUME NEW names \in Seq(Nat), NEW i \in 0..(Len(names) - 1), NEW out \in Seq(Nat),
           Entered(names, i, out)
    PROVE  Entered(names, i + 1, IF names[i + 1] < NameMax THEN Append(out, names[i + 1]) ELSE out)
<1>0. i \in Nat /\ i + 1 \in 1..Len(names) /\ names[i + 1] \in Nat
  OBVIOUS
<1>1. PICK W, V : W = Writable(names, i) /\ V = Writable(names, i + 1)
  OBVIOUS
<1>2. IsFiniteSet(W) /\ Cardinality(W) \in Nat
  <2>1. IsFiniteSet(1..i) /\ W \in SUBSET (1..i)
    BY <1>0, <1>1, FS_Interval DEF Writable
  <2>2. IsFiniteSet(W)
    BY <2>1, FS_Subset
  <2> QED
    BY <2>2, FS_CardinalityType
<1>3. CASE names[i + 1] < NameMax
  <2>1. V = W \cup {i + 1} /\ i + 1 \notin W
    BY <1>0, <1>1, <1>3 DEF Writable
  <2>2. Cardinality(V) = Cardinality(W) + 1
    BY <1>2, <2>1, FS_AddElement
  <2>3. PICK new : new = Append(out, names[i + 1])
    OBVIOUS
  <2>4. Len(out) \in Nat /\ Len(out) = Cardinality(W)
    BY <1>1 DEF Entered
  <2>5. Len(new) = Len(out) + 1 /\ new[Len(out) + 1] = names[i + 1] /\ \A c \in 1..Len(out) : new[c] = out[c]
    BY <1>0, <2>3
  <2>6. ASSUME NEW k \in V PROVE new[Cardinality(Writable(names, k))] = names[k]
    <3>1. CASE k = i + 1
      BY <3>1, <1>1, <2>2, <2>4, <2>5
    <3>2. CASE k # i + 1
      <4>1. k \in W
        BY <3>2, <2>1
      <4>2. Cardinality(Writable(names, k)) \in 1..Cardinality(W)
        BY <4>1, <1>0, <1>1, WritableCount
      <4>3. out[Cardinality(Writable(names, k))] = names[k]
        BY <4>1, <1>1 DEF Entered
      <4> QED
        BY <4>2, <4>3, <2>4, <2>5
    <3> QED
      BY <3>1, <3>2
  <2>7. Entered(names, i + 1, new)
    BY <1>1, <2>2, <2>4, <2>5, <2>6 DEF Entered
  <2> QED
    BY <1>3, <2>3, <2>7
<1>4. CASE ~(names[i + 1] < NameMax)
  <2>1. V = W
    BY <1>0, <1>1, <1>4 DEF Writable
  <2>2. Entered(names, i + 1, out)
    BY <1>1, <2>1 DEF Entered
  <2> QED
    BY <1>4, <2>2
<1> QED
  BY <1>3, <1>4

LEMMA ListingRight ==
    ASSUME NEW names \in Seq(Nat), NEW ans, ans = files_build_listing(names)
    PROVE  \/ ans = Refused(500)
           \/ \E out \in Seq(Nat) :
                ans = [is |-> "listing", code |-> 200, listed |-> out] /\ Entered(names, Len(names), out)
<1>1. PICK N : N = Len(names)
  OBVIOUS
<1>2. N \in Nat /\ \A i \in 1..N : names[i] \in Nat
  BY <1>1
<1>3. PICK f : /\ \A i \in 0..N : f[i] \in Building
               /\ f[0] = Started
               /\ \A i \in 1..N : f[i] = Enters(f[i - 1], names[i])
               /\ ans = IF Appends(f[N], 1).ok
                          THEN [is |-> "listing", code |-> 200, listed |-> Appends(f[N], 1).names]
                          ELSE Refused(500)
  BY <1>1, ListingBuilt
<1> DEFINE P == {i \in 0..N : f[i].ok => Entered(names, i, f[i].names)}
<1>4. 0 \in P
  <2>1. [ok |-> TRUE, len |-> 0, names |-> <<>>] \in Building
    BY DEF Building
  <2>2. Started.names = <<>>
    BY <2>1, AppendsType DEF Started
  <2>3. Writable(names, 0) = {}
    BY DEF Writable
  <2>4. Entered(names, 0, <<>>)
    BY <2>3, FS_EmptySet DEF Entered
  <2> QED
    BY <1>2, <1>3, <2>2, <2>4
<1>5. ASSUME NEW i \in 0..(N - 1), i \in P PROVE i + 1 \in P
  <2>1. i + 1 \in 1..N /\ i + 1 - 1 = i /\ i \in 0..N /\ i + 1 \in 0..N /\ i \in 0..(Len(names) - 1)
    BY <1>1, <1>2
  <2>2. f[i + 1] = Enters(f[i], names[i + 1]) /\ f[i] \in Building /\ names[i + 1] \in Nat
    BY <1>2, <1>3, <2>1
  <2>3. ASSUME f[i + 1].ok PROVE Entered(names, i + 1, f[i + 1].names)
    <3>1. f[i].ok /\ f[i + 1].names = IF names[i + 1] < NameMax THEN Append(f[i].names, names[i + 1])
                                      ELSE f[i].names
      <4>1. PICK l, n : l = f[i] /\ n = names[i + 1]
        OBVIOUS
      <4>2. l \in Building /\ n \in Nat /\ f[i + 1] = Enters(l, n)
        BY <2>2, <4>1
      <4>3. l.ok /\ Enters(l, n).names = IF n < NameMax THEN Append(l.names, n) ELSE l.names
        BY <2>3, <4>2, EntersType
      <4> QED
        BY <4>1, <4>2, <4>3
    <3>2. Entered(names, i, f[i].names)
      BY <1>5, <3>1
    <3>3. f[i].names \in Seq(Nat)
      BY <2>2 DEF Building
    <3> QED
      BY <2>1, <3>1, <3>2, <3>3, EntersOne
  <2> QED
    BY <2>1, <2>3
<1>6. N \in P
  <2> HIDE DEF P
  <2>1. \A n \in 0..N : n \in P
    BY <1>2, <1>4, <1>5, SetInduction
  <2> QED
    BY <1>2, <2>1
<1>7. f[N] \in Building /\ 1 \in Nat
  BY <1>2, <1>3
<1>8. Appends(f[N], 1).names = f[N].names /\ (Appends(f[N], 1).ok => f[N].ok)
  BY <1>7, AppendsType
<1>9. f[N].names \in Seq(Nat)
  BY <1>7 DEF Building
<1> QED
  BY <1>1, <1>3, <1>6, <1>8, <1>9

(* ---- a text ---- *)

WholeAt(buf, i) ==
    /\ Extra(buf[i]) > 0 /\ i + Extra(buf[i]) <= Len(buf)
    /\ \A k \in 1..Extra(buf[i]) : Continues(buf[i + k])
Cleans(buf, out, i) ==
    IF Len(out) >= i THEN out
    ELSE out \o (IF buf[i] < 128 THEN <<buf[i]>>
                 ELSE IF WholeAt(buf, i) THEN SubSeq(buf, i, i + Extra(buf[i])) ELSE <<63>>)

LEMMA ExtraType ==
    ASSUME NEW b \in Bytes
    PROVE  /\ Extra(b) \in 0..3
           /\ b < 128 \/ Continues(b) => Extra(b) = 0
<1>1. Extra(b) = IF b \in 192..223 THEN 1 ELSE IF b \in 224..239 THEN 2
                 ELSE IF b \in 240..247 THEN 3 ELSE 0
  BY DEF Extra, Bytes
<1> QED
  BY <1>1 DEF Continues, Bytes

LEMMA CleansType ==
    ASSUME NEW buf \in Seq(Bytes), NEW out \in Seq(Bytes), NEW i \in 1..Len(buf)
    PROVE  Cleans(buf, out, i) \in Seq(Bytes)
<1>1. buf[i] \in Bytes /\ Len(buf) \in Nat
  OBVIOUS
<1>2. PICK e : e = Extra(buf[i])
  OBVIOUS
<1>3. e \in 0..3
  BY <1>1, <1>2, ExtraType
<1>4. ASSUME NEW t \in Seq(Bytes) PROVE out \o t \in Seq(Bytes)
  BY Joined
<1>5. <<buf[i]>> \in Seq(Bytes) /\ <<63>> \in Seq(Bytes)
  <2>1. 63 \in Bytes
    BY DEF Bytes
  <2> QED
    BY <1>1, <2>1
<1>6. ASSUME WholeAt(buf, i) PROVE SubSeq(buf, i, i + e) \in Seq(Bytes)
  <2>1. i + e <= Len(buf)
    BY <1>2, <1>6 DEF WholeAt
  <2>2. \A k \in i..(i + e) : buf[k] \in Bytes
    BY <1>1, <1>3, <2>1
  <2>3. i - 1 \in Nat /\ e + 1 \in Nat /\ i - 1 + 1 = i /\ i - 1 + (e + 1) = i + e
    BY <1>1, <1>3
  <2>4. Part(buf, i - 1, e + 1) \in Seq(Bytes)
    BY <2>1, <2>3, PartIs
  <2> QED
    BY <2>3, <2>4 DEF Part
<1> QED
  BY <1>2, <1>4, <1>5, <1>6 DEF Cleans

LEMMA CleanExists ==
    ASSUME NEW buf \in Seq(Bytes)
    PROVE  \E h : h = [i \in 0..Len(buf) |-> IF i = 0 THEN <<>> ELSE Cleans(buf, h[i - 1], i)]
<1> DEFINE N == Len(buf)
           step == [p \in Seq(Bytes) \X (1..N) |-> Cleans(buf, p[1], p[2])]
<1>1. N \in Nat /\ <<>> \in Seq(Bytes)
  OBVIOUS
<1>2. \A x \in Seq(Bytes), i \in 1..N : step[<<x, i>>] = Cleans(buf, x, i)
  OBVIOUS
<1>3. ClosedUnder(step, Seq(Bytes), N)
  <2> HIDE DEF step
  <2> QED
    BY <1>1, <1>2, CleansType DEF ClosedUnder
<1> HIDE DEF step, N
<1>5. PICK g : Recursive(g, N, Seq(Bytes), <<>>, step)
  BY <1>1, <1>3, RecursionExists
<1>6. ASSUME NEW i \in 0..N, i # 0 PROVE g[i] = Cleans(buf, g[i - 1], i)
  <2>1. i \in 1..N /\ i - 1 \in 0..N
    BY <1>1, <1>6
  <2> QED
    BY <1>2, <1>5, <2>1 DEF Recursive
<1>7. g = [i \in 0..N |-> IF i = 0 THEN <<>> ELSE Cleans(buf, g[i - 1], i)]
  BY <1>5, <1>6 DEF Recursive
<1> QED
  BY <1>7 DEF N

LEMMA TextCleaned ==
    ASSUME NEW buf \in Seq(Bytes)
    PROVE  \E f : /\ f[0] = <<>> /\ sanitize_utf8(buf) = f[Len(buf)]
                  /\ \A i \in 1..Len(buf) : f[i] = Cleans(buf, f[i - 1], i)
<1>1. PICK h : h = [i \in 0..Len(buf) |-> IF i = 0 THEN <<>> ELSE Cleans(buf, h[i - 1], i)]
  BY CleanExists, Zenon
<1> DEFINE Entire(i) == /\ Extra(buf[i]) > 0 /\ i + Extra(buf[i]) <= Len(buf)
                        /\ \A k \in 1..Extra(buf[i]) : Continues(buf[i + k])
           clean[i \in 0..Len(buf)] ==
             IF i = 0 THEN <<>>
             ELSE IF Len(clean[i - 1]) >= i THEN clean[i - 1]
             ELSE clean[i - 1] \o (IF buf[i] < 128 THEN <<buf[i]>>
                                   ELSE IF Entire(i) THEN SubSeq(buf, i, i + Extra(buf[i]))
                                   ELSE <<63>>)
<1>2. sanitize_utf8(buf) = clean[Len(buf)]
  BY DEF sanitize_utf8
<1>3. clean = [i \in 0..Len(buf) |->
             IF i = 0 THEN <<>>
             ELSE IF Len(clean[i - 1]) >= i THEN clean[i - 1]
             ELSE clean[i - 1] \o (IF buf[i] < 128 THEN <<buf[i]>>
                                   ELSE IF Entire(i) THEN SubSeq(buf, i, i + Extra(buf[i]))
                                   ELSE <<63>>)]
  <2>1. h = [i \in 0..Len(buf) |->
             IF i = 0 THEN <<>>
             ELSE IF Len(h[i - 1]) >= i THEN h[i - 1]
             ELSE h[i - 1] \o (IF buf[i] < 128 THEN <<buf[i]>>
                               ELSE IF Entire(i) THEN SubSeq(buf, i, i + Extra(buf[i]))
                               ELSE <<63>>)]
    BY <1>1 DEF Cleans, WholeAt
  <2> QED
    BY <2>1
<1> HIDE DEF clean
<1>4. Len(buf) \in Nat
  OBVIOUS
<1>5. clean[0] = <<>>
  BY <1>3, <1>4
<1>6. ASSUME NEW i \in 1..Len(buf) PROVE clean[i] = Cleans(buf, clean[i - 1], i)
  <2>1. i \in 0..Len(buf) /\ i # 0
    BY <1>4
  <2> QED
    BY <1>3, <2>1 DEF Cleans, WholeAt
<1> QED
  BY <1>2, <1>5, <1>6

(* Byte k as the text has it; and what was passed holds each sequence that *)
(* starts in it whole.                                                     *)
Shown(buf, k) == IF Sound(buf, k) THEN buf[k] ELSE 63
Clean(buf, i, out) ==
    /\ out \in Seq(Bytes) /\ i <= Len(out) /\ Len(out) <= Len(buf)
    /\ \A k \in 1..Len(out) : out[k] = Shown(buf, k)
    /\ \A s \in 1..Len(out) : WholeAt(buf, s) => s + Extra(buf[s]) <= Len(out)

LEMMA SoundIn ==
    ASSUME NEW buf \in Seq(Bytes), NEW s \in 1..Len(buf), WholeAt(buf, s),
           NEW k \in s..(s + Extra(buf[s]))
    PROVE  Sound(buf, k)
<1>1. PICK e : e = Extra(buf[s])
  OBVIOUS
<1>2. buf[s] \in Bytes /\ Len(buf) \in Nat
  OBVIOUS
<1>3. e \in Nat /\ e > 0 /\ s + e <= Len(buf) /\ \A j \in 1..e : Continues(buf[s + j])
  <2>1. e \in 0..3
    BY <1>1, <1>2, ExtraType
  <2> QED
    BY <1>1, <2>1 DEF WholeAt
<1>4. \A j \in (s + 1)..(s + e) : Continues(buf[j])
  <2> SUFFICES ASSUME NEW j \in (s + 1)..(s + e) PROVE Continues(buf[j])
    OBVIOUS
  <2>1. j - s \in 1..e /\ s + (j - s) = j
    BY <1>3
  <2>2. Continues(buf[s + (j - s)])
    BY <1>3, <2>1
  <2> QED
    BY <2>1, <2>2
<1>5. s \in 1..k /\ k <= s + e
  BY <1>1, <1>2, <1>3
<1> QED
  BY <1>1, <1>3, <1>4, <1>5 DEF Sound

LEMMA SoundBy ==
    ASSUME NEW buf \in Seq(Bytes), NEW k \in 1..Len(buf), Sound(buf, k), ~(buf[k] < 128)
    PROVE  \E s \in 1..k : WholeAt(buf, s) /\ k <= s + Extra(buf[s])
<1>1. PICK s \in 1..k : /\ Extra(buf[s]) > 0 /\ k <= s + Extra(buf[s]) /\ s + Extra(buf[s]) <= Len(buf)
                        /\ \A j \in (s + 1)..(s + Extra(buf[s])) : Continues(buf[j])
  BY DEF Sound
<1>2. PICK e : e = Extra(buf[s])
  OBVIOUS
<1>3. Len(buf) \in Nat /\ s \in 1..Len(buf) /\ s \in Nat
  OBVIOUS
<1>4. e \in 0..3
  BY <1>2, <1>3, ExtraType
<1>5. \A j \in 1..e : Continues(buf[s + j])
  <2> SUFFICES ASSUME NEW j \in 1..e PROVE Continues(buf[s + j])
    OBVIOUS
  <2>1. s + j \in (s + 1)..(s + e)
    BY <1>3, <1>4
  <2> QED
    BY <1>1, <1>2, <2>1
<1>6. WholeAt(buf, s)
  BY <1>1, <1>2, <1>5 DEF WholeAt
<1> QED
  BY <1>1, <1>6

(* The next characters: each byte as the reference has it, none of a       *)
(* sequence that goes on.                                                  *)
LEMMA CleanJoins ==
    ASSUME NEW buf \in Seq(Bytes), NEW i \in 1..Len(buf), NEW out, Clean(buf, i - 1, out),
           Len(out) = i - 1, NEW t \in Seq(Bytes), NEW m \in 1..4, Len(t) = m, i + m - 1 <= Len(buf),
           \A k \in 1..m : t[k] = Shown(buf, i + k - 1),
           \A s \in i..(i + m - 1) : WholeAt(buf, s) => s + Extra(buf[s]) <= i + m - 1
    PROVE  Clean(buf, i, out \o t)
<1>1. PICK new : new = out \o t
  OBVIOUS
<1>2. out \in Seq(Bytes) /\ i \in Nat /\ Len(buf) \in Nat
  BY DEF Clean
<1>3. new \in Seq(Bytes) /\ Len(new) = i + m - 1
  <2>1. new \in Seq(Bytes) /\ Len(new) = Len(out) + Len(t)
    BY <1>1, <1>2, Joined
  <2> QED
    BY <1>2, <2>1
<1>4. ASSUME NEW k \in 1..(i + m - 1) PROVE new[k] = Shown(buf, k)
  <2>1. CASE k <= i - 1
    <3>1. k \in 1..Len(out)
      BY <1>2, <2>1
    <3>2. new[k] = out[k]
      BY <1>1, <1>2, <3>1, Joined
    <3> QED
      BY <3>1, <3>2 DEF Clean
  <2>2. CASE k > i - 1
    <3>1. PICK j : j = k - (i - 1)
      OBVIOUS
    <3>2. j \in 1..m /\ j \in 1..Len(t) /\ Len(out) + j = k /\ i + j - 1 = k
      BY <1>2, <2>2, <3>1
    <3>3. new[Len(out) + j] = t[j]
      BY <1>1, <1>2, <3>2, Joined
    <3>4. t[j] = Shown(buf, i + j - 1)
      BY <3>2
    <3> QED
      BY <3>2, <3>3, <3>4
  <2> QED
    BY <1>2, <2>1, <2>2
<1>5. ASSUME NEW s \in 1..(i + m - 1), WholeAt(buf, s) PROVE s + Extra(buf[s]) <= i + m - 1
  <2>1. CASE s <= i - 1
    <3>1. s \in 1..Len(out) /\ s \in 1..Len(buf)
      BY <1>2, <2>1
    <3>2. s + Extra(buf[s]) <= i - 1
      BY <3>1, <1>5 DEF Clean
    <3>3. Extra(buf[s]) \in 0..3
      <4>1. buf[s] \in Bytes
        BY <3>1
      <4> QED
        BY <4>1, ExtraType
    <3> QED
      BY <1>2, <3>2, <3>3
  <2>2. CASE s > i - 1
    <3>1. s \in i..(i + m - 1)
      BY <1>2, <2>2
    <3> QED
      BY <3>1, <1>5
  <2> QED
    BY <1>2, <2>1, <2>2
<1>6. i <= i + m - 1
  BY <1>2
<1> QED
  BY <1>1, <1>3, <1>4, <1>5, <1>6 DEF Clean

LEMMA CleanStep ==
    ASSUME NEW buf \in Seq(Bytes), NEW i \in 1..Len(buf), NEW out, Clean(buf, i - 1, out)
    PROVE  Clean(buf, i, Cleans(buf, out, i))
<1>1. out \in Seq(Bytes) /\ Len(out) \in Nat /\ i - 1 <= Len(out) /\ i \in Nat /\ Len(buf) \in Nat
  BY DEF Clean
<1>2. buf[i] \in Bytes
  OBVIOUS
<1>3. CASE Len(out) >= i
  <2>1. Cleans(buf, out, i) = out
    BY <1>3 DEF Cleans
  <2> QED
    BY <1>1, <1>3, <2>1 DEF Clean
<1>4. CASE Len(out) < i
  <2>0. Len(out) = i - 1 /\ ~(Len(out) >= i)
    BY <1>1, <1>4
  <2>a. 1 \in 1..4 /\ i + 1 - 1 = i
    BY <1>1
  <2>1. CASE buf[i] < 128
    <3>1. Cleans(buf, out, i) = out \o <<buf[i]>>
      BY <2>0, <2>1 DEF Cleans
    <3>2. PICK t : t = <<buf[i]>>
      OBVIOUS
    <3>3. t \in Seq(Bytes) /\ Len(t) = 1 /\ t[1] = buf[i]
      BY <1>2, <3>2
    <3>4. Sound(buf, i)
      BY <2>1 DEF Sound
    <3>5. \A k \in 1..1 : t[k] = Shown(buf, i + k - 1)
      BY <2>a, <3>3, <3>4 DEF Shown
    <3>6. ~WholeAt(buf, i)
      BY <1>2, <2>1, ExtraType DEF WholeAt
    <3>7. \A s \in i..(i + 1 - 1) : WholeAt(buf, s) => s + Extra(buf[s]) <= i + 1 - 1
      BY <1>1, <3>6
    <3>8. i + 1 - 1 <= Len(buf)
      BY <1>1
    <3>9. PICK m : m = 1
      OBVIOUS
    <3>10. /\ m \in 1..4 /\ Len(t) = m /\ i + m - 1 <= Len(buf)
           /\ \A k \in 1..m : t[k] = Shown(buf, i + k - 1)
           /\ \A s \in i..(i + m - 1) : WholeAt(buf, s) => s + Extra(buf[s]) <= i + m - 1
      BY <2>a, <3>3, <3>5, <3>7, <3>8, <3>9
    <3>11. Clean(buf, i, out \o t)
      BY <2>0, <3>3, <3>10, CleanJoins
    <3> QED
      BY <3>1, <3>2, <3>11
  <2>2. CASE ~(buf[i] < 128) /\ WholeAt(buf, i)
    <3>1. PICK e : e = Extra(buf[i])
      OBVIOUS
    <3>2. e \in 1..3 /\ i + e <= Len(buf) /\ \A k \in 1..e : Continues(buf[i + k])
      <4>1. e \in 0..3
        BY <1>2, <3>1, ExtraType
      <4> QED
        BY <2>2, <3>1, <4>1 DEF WholeAt
    <3>3. PICK t : t = SubSeq(buf, i, i + e)
      OBVIOUS
    <3>4. Cleans(buf, out, i) = out \o t
      BY <2>0, <2>2, <3>1, <3>3 DEF Cleans
    <3>5. /\ i - 1 \in Nat /\ e + 1 \in Nat /\ i - 1 + 1 = i /\ i - 1 + (e + 1) = i + e
          /\ e + 1 \in 1..4 /\ i + (e + 1) - 1 = i + e
      BY <1>1, <3>2
    <3>6. t = Part(buf, i - 1, e + 1)
      BY <3>3, <3>5 DEF Part
    <3>7. i - 1 + (e + 1) <= Len(buf)
      BY <3>2, <3>5
    <3>8. t \in Seq(Bytes) /\ Len(t) = e + 1 /\ \A k \in 1..(e + 1) : t[k] = buf[i - 1 + k]
      BY <3>5, <3>6, <3>7, PartIs
    <3>9. ASSUME NEW k \in 1..(e + 1) PROVE t[k] = Shown(buf, i + k - 1)
      <4>1. i + k - 1 = i - 1 + k /\ i + k - 1 \in i..(i + e)
        BY <1>1, <3>2
      <4>2. Sound(buf, i + k - 1)
        BY <2>2, <3>1, <4>1, SoundIn
      <4> QED
        BY <3>8, <4>1, <4>2 DEF Shown
    <3>10. ASSUME NEW s \in i..(i + (e + 1) - 1), WholeAt(buf, s)
           PROVE  s + Extra(buf[s]) <= i + (e + 1) - 1
      <4>1. CASE s = i
        BY <4>1, <3>1, <3>5, <1>1, <3>2
      <4>2. CASE s # i
        <5>1. s - i \in 1..e /\ i + (s - i) = s /\ s \in 1..Len(buf)
          BY <1>1, <3>2, <3>5, <4>2
        <5>2. Continues(buf[i + (s - i)])
          BY <3>2, <5>1
        <5>3. Continues(buf[s]) /\ buf[s] \in Bytes
          BY <5>1, <5>2
        <5>4. Extra(buf[s]) = 0
          BY <5>3, ExtraType
        <5> QED
          BY <3>10, <5>4 DEF WholeAt
      <4> QED
        BY <4>1, <4>2
    <3>11. i + (e + 1) - 1 <= Len(buf)
      BY <3>2, <3>5
    <3> HIDE DEF Clean
    <3>12. PICK m : m = e + 1
      OBVIOUS
    <3>13. /\ m \in 1..4 /\ Len(t) = m /\ i + m - 1 <= Len(buf)
           /\ \A k \in 1..m : t[k] = Shown(buf, i + k - 1)
           /\ \A s \in i..(i + m - 1) : WholeAt(buf, s) => s + Extra(buf[s]) <= i + m - 1
      BY <3>5, <3>8, <3>9, <3>10, <3>11, <3>12
    <3> QED
      BY <2>0, <3>4, <3>8, <3>13, CleanJoins
  <2>3. CASE ~(buf[i] < 128) /\ ~WholeAt(buf, i)
    <3>1. Cleans(buf, out, i) = out \o <<63>>
      BY <2>0, <2>3 DEF Cleans
    <3>2. PICK t : t = <<63>>
      OBVIOUS
    <3>3. t \in Seq(Bytes) /\ Len(t) = 1 /\ t[1] = 63
      <4>1. 63 \in Bytes
        BY DEF Bytes
      <4> QED
        BY <3>2, <4>1
    <3>4. ~Sound(buf, i)
      <4> SUFFICES ASSUME Sound(buf, i) PROVE FALSE
        OBVIOUS
      <4>1. PICK s \in 1..i : WholeAt(buf, s) /\ i <= s + Extra(buf[s])
        BY <2>3, SoundBy
      <4>2. s # i
        BY <2>3, <4>1
      <4>3. s \in 1..Len(out)
        BY <1>1, <2>0, <4>2
      <4>4. s + Extra(buf[s]) <= i - 1
        BY <2>0, <4>1, <4>3 DEF Clean
      <4>5. buf[s] \in Bytes
        BY <1>1
      <4>6. Extra(buf[s]) \in 0..3
        BY <4>5, ExtraType
      <4> QED
        BY <1>1, <4>1, <4>4, <4>6
    <3>5. \A k \in 1..1 : t[k] = Shown(buf, i + k - 1)
      BY <2>a, <3>3, <3>4 DEF Shown
    <3>7. \A s \in i..(i + 1 - 1) : WholeAt(buf, s) => s + Extra(buf[s]) <= i + 1 - 1
      BY <1>1, <2>3
    <3>8. i + 1 - 1 <= Len(buf)
      BY <1>1
    <3>9. PICK m : m = 1
      OBVIOUS
    <3>10. /\ m \in 1..4 /\ Len(t) = m /\ i + m - 1 <= Len(buf)
           /\ \A k \in 1..m : t[k] = Shown(buf, i + k - 1)
           /\ \A s \in i..(i + m - 1) : WholeAt(buf, s) => s + Extra(buf[s]) <= i + m - 1
      BY <2>a, <3>3, <3>5, <3>7, <3>8, <3>9
    <3>11. Clean(buf, i, out \o t)
      BY <2>0, <3>3, <3>10, CleanJoins
    <3> QED
      BY <3>1, <3>2, <3>11
  <2> QED
    BY <2>1, <2>2, <2>3
<1> QED
  BY <1>1, <1>3, <1>4

LEMMA TextIsClean ==
    ASSUME NEW buf \in Seq(Bytes)
    PROVE  /\ Len(sanitize_utf8(buf)) = Len(buf)
           /\ \A k \in 1..Len(buf) : sanitize_utf8(buf)[k] = Shown(buf, k)
<1>1. PICK N : N = Len(buf)
  OBVIOUS
<1>2. N \in Nat
  BY <1>1
<1>3. PICK f : /\ f[0] = <<>> /\ sanitize_utf8(buf) = f[N]
               /\ \A i \in 1..N : f[i] = Cleans(buf, f[i - 1], i)
  BY <1>1, TextCleaned
<1> DEFINE P == {i \in 0..N : Clean(buf, i, f[i])}
<1>4. 0 \in P
  <2>1. Len(<<>>) = 0 /\ <<>> \in Seq(Bytes)
    OBVIOUS
  <2>2. Clean(buf, 0, <<>>)
    BY <1>1, <1>2, <2>1 DEF Clean
  <2> QED
    BY <1>2, <1>3, <2>2
<1>5. ASSUME NEW i \in 0..(N - 1), i \in P PROVE i + 1 \in P
  <2>1. i + 1 \in 1..N /\ i + 1 - 1 = i /\ i + 1 \in 0..N
    BY <1>2
  <2>2. f[i + 1] = Cleans(buf, f[i], i + 1)
    BY <1>3, <2>1
  <2>3. Clean(buf, i + 1 - 1, f[i])
    BY <1>5, <2>1
  <2>4. Clean(buf, i + 1, Cleans(buf, f[i], i + 1))
    BY <1>1, <2>1, <2>3, CleanStep
  <2> QED
    BY <2>1, <2>2, <2>4
<1>6. Clean(buf, N, f[N])
  <2>1. \A n \in 0..N : n \in P
    <3> HIDE DEF P
    <3> QED
      BY <1>2, <1>4, <1>5, SetInduction
  <2> QED
    BY <1>2, <2>1
<1>7. Len(f[N]) = N
  BY <1>1, <1>2, <1>6 DEF Clean
<1> QED
  BY <1>1, <1>3, <1>6, <1>7 DEF Clean

(* ---- the answers ---- *)

ReadRequests == [path : Seq(STRING), content : Seq(Bytes), names : Seq(Nat), span : Int \X Int,
          fault : Faults]
Steady(req) == req.fault \notin {"seek", "read"}
TextOf(req) ==
    LET part == Slice(req.content, req.span) IN SubSeq(part, 1, Min({Len(part), ReadMax}))
Fair(req, ans) ==
    \/ ans.is = "refusal" /\ ans.code # 200
    \/ /\ ans.is = "file" /\ ans.code = 200 /\ ans.length = Len(Slice(req.content, req.span))
       /\ Steady(req) => ans.body = Slice(req.content, req.span)
    \/ /\ ans.is = "listing" /\ ans.code = 200 /\ Entered(req.names, Len(req.names), ans.listed)
    \/ /\ ans.is = "hash" /\ ans.code = 200 /\ ans.hash = req.content
    \/ /\ ans.is = "match" /\ ans.code = 200 /\ ans.hash = req.content
       /\ ans.matched <=> ans.expected = req.content
    \/ /\ ans.is = "text" /\ ans.code = 200
       /\ Steady(req) =>
            /\ Len(ans.body) = Len(TextOf(req))
            /\ \A i \in 1..Len(TextOf(req)) : ans.body[i] = Shown(TextOf(req), i)
NotClimbing(req, ans) == Climbs(req.path) => ans.code \in {400, 404}

LEMMA Refusals ==
    ASSUME NEW req, NEW status \in {400, 404, 500} PROVE Fair(req, Refused(status))
BY DEF Fair, Refused

LEMMA FileFair ==
    ASSUME NEW req \in ReadRequests, NEW fault, fault = req.fault
    PROVE  Fair(req, send_file(req.content, req.span[1], req.span[2], fault))
<1>1. PICK content, span : content = req.content /\ span = req.span
  OBVIOUS
<1>2. content \in Seq(Bytes) /\ span \in Int \X Int
  BY <1>1 DEF ReadRequests
<1>3. PICK r : r = files_clamp_range(Len(content), span[1], span[2])
  OBVIOUS
<1>4. PICK from, n : from = r.offset /\ n = r.length
  OBVIOUS
<1>5. from \in Nat /\ n \in Nat /\ from + n <= Len(content) /\ Slice(content, span) = Part(content, from, n)
  BY <1>2, <1>3, <1>4, SliceIsRange
<1>6. Len(Slice(content, span)) = n
  BY <1>2, <1>5, PartIs
<1>7. PICK ans : ans = send_file(content, span[1], span[2], fault)
  OBVIOUS
<1>8. \/ ans = Refused(500) \/ ans = Refused(404)
      \/ ans = [is |-> "file", code |-> 200, length |-> n, body |-> Copied(content, from, n, fault)]
  BY <1>3, <1>4, <1>7 DEF send_file
<1>9. CASE ans = Refused(500) \/ ans = Refused(404)
  BY <1>1, <1>7, <1>9, Refusals
<1>10. CASE ans = [is |-> "file", code |-> 200, length |-> n, body |-> Copied(content, from, n, fault)]
  <2>1. fault # "read" => Copied(content, from, n, fault) = Part(content, from, n)
    BY <1>2, <1>5, CopiedIsPart
  <2>2. Steady(req) => fault # "read"
    BY DEF Steady
  <2>3. ans.is = "file" /\ ans.code = 200 /\ ans.length = n /\ ans.body = Copied(content, from, n, fault)
    BY <1>10
  <2>4. Fair(req, ans)
    BY <1>1, <1>5, <1>6, <2>1, <2>2, <2>3 DEF Fair
  <2> QED
    BY <1>1, <1>7, <2>4
<1> QED
  BY <1>8, <1>9, <1>10

LEMMA ListingFair ==
    ASSUME NEW req \in ReadRequests PROVE Fair(req, files_build_listing(req.names))
<1>1. PICK names, ans : names = req.names /\ ans = files_build_listing(names)
  OBVIOUS
<1>2. names \in Seq(Nat)
  BY <1>1 DEF ReadRequests
<1>3. \/ ans = Refused(500)
      \/ \E out \in Seq(Nat) :
           ans = [is |-> "listing", code |-> 200, listed |-> out] /\ Entered(names, Len(names), out)
  BY <1>1, <1>2, ListingRight
<1>4. CASE ans = Refused(500)
  BY <1>1, <1>4, Refusals
<1>5. CASE ans # Refused(500)
  <2>1. PICK out \in Seq(Nat) :
           ans = [is |-> "listing", code |-> 200, listed |-> out] /\ Entered(names, Len(names), out)
    BY <1>3, <1>5
  <2>2. ans.is = "listing" /\ ans.code = 200 /\ ans.listed = out
    BY <2>1
  <2> QED
    BY <1>1, <2>1, <2>2 DEF Fair
<1> QED
  BY <1>4, <1>5

LEMMA HashFair ==
    ASSUME NEW req \in ReadRequests, NEW path, NEW fault
    PROVE  LET ans == get_hash(path, req.content, fault)
           IN  Fair(req, ans) /\ ans.is \in {"refusal", "hash"} /\ (ans.is = "refusal" => ans.code # 200)
<1>1. PICK content : content = req.content
  OBVIOUS
<1>2. content \in Seq(Bytes)
  BY <1>1 DEF ReadRequests
<1>3. PICK ans : ans = get_hash(path, content, fault)
  OBVIOUS
<1>4. \/ ans = Refused(400) \/ ans = Refused(404) \/ ans = Refused(500)
      \/ /\ fault # "read"
         /\ ans = [is |-> "hash", code |-> 200, hash |-> Copied(content, 0, Len(content), fault),
                   size |-> Len(Copied(content, 0, Len(content), fault))]
  BY <1>3 DEF get_hash, files_hash_sha256
<1>5. CASE ans = Refused(400) \/ ans = Refused(404) \/ ans = Refused(500)
  <2>1. ans.is = "refusal" /\ ans.code # 200
    BY <1>5 DEF Refused
  <2>2. Fair(req, ans)
    BY <1>5, Refusals
  <2> QED
    BY <1>1, <1>3, <2>1, <2>2
<1>6. CASE /\ fault # "read"
           /\ ans = [is |-> "hash", code |-> 200, hash |-> Copied(content, 0, Len(content), fault),
                     size |-> Len(Copied(content, 0, Len(content), fault))]
  <2>1. 0 \in Nat /\ Len(content) \in Nat /\ 0 + Len(content) <= Len(content)
    BY <1>2
  <2>2. Copied(content, 0, Len(content), fault) = Part(content, 0, Len(content))
    BY <1>2, <1>6, <2>1, CopiedIsPart
  <2>3. Part(content, 0, Len(content)) = content
    <3>1. PICK p, n : n = Len(content) /\ p = Part(content, 0, n)
      OBVIOUS
    <3>2. p \in Seq(Bytes) /\ Len(p) = n /\ \A i \in 1..n : p[i] = content[0 + i]
      BY <1>2, <2>1, <3>1, PartIs
    <3>3. \A i \in 1..n : p[i] = content[i]
      BY <3>2
    <3>4. p = content
      BY <1>2, <3>1, <3>2, <3>3, SameSequence
    <3> QED
      BY <3>1, <3>4
  <2>4. ans.is = "hash" /\ ans.code = 200 /\ ans.hash = content
    BY <1>6, <2>2, <2>3
  <2>5. Fair(req, ans)
    BY <1>1, <2>4 DEF Fair
  <2> QED
    BY <1>1, <1>3, <2>4, <2>5
<1> QED
  BY <1>4, <1>5, <1>6

LEMMA MatchFair ==
    ASSUME NEW req \in ReadRequests, NEW path, NEW fault, NEW expected
    PROVE  Fair(req, tool_hash_file(path, req.content, expected, fault))
<1>1. PICK h : h = get_hash(path, req.content, fault)
  OBVIOUS
<1>2. Fair(req, h) /\ h.is \in {"refusal", "hash"} /\ (h.is = "refusal" => h.code # 200)
  BY <1>1, HashFair
<1>3. PICK ans : ans = tool_hash_file(path, req.content, expected, fault)
  OBVIOUS
<1>4. ans = IF h.code # 200 THEN h
            ELSE [is |-> "match", code |-> 200, hash |-> h.hash, expected |-> expected,
                  matched |-> expected = h.hash]
  BY <1>1, <1>3 DEF tool_hash_file
<1>5. CASE h.code # 200
  BY <1>2, <1>3, <1>4, <1>5
<1>6. CASE h.code = 200
  <2>1. h.is = "hash"
    BY <1>2, <1>6
  <2>2. h.hash = req.content
    BY <1>2, <2>1 DEF Fair
  <2>3. /\ ans.is = "match" /\ ans.code = 200 /\ ans.hash = h.hash /\ ans.expected = expected
        /\ ans.matched = (expected = h.hash)
    BY <1>4, <1>6
  <2>4. Fair(req, ans)
    BY <2>2, <2>3 DEF Fair
  <2> QED
    BY <1>3, <2>4
<1> QED
  BY <1>5, <1>6

LEMMA TextFair ==
    ASSUME NEW req \in ReadRequests, NEW path, NEW fault, fault = req.fault
    PROVE  Fair(req, tool_read_file(path, req.content, req.span, fault))
<1>1. PICK content, span : content = req.content /\ span = req.span
  OBVIOUS
<1>2. content \in Seq(Bytes) /\ span \in Int \X Int
  BY <1>1 DEF ReadRequests
<1>3. PICK r : r = files_clamp_range(Len(content), span[1], span[2])
  OBVIOUS
<1>4. PICK from, n : from = r.offset /\ n = r.length
  OBVIOUS
<1>5. from \in Nat /\ n \in Nat /\ from + n <= Len(content) /\ Slice(content, span) = Part(content, from, n)
  BY <1>2, <1>3, <1>4, SliceIsRange
<1>6. PICK ans : ans = tool_read_file(path, content, span, fault)
  OBVIOUS
<1>7. PICK at, m : /\ at = IF fault = "seek" THEN 0 ELSE from
                   /\ m = IF fault = "read" THEN 0 ELSE Min({n, ReadMax})
  OBVIOUS
<1>8. \/ ans = Refused(404)
      \/ ans = [is |-> "text", code |-> 200, body |-> sanitize_utf8(SubSeq(content, at + 1, at + m))]
  BY <1>3, <1>4, <1>6, <1>7 DEF tool_read_file
<1>9. CASE ans = Refused(404)
  BY <1>1, <1>6, <1>9, Refusals
<1>10. CASE ans = [is |-> "text", code |-> 200, body |-> sanitize_utf8(SubSeq(content, at + 1, at + m))]
  <2>1. ans.is = "text" /\ ans.code = 200 /\ ans.body = sanitize_utf8(Part(content, at, m))
    BY <1>10 DEF Part
  <2>2. ASSUME Steady(req)
        PROVE  /\ Len(ans.body) = Len(TextOf(req))
               /\ \A i \in 1..Len(TextOf(req)) : ans.body[i] = Shown(TextOf(req), i)
    <3>1. at = from /\ m = Min({n, ReadMax})
      BY <1>7, <2>2 DEF Steady
    <3>2. n \in Int /\ ReadMax \in Int /\ ReadMax \in Nat
      BY <1>5, FileReadsAssumption
    <3>3. Min({n, ReadMax}) = IF n <= ReadMax THEN n ELSE ReadMax
      BY <3>2, LesserOf
    <3>4. m \in Nat /\ m <= n /\ from + m <= Len(content)
      <4>1. m \in Nat /\ m <= n
        BY <1>5, <3>1, <3>2, <3>3
      <4>2. Len(content) \in Nat
        BY <1>2
      <4> QED
        BY <1>5, <4>1, <4>2
    <3>5. PICK part, b : part = Part(content, from, n) /\ b = Part(content, from, m)
      OBVIOUS
    <3>6. part \in Seq(Bytes) /\ Len(part) = n /\ \A i \in 1..n : part[i] = content[from + i]
      BY <1>2, <1>5, <3>5, PartIs
    <3>7. b \in Seq(Bytes) /\ Len(b) = m /\ \A i \in 1..m : b[i] = content[from + i]
      BY <1>2, <1>5, <3>4, <3>5, PartIs
    <3>8. PICK c : c = Part(part, 0, m)
      OBVIOUS
    <3>9. c \in Seq(Bytes) /\ Len(c) = m /\ \A i \in 1..m : c[i] = part[0 + i]
      <4>1. 0 \in Nat /\ 0 + m <= Len(part)
        BY <3>4, <3>6
      <4> QED
        BY <3>4, <3>6, <3>8, <4>1, PartIs
    <3>10. \A i \in 1..Len(b) : b[i] = c[i]
      <4> SUFFICES ASSUME NEW i \in 1..m PROVE b[i] = c[i]
        BY <3>7
      <4>1. 0 + i = i /\ i \in 1..n
        BY <1>5, <3>4
      <4> QED
        BY <4>1, <3>6, <3>7, <3>9
    <3>11. b = c
      BY <3>7, <3>9, <3>10, SameSequence
    <3>12. TextOf(req) = c
      <4>1. Slice(req.content, req.span) = part
        BY <1>1, <1>5, <3>5
      <4>2. TextOf(req) = SubSeq(part, 1, m)
        BY <3>1, <3>6, <4>1 DEF TextOf
      <4>3. 0 + 1 = 1 /\ 0 + m = m
        BY <3>4
      <4> QED
        BY <3>8, <4>2, <4>3 DEF Part
    <3>13. ans.body = sanitize_utf8(b)
      BY <2>1, <3>1, <3>5
    <3>14. Len(sanitize_utf8(b)) = Len(b) /\ \A k \in 1..Len(b) : sanitize_utf8(b)[k] = Shown(b, k)
      BY <3>7, TextIsClean
    <3> QED
      BY <3>11, <3>12, <3>13, <3>14
  <2>3. Fair(req, ans)
    BY <2>1, <2>2 DEF Fair
  <2> QED
    BY <1>1, <1>6, <2>3
<1> QED
  BY <1>8, <1>9, <1>10

LEMMA AnswersFair ==
    ASSUME NEW req \in ReadRequests, NEW expected, NEW ans,
           \/ ans = get_files(req.path, req.content, req.names, req.span, req.fault)
           \/ ans = tool_list_directory(req.path, req.names, req.fault)
           \/ ans = tool_read_file(req.path, req.content, req.span, req.fault)
           \/ ans = get_hash(req.path, req.content, req.fault)
           \/ ans = tool_hash_file(req.path, req.content, expected, req.fault)
    PROVE  Fair(req, ans) /\ NotClimbing(req, ans)
<1>0. req.path \in Seq(STRING)
  BY DEF ReadRequests
<1>a. \A status \in {400, 404, 500} : Fair(req, Refused(status))
  BY Refusals
<1>b. Climbs(req.path) => ~files_resolve(req.path)
  BY <1>0, ResolvedDoesNotClimb
<1>c. \A status \in {400, 404} : NotClimbing(req, Refused(status))
  BY DEF NotClimbing, Refused
<1>1. CASE ans = get_files(req.path, req.content, req.names, req.span, req.fault)
  <2>1. CASE ~files_resolve(req.path)
    <3>1. ans = Refused(400)
      BY <1>1, <2>1 DEF get_files
    <3> QED
      BY <3>1, <1>a, <1>c
  <2>2. CASE files_resolve(req.path)
    <3>1. NotClimbing(req, ans)
      BY <1>b, <2>2 DEF NotClimbing
    <3>2. \/ ans = Refused(500) \/ ans = Refused(404) \/ ans = Refused(400)
          \/ ans = files_build_listing(req.names)
          \/ ans = send_file(req.content, req.span[1], req.span[2], req.fault)
      BY <1>1, <2>2 DEF get_files
    <3>3. Fair(req, ans)
      BY <3>2, <1>a, ListingFair, FileFair
    <3> QED
      BY <3>1, <3>3
  <2> QED
    BY <2>1, <2>2
<1>2. CASE ans = tool_list_directory(req.path, req.names, req.fault)
  <2>1. CASE ~files_resolve(req.path)
    <3>1. ans = Refused(404)
      BY <1>2, <2>1 DEF tool_list_directory
    <3> QED
      BY <3>1, <1>a, <1>c
  <2>2. CASE files_resolve(req.path)
    <3>1. NotClimbing(req, ans)
      BY <1>b, <2>2 DEF NotClimbing
    <3>2. ans = Refused(404) \/ ans = files_build_listing(req.names)
      BY <1>2 DEF tool_list_directory
    <3> QED
      BY <3>1, <3>2, <1>a, ListingFair
  <2> QED
    BY <2>1, <2>2
<1>3. CASE ans = tool_read_file(req.path, req.content, req.span, req.fault)
  <2>1. Fair(req, ans)
    BY <1>3, TextFair
  <2>2. CASE ~files_resolve(req.path)
    <3>1. ans = Refused(404)
      BY <1>3, <2>2 DEF tool_read_file
    <3> QED
      BY <2>1, <3>1, <1>c
  <2>3. CASE files_resolve(req.path)
    BY <1>b, <2>1, <2>3 DEF NotClimbing
  <2> QED
    BY <2>2, <2>3
<1>4. CASE ans = get_hash(req.path, req.content, req.fault)
  <2>1. Fair(req, ans)
    BY <1>4, HashFair
  <2>2. CASE ~files_resolve(req.path)
    <3>1. ans = Refused(400)
      BY <1>4, <2>2 DEF get_hash
    <3> QED
      BY <2>1, <3>1, <1>c
  <2>3. CASE files_resolve(req.path)
    BY <1>b, <2>1, <2>3 DEF NotClimbing
  <2> QED
    BY <2>2, <2>3
<1>5. CASE ans = tool_hash_file(req.path, req.content, expected, req.fault)
  <2>1. Fair(req, ans)
    BY <1>5, MatchFair
  <2>2. CASE ~files_resolve(req.path)
    <3>1. get_hash(req.path, req.content, req.fault) = Refused(400)
      BY <2>2 DEF get_hash
    <3>2. ans = Refused(400)
      BY <1>5, <3>1 DEF tool_hash_file, Refused
    <3> QED
      BY <2>1, <3>2, <1>c
  <2>3. CASE files_resolve(req.path)
    BY <1>b, <2>1, <2>3 DEF NotClimbing
  <2> QED
    BY <2>2, <2>3
<1> QED
  BY <1>1, <1>2, <1>3, <1>4, <1>5

LEMMA FairIsRight ==
    ASSUME NEW req, req \in ReadRequests, NEW ans, Fair(req, ans), NotClimbing(req, ans)
    PROVE  AsStored(req, ans)
<1>1. PICK part, bytes : part = Slice(req.content, req.span) /\ bytes = SubSeq(part, 1, Min({Len(part), ReadMax}))
  OBVIOUS
<1>2. PICK fits : fits = {i \in DOMAIN req.names : req.names[i] < NameMax}
  OBVIOUS
<1>3. TextOf(req) = bytes
  BY <1>1 DEF TextOf
<1>4. req.content \in Seq(Bytes) /\ req.span \in Int \X Int /\ req.names \in Seq(Nat)
  BY DEF ReadRequests
<1>5. bytes \in Seq(Bytes) /\ DOMAIN bytes = 1..Len(bytes)
  <2>1. PICK from, n : /\ from = files_clamp_range(Len(req.content), req.span[1], req.span[2]).offset
                       /\ n = files_clamp_range(Len(req.content), req.span[1], req.span[2]).length
    OBVIOUS
  <2>2. from \in Nat /\ n \in Nat /\ from + n <= Len(req.content) /\ part = Part(req.content, from, n)
    BY <1>1, <1>4, <2>1, SliceIsRange
  <2>3. part \in Seq(Bytes) /\ Len(part) = n
    BY <1>4, <2>2, PartIs
  <2>4. PICK m : m = Min({Len(part), ReadMax})
    OBVIOUS
  <2>5. m \in Nat /\ m <= Len(part)
    <3>1. ReadMax \in Nat /\ Len(part) \in Nat
      BY <2>2, <2>3, FileReadsAssumption
    <3>2. Min({Len(part), ReadMax}) = IF Len(part) <= ReadMax THEN Len(part) ELSE ReadMax
      BY <3>1, LesserOf
    <3> QED
      BY <2>4, <3>1, <3>2
  <2>6. 0 \in Nat /\ 0 + m <= Len(part) /\ 0 + 1 = 1 /\ 0 + m = m
    BY <2>5
  <2>7. Part(part, 0, m) \in Seq(Bytes)
    BY <2>3, <2>5, <2>6, PartIs
  <2>8. bytes \in Seq(Bytes)
    BY <1>1, <2>4, <2>6, <2>7 DEF Part
  <2> QED
    BY <2>8
<1>6. fits = Writable(req.names, Len(req.names)) /\ \A i \in fits : {j \in fits : j <= i} = Writable(req.names, i)
  <2>1. DOMAIN req.names = 1..Len(req.names) /\ Len(req.names) \in Nat
    BY <1>4
  <2>2. fits = Writable(req.names, Len(req.names))
    BY <1>2, <2>1 DEF Writable
  <2>3. ASSUME NEW i \in fits PROVE {j \in fits : j <= i} = Writable(req.names, i)
    <3>1. i \in 1..Len(req.names)
      BY <1>2, <2>1
    <3> QED
      BY <1>2, <2>1, <3>1 DEF Writable
  <2> QED
    BY <2>2, <2>3
<1>7. ans.is = "file" => ans.length = Len(part) /\ (Steady(req) => ans.body = part)
  BY <1>1 DEF Fair
<1>8. ans.is = "listing" =>
        /\ Len(ans.listed) = Cardinality(fits)
        /\ \A i \in fits : ans.listed[Cardinality({j \in fits : j <= i})] = req.names[i]
  <2> SUFFICES ASSUME ans.is = "listing"
               PROVE  /\ Len(ans.listed) = Cardinality(fits)
                      /\ \A i \in fits : ans.listed[Cardinality({j \in fits : j <= i})] = req.names[i]
    OBVIOUS
  <2>1. Entered(req.names, Len(req.names), ans.listed)
    BY DEF Fair
  <2> QED
    BY <1>6, <2>1 DEF Entered
<1>9. /\ ans.is \in {"hash", "match"} => ans.hash = req.content
      /\ ans.is = "match" => (ans.matched <=> ans.expected = req.content)
  BY DEF Fair
<1>10. ans.is = "text" /\ Steady(req) =>
        /\ Len(ans.body) = Len(bytes)
        /\ \A i \in DOMAIN bytes : ans.body[i] = IF Sound(bytes, i) THEN bytes[i] ELSE 63
  BY <1>3, <1>5 DEF Fair, Shown
<1>12. /\ Climbs(req.path) => ans.code \in {400, 404}
       /\ Steady(req) <=> req.fault \notin {"seek", "read"}
  BY DEF NotClimbing, Steady
<1> QED
  BY <1>1, <1>2, <1>7, <1>8, <1>9, <1>10, <1>12 DEF AsStored

LEMMA AskedRight ==
    ASSUME NEW path \in Seq(STRING), NEW content \in Seq(Bytes), NEW names \in Seq(Nat),
           NEW span \in Int \X Int, AskFor(path, content, names, span)
    PROVE  ReadsAsStored'
<1>0. PICK fault \in Faults :
        LET Answer(ans) ==
              shown' = [of |-> "read", ans |-> ans,
                        req |-> [path |-> path, content |-> content, names |-> names,
                                 span |-> span, fault |-> fault]]
        IN  \/ Answer(get_files(path, content, names, span, fault))
            \/ Answer(tool_list_directory(path, names, fault))
            \/ Answer(tool_read_file(path, content, span, fault))
            \/ Answer(get_hash(path, content, fault))
            \/ \E expected \in {<<>>, content} :
                  Answer(tool_hash_file(path, content, expected, fault))
  BY DEF AskFor
<1>1. PICK expected, ans :
        /\ \/ ans = get_files(path, content, names, span, fault)
           \/ ans = tool_list_directory(path, names, fault)
           \/ ans = tool_read_file(path, content, span, fault)
           \/ ans = get_hash(path, content, fault)
           \/ ans = tool_hash_file(path, content, expected, fault)
        /\ shown' = [of |-> "read", ans |-> ans,
                     req |-> [path |-> path, content |-> content, names |-> names,
                              span |-> span, fault |-> fault]]
  BY <1>0
<1>2. PICK req : req = [path |-> path, content |-> content, names |-> names,
                        span |-> span, fault |-> fault]
  OBVIOUS
<1>3. req \in ReadRequests
  BY <1>1, <1>2 DEF ReadRequests
<1>4. /\ req.path = path /\ req.content = content /\ req.names = names
      /\ req.span = span /\ req.fault = fault
  BY <1>2
<1>5. Fair(req, ans) /\ NotClimbing(req, ans)
  BY <1>1, <1>3, <1>4, AnswersFair
<1>6. AsStored(req, ans)
  BY <1>3, <1>5, FairIsRight
<1>7. shown'.req = req /\ shown'.ans = ans
  BY <1>1, <1>2
<1> QED
  BY <1>6, <1>7 DEF ReadsAsStored

LEMMA ReadsRightly == ReadsNext => ReadsAsStored'
<1> SUFFICES ASSUME ReadsNext PROVE ReadsAsStored'
  OBVIOUS
<1>1. /\ DirPaths \subseteq Seq(STRING) /\ AskedPaths \subseteq Seq(STRING) /\ FilePath \in Seq(STRING)
      /\ Contents \subseteq Seq(Bytes) /\ Ranges \subseteq Int \X Int /\ Listings \subseteq Seq(Nat)
  BY FileReadsAssumption DEF Bytes
<1>2. <<>> \in Seq(Bytes) /\ <<>> \in Seq(Nat) /\ <<0, -1>> \in Int \X Int
  OBVIOUS
<1>3. ASSUME NEW path \in AskedPaths, AskFor(path, <<>>, <<>>, <<0, -1>>) PROVE ReadsAsStored'
  BY <1>1, <1>2, <1>3, AskedRight
<1>4. ASSUME NEW content \in Contents, NEW span \in Ranges, AskFor(FilePath, content, <<>>, span)
      PROVE  ReadsAsStored'
  BY <1>1, <1>2, <1>4, AskedRight
<1>5. ASSUME NEW dir \in DirPaths, NEW names \in Listings, AskFor(dir, <<>>, names, <<0, -1>>)
      PROVE  ReadsAsStored'
  BY <1>1, <1>2, <1>5, AskedRight
<1> QED
  BY <1>3, <1>4, <1>5 DEF ReadsNext

LEMMA ReadsKept == ReadsAsStored /\ [Next]_vars => ReadsAsStored'
<1> SUFFICES ASSUME ReadsAsStored, [Next]_vars PROVE ReadsAsStored'
  OBVIOUS
<1>1. CASE ReadsNext
  BY <1>1, ReadsRightly
<1>2. CASE UNCHANGED shown
  BY <1>2 DEF ReadsAsStored
<1>3. ReadsNext \/ UNCHANGED shown
  BY DEF Next, vars, CrashStep, DnsStep, SettingStep, ClockStep, MdnsStep, RouteStep,
         JsonStep, ReadsStep
<1> QED
  BY <1>1, <1>2, <1>3

(* For every path, content, range, directory and buffer size, whichever    *)
(* call fails: a download is the range asked for, however many buffers it  *)
(* takes; a listing has every name that can be written, in order, or       *)
(* fails; a text has each sound character and a '?' for each other byte; a *)
(* hash is of the whole file; and a path with a ".." segment is refused    *)
(* (files.c, files_http.c, files_mcp.c).                                   *)
THEOREM CardReadExactly == Spec => []ReadsAsStored
<1>1. Init => ReadsAsStored
  BY DEF Init, ReadsInit, ReadsAsStored
<1> QED
  BY <1>1, ReadsKept, PTL DEF Spec

(* ---- mDNS: packets ---- *)

(* ends is what Ends(q) computes: where each question of q ends.           *)
EndsOf(q, ends) ==
    /\ ends \in [0..Len(q.questions) -> Nat] /\ ends[0] = 0
    /\ \A i \in 1..Len(q.questions) : ends[i] = ends[i - 1] + Len(q.questions[i])

LEMMA QuestionLen ==
    ASSUME NEW q \in Queries
    PROVE  /\ Len(q.questions) \in Nat /\ DOMAIN q.questions = 1..Len(q.questions)
           /\ q.cut \in Nat /\ PacketLen(q) \in Nat
           /\ \A i \in 1..Len(q.questions) :
                 /\ IsQuestion(q.questions[i]) /\ q.questions[i] \in Seq(Cell)
                 /\ Len(q.questions[i]) \in Nat /\ Len(q.questions[i]) > 1
<1>1. /\ Len(q.questions) \in Nat /\ DOMAIN q.questions = 1..Len(q.questions)
      /\ \A i \in DOMAIN q.questions : IsQuestion(q.questions[i])
      /\ q.cut \in Nat /\ PacketLen(q) \in Nat
  BY MdnsAssumption
<1>2. ASSUME NEW i \in 1..Len(q.questions)
      PROVE  /\ IsQuestion(q.questions[i]) /\ q.questions[i] \in Seq(Cell)
             /\ Len(q.questions[i]) \in Nat /\ Len(q.questions[i]) > 1
  <2>1. IsQuestion(q.questions[i])
    BY <1>1
  <2>2. q.questions[i] \in Seq(Cell) /\ Len(q.questions[i]) > 1
    BY <2>1 DEF IsQuestion
  <2>3. Len(q.questions[i]) \in Nat
    BY <2>2
  <2> QED
    BY <2>1, <2>2, <2>3
<1> QED
  BY <1>1, <1>2

LEMMA EndsRight ==
    ASSUME NEW q \in Queries PROVE EndsOf(q, Ends(q))
<1> DEFINE N == Len(q.questions)
           step == [p \in Nat \X (1..N) |-> p[1] + Len(q.questions[p[2]])]
<1>1. N \in Nat /\ \A i \in 1..N : Len(q.questions[i]) \in Nat
  BY QuestionLen
<1>2. \A s \in Nat, i \in 1..N : step[<<s, i>>] = s + Len(q.questions[i])
  OBVIOUS
<1>3. ClosedUnder(step, Nat, N)
  <2> HIDE DEF step, N
  <2>1. ASSUME NEW s \in Nat, NEW i \in 1..N PROVE step[<<s, i>>] \in Nat
    <3>1. Len(q.questions[i]) \in Nat
      BY <1>1
    <3> QED
      BY <1>2, <3>1
  <2> QED
    BY <2>1 DEF ClosedUnder
<1>4. PICK g : Recursive(g, N, Nat, 0, step)
  <2> HIDE DEF step, N
  <2> QED
    BY <1>1, <1>3, RecursionExists
<1>5. ASSUME NEW i \in 0..N, i # 0 PROVE g[i] = g[i - 1] + Len(q.questions[i])
  <2> HIDE DEF step
  <2>1. i \in 1..N /\ i - 1 \in 0..N
    BY <1>1, <1>5
  <2> QED
    BY <1>2, <1>4, <2>1 DEF Recursive
<1>6. g = [i \in 0..N |-> IF i = 0 THEN 0 ELSE g[i - 1] + Len(q.questions[i])]
  <2> HIDE DEF step
  <2> QED
    BY <1>4, <1>5 DEF Recursive
<1> DEFINE ends[i \in 0..N] == IF i = 0 THEN 0 ELSE ends[i - 1] + Len(q.questions[i])
<1>7. Ends(q) = ends
  BY DEF Ends
<1>8. ends = [i \in 0..N |-> IF i = 0 THEN 0 ELSE ends[i - 1] + Len(q.questions[i])]
  BY <1>6
<1> HIDE DEF ends, step
<1>9. ends[0] = 0 /\ \A i \in 1..N : ends[i] = ends[i - 1] + Len(q.questions[i])
  <2>1. PICK n : n = N
    OBVIOUS
  <2>2. n \in Nat /\ ends = [i \in 0..n |-> IF i = 0 THEN 0 ELSE ends[i - 1] + Len(q.questions[i])]
    BY <1>1, <1>8, <2>1
  <2>3. ends[0] = 0 /\ \A i \in 1..n : ends[i] = ends[i - 1] + Len(q.questions[i])
    BY <2>2
  <2> QED
    BY <2>1, <2>3
<1>10. \A i \in 0..N : ends[i] \in Nat
  <2> DEFINE P == {i \in 0..N : ends[i] \in Nat}
  <2>1. ASSUME NEW i \in 0..(N - 1), i \in P PROVE i + 1 \in P
    <3>1. i + 1 \in 1..N /\ i + 1 - 1 = i
      BY <1>1
    <3>2. Len(q.questions[i + 1]) \in Nat /\ ends[i + 1] = ends[i] + Len(q.questions[i + 1])
      BY <1>1, <1>9, <3>1
    <3> QED
      BY <2>1, <3>1, <3>2
  <2>2. 0 \in P
    BY <1>1, <1>9
  <2>3. \A i \in 0..N : i \in P
    <3> HIDE DEF P, N
    <3> QED
      BY <1>1, <2>1, <2>2, SetInduction
  <2> QED
    BY <2>3
<1>11. ends \in [0..N -> Nat]
  BY <1>8, <1>10
<1> QED
  BY <1>7, <1>9, <1>11 DEF EndsOf

LEMMA EndsRise ==
    ASSUME NEW q \in Queries, NEW ends, EndsOf(q, ends), NEW i \in 0..Len(q.questions)
    PROVE  \A j \in i..Len(q.questions) : ends[i] <= ends[j]
<1> DEFINE N == Len(q.questions)
           P == {d \in 0..(N - i) : ends[i] <= ends[i + d]}
<1>1. N \in Nat /\ \A k \in 1..N : Len(q.questions[k]) \in Nat
  BY QuestionLen
<1>2. 0 \in P
  BY <1>1 DEF EndsOf
<1>3. ASSUME NEW d \in 0..(N - i - 1), d \in P PROVE d + 1 \in P
  <2>1. i + d + 1 \in 1..N /\ i + d + 1 - 1 = i + d /\ i + d \in 0..N /\ d + 1 \in 0..(N - i)
        /\ i + (d + 1) = i + d + 1
    BY <1>1
  <2>2. ends[i + d + 1] = ends[i + d] + Len(q.questions[i + d + 1])
    BY <2>1 DEF EndsOf
  <2>3. Len(q.questions[i + d + 1]) \in Nat /\ ends[i + d] \in Nat /\ ends[i] \in Nat
    BY <1>1, <2>1 DEF EndsOf
  <2>4. ends[i] <= ends[i + d]
    BY <1>3
  <2>5. ends[i] <= ends[i + (d + 1)]
    BY <2>1, <2>2, <2>3, <2>4
  <2> QED
    BY <2>1, <2>5
<1>4. \A d \in 0..(N - i) : d \in P
  <2>1. N - i \in Nat
    BY <1>1
  <2> HIDE DEF P
  <2> QED
    BY <1>2, <1>3, <2>1, SetInduction
<1>5. ASSUME NEW j \in i..N PROVE ends[i] <= ends[j]
  <2>1. j - i \in 0..(N - i) /\ i + (j - i) = j
    BY <1>1
  <2> QED
    BY <1>4, <2>1
<1> QED
  BY <1>5

(* Every cell of a question that is not cut off is where Ends puts it.     *)
LEMMA PacketRight ==
    ASSUME NEW q \in Queries
    PROVE  /\ Packet(q) \in Seq(Cell) /\ Len(Packet(q)) = PacketLen(q)
           /\ \A i \in 1..Len(q.questions) : \A c \in 1..Len(q.questions[i]) :
                 Ends(q)[i - 1] + c <= PacketLen(q) =>
                    Packet(q)[Ends(q)[i - 1] + c] = q.questions[i][c]
<1> DEFINE N == Len(q.questions)
           ends == Ends(q)
           Holder(c) == CHOOSE i \in DOMAIN q.questions : c \in (ends[i - 1] + 1)..ends[i]
<1>1. /\ N \in Nat /\ PacketLen(q) \in Nat /\ DOMAIN q.questions = 1..N /\ q.cut \in Nat
      /\ \A k \in 1..N : q.questions[k] \in Seq(Cell) /\ Len(q.questions[k]) \in Nat
  BY QuestionLen
<1>2. EndsOf(q, ends)
  BY EndsRight
<1>3. Packet(q) = [c \in 1..PacketLen(q) |-> q.questions[Holder(c)][c - ends[Holder(c) - 1]]]
  BY DEF Packet
<1>4. PacketLen(q) <= ends[N] /\ ends[N] \in Nat
  <2>1. ends[N] \in Nat
    BY <1>1, <1>2 DEF EndsOf
  <2> QED
    BY <2>1, <1>1 DEF PacketLen
<1> HIDE DEF ends
<1>5. ASSUME NEW c \in 1..PacketLen(q)
      PROVE  \E i \in 1..N : c \in (ends[i - 1] + 1)..ends[i]
  <2> DEFINE S == {i \in 0..N : c <= ends[i]}
  <2>1. N \in S /\ S \in SUBSET Nat
    BY <1>1, <1>4
  <2>2. PICK i \in S : \A k \in S : i <= k
    <3> HIDE DEF S
    <3> QED
      BY <2>1, LeastNatural
  <2>3. i # 0
    BY <1>2 DEF EndsOf
  <2>4. i \in 1..N /\ i - 1 \in 0..N /\ i - 1 \notin S
    BY <1>1, <2>2, <2>3
  <2>5. ends[i - 1] \in Nat /\ ends[i] \in Nat
    BY <1>2, <2>4 DEF EndsOf
  <2>6. c > ends[i - 1] /\ c <= ends[i]
    BY <2>2, <2>4, <2>5
  <2>7. c \in (ends[i - 1] + 1)..ends[i]
    BY <2>5, <2>6
  <2> QED
    BY <2>4, <2>7
<1>6. ASSUME NEW c \in 1..PacketLen(q), NEW i \in 1..N, NEW j \in 1..N,
             c \in (ends[i - 1] + 1)..ends[i], c \in (ends[j - 1] + 1)..ends[j]
      PROVE  ~(i < j)
  <2> SUFFICES ASSUME i < j PROVE FALSE
    OBVIOUS
  <2>1. i \in 0..N /\ j - 1 \in i..N /\ j - 1 \in 0..N
    BY <1>1
  <2>2. ends[i] <= ends[j - 1]
    BY <1>2, <2>1, EndsRise
  <2>3. ends[i] \in Nat /\ ends[j - 1] \in Nat
    BY <1>2, <2>1 DEF EndsOf
  <2>4. c <= ends[i] /\ ends[j - 1] + 1 <= c
    BY <1>6
  <2> QED
    BY <2>2, <2>3, <2>4
<1>7. ASSUME NEW c \in 1..PacketLen(q), NEW i \in 1..N, c \in (ends[i - 1] + 1)..ends[i]
      PROVE  Holder(c) = i
  <2>1. Holder(c) \in 1..N /\ c \in (ends[Holder(c) - 1] + 1)..ends[Holder(c)]
    BY <1>1, <1>5
  <2> HIDE DEF Holder
  <2>2. ~(Holder(c) < i) /\ ~(i < Holder(c))
    BY <1>6, <1>7, <2>1
  <2> QED
    BY <1>1, <2>1, <2>2
<1> HIDE DEF Holder
<1>8. ASSUME NEW i \in 1..N, NEW c \in 1..Len(q.questions[i]), ends[i - 1] + c <= PacketLen(q)
      PROVE  Packet(q)[ends[i - 1] + c] = q.questions[i][c]
  <2>1. i - 1 \in 0..N /\ i \in 0..N
    BY <1>1
  <2>2. ends[i - 1] \in Nat /\ ends[i] = ends[i - 1] + Len(q.questions[i])
        /\ Len(q.questions[i]) \in Nat
    BY <1>1, <1>2, <2>1 DEF EndsOf
  <2>3. /\ ends[i - 1] + c \in 1..PacketLen(q)
        /\ ends[i - 1] + c \in (ends[i - 1] + 1)..ends[i]
    BY <1>8, <2>2
  <2>4. Holder(ends[i - 1] + c) = i
    BY <1>7, <2>3
  <2> DEFINE k == ends[i - 1] + c
  <2>5. Packet(q)[k] = q.questions[i][k - ends[i - 1]]
    <3>1. k \in 1..PacketLen(q) /\ Holder(k) = i
      BY <2>3, <2>4
    <3> HIDE DEF k
    <3> QED
      BY <1>3, <3>1
  <2>6. k - ends[i - 1] = c
    BY <2>2
  <2> QED
    BY <2>5, <2>6
<1>9. ASSUME NEW c \in 1..PacketLen(q) PROVE Packet(q)[c] \in Cell
  <2>1. PICK i \in 1..N : c \in (ends[i - 1] + 1)..ends[i]
    BY <1>5
  <2>2. i - 1 \in 0..N /\ i \in 0..N
    BY <1>1
  <2>3. ends[i - 1] \in Nat /\ ends[i] = ends[i - 1] + Len(q.questions[i])
        /\ Len(q.questions[i]) \in Nat
    BY <1>1, <1>2, <2>2 DEF EndsOf
  <2>4. /\ c - ends[i - 1] \in 1..Len(q.questions[i]) /\ ends[i - 1] + (c - ends[i - 1]) = c
        /\ c <= PacketLen(q)
    BY <2>1, <2>3
  <2>5. Packet(q)[c] = q.questions[i][c - ends[i - 1]]
    BY <1>8, <2>4
  <2>6. q.questions[i][c - ends[i - 1]] \in Cell
    BY <1>1, <2>4
  <2> QED
    BY <2>5, <2>6
<1>10. Packet(q) \in [1..PacketLen(q) -> Cell]
  BY <1>3, <1>9
<1>11. Packet(q) \in Seq(Cell) /\ Len(Packet(q)) = PacketLen(q)
  BY <1>1, <1>10
<1> QED
  BY <1>8, <1>11 DEF ends

(* ---- mDNS: names ---- *)

LEMMA CellKinds ==
    ASSUME NEW c \in Cell
    PROVE  /\ c.k \in {"label", "pointer", "end", "ask"}
           /\ c.k = "pointer" => c.to \in Nat
           /\ c.k = "ask" => c.type \in Types /\ c.qu \in BOOLEAN
<1>1. CASE c = End
  BY <1>1 DEF End
<1>2. CASE c \in [k : {"label"}, label : STRING]
  BY <1>2
<1>3. CASE c \in [k : {"pointer"}, to : Nat]
  BY <1>3
<1>4. CASE c \in [k : {"ask"}, type : Types, qu : BOOLEAN]
  BY <1>4
<1> QED
  BY <1>1, <1>2, <1>3, <1>4 DEF Cell

WalkStates(name) == [at : {"cell", "refused", "end"}, off : Nat,
                     matched : 0..Len(name), hops : 0..MaxHops]
WalkStart(off) == [at |-> "cell", off |-> off, matched |-> 0, hops |-> 0]

(* What one round of the loop does, by the cell it stands on.              *)
LEMMA FollowDoes ==
    ASSUME NEW pkt \in Seq(Cell), NEW name \in Seq(STRING), NEW w \in WalkStates(name)
    PROVE  LET f == Follow(pkt, name, w)
               c == pkt[w.off]
           IN  /\ f \in WalkStates(name)
               /\ w.at # "cell" => f = w
               /\ w.at = "cell" /\ w.off \notin DOMAIN pkt => f.at = "refused"
               /\ w.at = "cell" /\ w.off \in DOMAIN pkt =>
                    /\ c.k = "pointer" /\ w.hops < MaxHops =>
                         f = [at |-> "cell", off |-> c.to, matched |-> w.matched, hops |-> w.hops + 1]
                    /\ c.k = "pointer" /\ w.hops >= MaxHops => f.at = "refused"
                    /\ c.k = "label" /\ w.matched < Len(name) /\ c.label = name[w.matched + 1] =>
                         f = [at |-> "cell", off |-> w.off + 1, matched |-> w.matched + 1, hops |-> w.hops]
                    /\ c.k = "label" /\ ~(w.matched < Len(name) /\ c.label = name[w.matched + 1]) =>
                         f.at = "refused"
                    /\ c.k \in {"end", "ask"} => f.at = "end" /\ f.matched = w.matched
<1> DEFINE f == Follow(pkt, name, w)
           c == pkt[w.off]
<1>1. /\ w = [at |-> w.at, off |-> w.off, matched |-> w.matched, hops |-> w.hops]
      /\ w.at \in {"cell", "refused", "end"} /\ w.off \in Nat
      /\ w.matched \in 0..Len(name) /\ w.hops \in 0..MaxHops
  BY DEF WalkStates
<1>2. MaxHops \in Nat /\ Len(name) \in Nat
  BY MdnsAssumption
<1>3. Refuse(w) \in WalkStates(name) /\ Refuse(w).at = "refused"
  BY <1>1 DEF Refuse, WalkStates
<1>4. CASE w.at # "cell"
  BY <1>4 DEF Follow
<1>5. CASE w.at = "cell" /\ w.off \notin DOMAIN pkt
  BY <1>3, <1>5 DEF Follow
<1>6. CASE w.at = "cell" /\ w.off \in DOMAIN pkt
  <2>1. c \in Cell
    BY <1>6
  <2>2. c.k \in {"label", "pointer", "end", "ask"} /\ (c.k = "pointer" => c.to \in Nat)
    BY <2>1, CellKinds
  <2>3. CASE c.k = "pointer"
    <3>1. f = IF w.hops < MaxHops
                THEN [at |-> "cell", off |-> c.to, matched |-> w.matched, hops |-> w.hops + 1]
                ELSE Refuse(w)
      BY <1>6, <2>3 DEF Follow
    <3>3. w.hops < MaxHops => w.hops + 1 \in 0..MaxHops
      BY <1>1, <1>2
    <3>4. w.hops < MaxHops \/ w.hops >= MaxHops
      BY <1>1, <1>2
    <3>5. w.hops < MaxHops => ~(w.hops >= MaxHops)
      BY <1>1, <1>2
    <3>6. f \in WalkStates(name)
      BY <1>1, <1>3, <2>2, <2>3, <3>1, <3>3 DEF WalkStates
    <3> HIDE DEF f, c
    <3> QED
      BY <1>3, <1>6, <2>3, <3>1, <3>4, <3>5, <3>6 DEF f, c
  <2>4. CASE c.k = "label"
    <3>1. f = IF w.matched < Len(name) /\ c.label = name[w.matched + 1]
                THEN [at |-> "cell", off |-> w.off + 1, matched |-> w.matched + 1, hops |-> w.hops]
                ELSE Refuse(w)
      BY <1>6, <2>4 DEF Follow
    <3>3. w.matched < Len(name) => w.matched + 1 \in 0..Len(name)
      BY <1>1, <1>2
    <3>4. w.off + 1 \in Nat
      BY <1>1
    <3>5. f \in WalkStates(name)
      BY <1>1, <1>3, <2>4, <3>1, <3>3, <3>4 DEF WalkStates
    <3> QED
      BY <1>3, <1>6, <2>4, <3>1, <3>5
  <2>5. CASE c.k \in {"end", "ask"}
    <3>1. f = [w EXCEPT !.at = "end"]
      BY <1>6, <2>5 DEF Follow
    <3>2. f = [at |-> "end", off |-> w.off, matched |-> w.matched, hops |-> w.hops]
      BY <1>1, <3>1
    <3>3. f \in WalkStates(name)
      BY <1>1, <3>2 DEF WalkStates
    <3> QED
      BY <1>6, <2>5, <3>2, <3>3
  <2> QED
    BY <2>2, <2>3, <2>4, <2>5
<1> QED
  BY <1>1, <1>4, <1>5, <1>6

(* walk is the loop of name_equals, round by round.                        *)
WalkOf(pkt, off, name, walk) ==
    /\ \A n \in 0..(Len(name) + MaxHops + 1) : walk[n] \in WalkStates(name)
    /\ walk[0] = WalkStart(off)
    /\ \A n \in 1..(Len(name) + MaxHops + 1) : walk[n] = Follow(pkt, name, walk[n - 1])

LEMMA WalkRight ==
    ASSUME NEW pkt \in Seq(Cell), NEW off \in Nat, NEW name \in Seq(STRING)
    PROVE  \E walk : /\ WalkOf(pkt, off, name, walk)
                     /\ Walk(pkt, off, name) = walk[Len(name) + MaxHops + 1]
<1> DEFINE N == Len(name) + MaxHops + 1
           S == WalkStates(name)
           step == [p \in S \X (1..N) |-> Follow(pkt, name, p[1])]
<1>1. N \in Nat /\ Len(name) \in Nat /\ MaxHops \in Nat
  BY MdnsAssumption
<1>2. WalkStart(off) \in S
  BY <1>1 DEF WalkStart, WalkStates
<1>3. \A s \in S, i \in 1..N : step[<<s, i>>] = Follow(pkt, name, s)
  OBVIOUS
<1>4. ClosedUnder(step, S, N)
  <2> HIDE DEF step, N
  <2>1. ASSUME NEW s \in S, NEW i \in 1..N PROVE step[<<s, i>>] \in S
    BY <1>3, FollowDoes
  <2> HIDE DEF S
  <2> QED
    BY <2>1 DEF ClosedUnder
<1>5. PICK g : Recursive(g, N, S, WalkStart(off), step)
  <2> HIDE DEF step, S, N
  <2> QED
    BY <1>1, <1>2, <1>4, RecursionExists
<1>6. ASSUME NEW i \in 0..N, i # 0 PROVE g[i] = Follow(pkt, name, g[i - 1])
  <2> HIDE DEF step, S, N
  <2>1. i \in 1..N /\ i - 1 \in 0..N
    BY <1>1, <1>6
  <2>2. g[i - 1] \in S
    BY <1>5, <2>1 DEF Recursive
  <2> QED
    BY <1>3, <1>5, <2>1, <2>2 DEF Recursive
<1>7. g = [i \in 0..N |-> IF i = 0 THEN WalkStart(off) ELSE Follow(pkt, name, g[i - 1])]
  <2> HIDE DEF step, S, N
  <2> QED
    BY <1>5, <1>6 DEF Recursive
<1> DEFINE walk[n \in 0..(Len(name) + MaxHops + 1)] ==
             IF n = 0 THEN [at |-> "cell", off |-> off, matched |-> 0, hops |-> 0]
             ELSE Follow(pkt, name, walk[n - 1])
<1>8. Walk(pkt, off, name) = walk[Len(name) + MaxHops + 1]
  BY DEF Walk
<1>9. walk = [i \in 0..N |-> IF i = 0 THEN WalkStart(off) ELSE Follow(pkt, name, walk[i - 1])]
  BY <1>7 DEF WalkStart
<1> HIDE DEF walk, step
<1>10. walk[0] = WalkStart(off) /\ \A i \in 1..N : walk[i] = Follow(pkt, name, walk[i - 1])
  <2> HIDE DEF N
  <2> QED
    BY <1>1, <1>9
<1>11. \A i \in 0..N : walk[i] \in S
  <2> HIDE DEF N
  <2>1. ASSUME NEW i \in 1..N, walk[i - 1] \in S PROVE walk[i] \in S
    BY <1>10, <2>1, FollowDoes
  <2> HIDE DEF S
  <2> QED
    BY <1>1, <1>2, <1>10, <2>1, Stays
<1> QED
  BY <1>8, <1>10, <1>11 DEF WalkOf

TrailNext(pkt, c) == IF c \in DOMAIN pkt /\ pkt[c].k = "pointer" THEN pkt[c].to ELSE c + 1
TrailOf(pkt, off, steps, cell) ==
    /\ cell[0] = off /\ \A n \in 0..steps : cell[n] \in Nat
    /\ \A n \in 1..steps : cell[n] = TrailNext(pkt, cell[n - 1])

LEMMA TrailRight ==
    ASSUME NEW pkt \in Seq(Cell), NEW off \in Nat, NEW steps \in Nat
    PROVE  TrailOf(pkt, off, steps, Trail(pkt, off, steps))
<1> DEFINE step == [p \in Nat \X (1..steps) |-> TrailNext(pkt, p[1])]
<1>1. \A c \in Nat, i \in 1..steps : step[<<c, i>>] = TrailNext(pkt, c)
  OBVIOUS
<1>2. ASSUME NEW c \in Nat PROVE TrailNext(pkt, c) \in Nat
  <2>1. c \in DOMAIN pkt => pkt[c] \in Cell
    OBVIOUS
  <2> QED
    BY <2>1, CellKinds DEF TrailNext
<1> HIDE DEF step
<1>3. ClosedUnder(step, Nat, steps)
  BY <1>1, <1>2 DEF ClosedUnder
<1>4. PICK g : Recursive(g, steps, Nat, off, step)
  BY <1>3, RecursionExists
<1>5. ASSUME NEW i \in 0..steps, i # 0 PROVE g[i] = TrailNext(pkt, g[i - 1])
  <2>1. i \in 1..steps /\ i - 1 \in 0..steps
    BY <1>5
  <2> QED
    BY <1>1, <1>4, <2>1 DEF Recursive
<1>6. g = [n \in 0..steps |-> IF n = 0 THEN off ELSE TrailNext(pkt, g[n - 1])]
  BY <1>4, <1>5 DEF Recursive
<1> DEFINE cell[n \in 0..steps] ==
             IF n = 0 THEN off
             ELSE LET c == cell[n - 1]
                  IN  IF c \in DOMAIN pkt /\ pkt[c].k = "pointer" THEN pkt[c].to ELSE c + 1
<1>7. Trail(pkt, off, steps) = cell
  BY DEF Trail
<1>8. cell = [n \in 0..steps |-> IF n = 0 THEN off ELSE TrailNext(pkt, cell[n - 1])]
  BY <1>6 DEF TrailNext
<1> HIDE DEF cell
<1>9. cell[0] = off /\ \A n \in 1..steps : cell[n] = TrailNext(pkt, cell[n - 1])
  BY <1>8
<1>10. \A n \in 0..steps : cell[n] \in Nat
  <2> DEFINE P == {n \in 0..steps : cell[n] \in Nat}
  <2>1. ASSUME NEW n \in 0..(steps - 1), n \in P PROVE n + 1 \in P
    <3>1. n + 1 \in 1..steps /\ n + 1 - 1 = n
      OBVIOUS
    <3>2. cell[n + 1] = TrailNext(pkt, cell[n])
      BY <1>9, <3>1
    <3>3. cell[n] \in Nat
      BY <2>1
    <3>4. cell[n + 1] \in Nat
      BY <1>2, <3>2, <3>3
    <3> QED
      BY <3>1, <3>4
  <2>2. 0 \in P
    BY <1>9
  <2>3. \A n \in 0..steps : n \in P
    <3> HIDE DEF P
    <3> QED
      BY <2>1, <2>2, SetInduction
  <2> QED
    BY <2>3
<1> QED
  BY <1>7, <1>9, <1>10 DEF TrailOf

(* The labels met before the n-th cell of a trail.                         *)
LabelsMet(pkt, cell, n) == {m \in 0..(n - 1) : pkt[cell[m]].k = "label"}
Met(pkt, cell, n) == Cardinality(LabelsMet(pkt, cell, n))

LEMMA MetGrows ==
    ASSUME NEW pkt, NEW cell, NEW n \in Nat
    PROVE  /\ IsFiniteSet(LabelsMet(pkt, cell, n)) /\ Met(pkt, cell, n) \in Nat
           /\ Met(pkt, cell, n + 1) = IF pkt[cell[n]].k = "label" THEN Met(pkt, cell, n) + 1
                                      ELSE Met(pkt, cell, n)
<1> DEFINE L == LabelsMet(pkt, cell, n)
<1>1. IsFiniteSet(L)
  <2>1. IsFiniteSet(0..(n - 1))
    BY FS_Interval
  <2>2. L \in SUBSET (0..(n - 1))
    BY DEF LabelsMet
  <2> QED
    BY <2>1, <2>2, FS_Subset
<1>2. Cardinality(L) \in Nat
  BY <1>1, FS_CardinalityType
<1>3. n \notin L
  BY DEF LabelsMet
<1>4. CASE pkt[cell[n]].k = "label"
  <2>1. LabelsMet(pkt, cell, n + 1) = L \cup {n}
    BY <1>4 DEF LabelsMet
  <2>2. Cardinality(L \cup {n}) = Cardinality(L) + 1
    BY <1>1, <1>3, FS_AddElement
  <2> QED
    BY <1>1, <1>2, <1>4, <2>1, <2>2 DEF Met
<1>5. CASE pkt[cell[n]].k # "label"
  <2>1. LabelsMet(pkt, cell, n + 1) = L
    BY <1>5 DEF LabelsMet
  <2> QED
    BY <1>1, <1>2, <1>5, <2>1 DEF Met
<1> QED
  BY <1>4, <1>5

LEMMA MetNone == \A pkt, cell : Met(pkt, cell, 0) = 0
<1> SUFFICES ASSUME NEW pkt, NEW cell PROVE Met(pkt, cell, 0) = 0
  OBVIOUS
<1>1. LabelsMet(pkt, cell, 0) = {}
  BY DEF LabelsMet
<1> QED
  BY <1>1, FS_EmptySet DEF Met

(* The cells of a trail before the n-th that the loop would not refuse:    *)
(* those of a name that is compared, all of its labels equal so far.       *)
Good(pkt, name, cell, m) ==
    /\ cell[m] \in DOMAIN pkt
    /\ \/ pkt[cell[m]].k = "pointer" /\ m - Met(pkt, cell, m) < MaxHops
       \/ /\ pkt[cell[m]].k = "label" /\ Met(pkt, cell, m) < Len(name)
          /\ pkt[cell[m]].label = name[Met(pkt, cell, m) + 1]
Passed(pkt, name, cell, n) == \A m \in 0..(n - 1) : Good(pkt, name, cell, m)

InStep(pkt, cell, state, n) ==
    /\ state.off = cell[n] /\ state.matched = Met(pkt, cell, n)
    /\ state.hops = n - Met(pkt, cell, n)

LEMMA PassedOne ==
    ASSUME NEW pkt, NEW name, NEW cell, NEW n \in Nat
    PROVE  Passed(pkt, name, cell, n + 1) <=> Passed(pkt, name, cell, n) /\ Good(pkt, name, cell, n)
<1>1. 0..(n + 1 - 1) = (0..(n - 1)) \cup {n}
  OBVIOUS
<1> HIDE DEF Good
<1> QED
  BY <1>1 DEF Passed

(* One round keeps the loop in step with the trail, or stops both.         *)
LEMMA OneRound ==
    ASSUME NEW pkt \in Seq(Cell), NEW name \in Seq(STRING), NEW cell, NEW n \in Nat, NEW j \in Nat,
           j = n + 1, NEW k, k = Met(pkt, cell, n), NEW w \in WalkStates(name),
           NEW f, f = Follow(pkt, name, w), cell[n] \in Nat, cell[j] = TrailNext(pkt, cell[n]),
           w.at = "cell" <=> Passed(pkt, name, cell, n),
           w.at = "cell" => InStep(pkt, cell, w, n)
    PROVE  /\ f.at = "cell" <=> Passed(pkt, name, cell, j)
           /\ f.at = "cell" => InStep(pkt, cell, f, j)
<1> DEFINE c == pkt[w.off]
<1>1. MaxHops \in Nat /\ Len(name) \in Nat
  BY MdnsAssumption
<1>2. f = Follow(pkt, name, w)
  OBVIOUS
<1>3. cell[j] = TrailNext(pkt, cell[n]) /\ cell[n] \in Nat
  OBVIOUS
<1>4. k \in Nat /\ Met(pkt, cell, j) = IF pkt[cell[n]].k = "label" THEN k + 1 ELSE k
  BY MetGrows
<1>5. Passed(pkt, name, cell, j) <=> Passed(pkt, name, cell, n) /\ Good(pkt, name, cell, n)
  BY PassedOne
<1>6. (w.at = "cell" <=> Passed(pkt, name, cell, n)) /\ (w.at = "cell" => InStep(pkt, cell, w, n))
  OBVIOUS
<1>7. CASE w.at # "cell"
  <2>1. f = w
    BY <1>2, <1>7, FollowDoes
  <2> QED
    BY <1>5, <1>6, <1>7, <2>1
<1>8. CASE w.at = "cell"
  <2>1. Passed(pkt, name, cell, n) /\ w.off = cell[n] /\ w.matched = k /\ w.hops = n - k
    BY <1>6, <1>8 DEF InStep
  <2>2. CASE w.off \notin DOMAIN pkt
    <3>1. f.at = "refused"
      BY <1>2, <1>8, <2>2, FollowDoes
    <3>2. ~Good(pkt, name, cell, n)
      BY <2>1, <2>2 DEF Good
    <3> QED
      BY <1>5, <3>1, <3>2
  <2>3. CASE w.off \in DOMAIN pkt /\ c.k = "pointer"
    <3>1. cell[j] = c.to /\ Met(pkt, cell, j) = k
      BY <1>3, <1>4, <2>1, <2>3 DEF TrailNext
    <3>2. Good(pkt, name, cell, n) <=> n - k < MaxHops
      BY <2>1, <2>3 DEF Good
    <3>3. CASE n - k < MaxHops
      <4>1. f = [at |-> "cell", off |-> c.to, matched |-> w.matched, hops |-> w.hops + 1]
        BY <1>2, <1>8, <2>1, <2>3, <3>3, FollowDoes
      <4>2. f.at = "cell" /\ f.off = c.to /\ f.matched = k /\ f.hops = n - k + 1
        BY <2>1, <4>1
      <4>3. n - k + 1 = j - k
        BY <1>1, <1>4
      <4>4. f.off = cell[j] /\ f.matched = Met(pkt, cell, j)
        BY <3>1, <4>2
      <4>5. f.hops = j - Met(pkt, cell, j)
        BY <3>1, <4>2, <4>3
      <4>6. InStep(pkt, cell, f, j)
        BY <4>4, <4>5 DEF InStep
      <4>7. Passed(pkt, name, cell, j)
        BY <1>5, <2>1, <3>2, <3>3
      <4> QED
        BY <4>2, <4>6, <4>7
    <3>4. CASE ~(n - k < MaxHops)
      <4>1. w.hops >= MaxHops
        BY <1>1, <1>4, <2>1, <3>4
      <4>2. f.at = "refused"
        BY <1>2, <1>8, <2>3, <4>1, FollowDoes
      <4> QED
        BY <1>5, <3>2, <3>4, <4>2
    <3> QED
      BY <3>3, <3>4
  <2>4. CASE w.off \in DOMAIN pkt /\ c.k = "label"
    <3>1. cell[j] = w.off + 1 /\ Met(pkt, cell, j) = k + 1
      BY <1>3, <1>4, <2>1, <2>4 DEF TrailNext
    <3>2. Good(pkt, name, cell, n) <=> k < Len(name) /\ c.label = name[k + 1]
      BY <2>1, <2>4 DEF Good
    <3>3. CASE k < Len(name) /\ c.label = name[k + 1]
      <4>1. f = [at |-> "cell", off |-> w.off + 1, matched |-> w.matched + 1, hops |-> w.hops]
        BY <1>2, <1>8, <2>1, <2>4, <3>3, FollowDoes
      <4>2. f.at = "cell" /\ f.off = w.off + 1 /\ f.matched = k + 1 /\ f.hops = n - k
        BY <2>1, <4>1
      <4>3. n - k = j - (k + 1)
        BY <1>1, <1>4
      <4>4. f.off = cell[j] /\ f.matched = Met(pkt, cell, j)
        BY <3>1, <4>2
      <4>5. f.hops = j - Met(pkt, cell, j)
        BY <3>1, <4>2, <4>3
      <4>6. InStep(pkt, cell, f, j)
        BY <4>4, <4>5 DEF InStep
      <4>7. Passed(pkt, name, cell, j)
        BY <1>5, <2>1, <3>2, <3>3
      <4> QED
        BY <4>2, <4>6, <4>7
    <3>4. CASE ~(k < Len(name) /\ c.label = name[k + 1])
      <4>1. f.at = "refused"
        BY <1>2, <1>8, <2>1, <2>4, <3>4, FollowDoes
      <4> QED
        BY <1>5, <3>2, <3>4, <4>1
    <3> QED
      BY <3>3, <3>4
  <2>5. CASE w.off \in DOMAIN pkt /\ c.k \in {"end", "ask"}
    <3>1. f.at = "end"
      BY <1>2, <1>8, <2>5, FollowDoes
    <3>2. ~Good(pkt, name, cell, n)
      BY <2>1, <2>5 DEF Good
    <3> QED
      BY <1>5, <3>1, <3>2
  <2>6. w.off \in DOMAIN pkt => c.k \in {"label", "pointer", "end", "ask"}
    BY CellKinds
  <2> QED
    BY <2>2, <2>3, <2>4, <2>5, <2>6
<1> QED
  BY <1>7, <1>8

(* The loop goes on exactly along the cells that are good, and counts what *)
(* it has met.                                                             *)
LEMMA WalkFollowsTrail ==
    ASSUME NEW pkt \in Seq(Cell), NEW off \in Nat, NEW name \in Seq(STRING), NEW walk, NEW cell,
           WalkOf(pkt, off, name, walk), TrailOf(pkt, off, Len(name) + MaxHops, cell)
    PROVE  \A n \in 0..(Len(name) + MaxHops) :
              /\ walk[n].at = "cell" <=> Passed(pkt, name, cell, n)
              /\ walk[n].at = "cell" => InStep(pkt, cell, walk[n], n)
<1> DEFINE N == Len(name) + MaxHops
           P == {n \in 0..N : /\ walk[n].at = "cell" <=> Passed(pkt, name, cell, n)
                              /\ walk[n].at = "cell" => InStep(pkt, cell, walk[n], n)}
<1>1. N \in Nat /\ MaxHops \in Nat /\ Len(name) \in Nat
  BY MdnsAssumption
<1>2. 0 \in P
  <2>1. walk[0] = WalkStart(off) /\ cell[0] = off
    BY DEF WalkOf, TrailOf
  <2>2. walk[0].at = "cell" /\ walk[0].off = off /\ walk[0].matched = 0 /\ walk[0].hops = 0
    BY <2>1 DEF WalkStart
  <2>3. Passed(pkt, name, cell, 0)
    BY DEF Passed
  <2>4. InStep(pkt, cell, walk[0], 0)
    BY <2>1, <2>2, MetNone DEF InStep
  <2> QED
    BY <1>1, <2>2, <2>3, <2>4
<1>3. ASSUME NEW n \in 0..(N - 1), n \in P PROVE n + 1 \in P
  <2>1. n \in Nat /\ n \in 0..N /\ n + 1 \in 0..N /\ n + 1 \in 1..N /\ n + 1 - 1 = n
    BY <1>1
  <2>2. walk[n] \in WalkStates(name) /\ walk[n + 1] = Follow(pkt, name, walk[n])
    <3>1. n \in 0..(Len(name) + MaxHops + 1) /\ n + 1 \in 1..(Len(name) + MaxHops + 1)
      BY <1>1, <2>1
    <3> QED
      BY <2>1, <3>1 DEF WalkOf
  <2>3. cell[n + 1] = TrailNext(pkt, cell[n]) /\ cell[n] \in Nat
    BY <2>1 DEF TrailOf
  <2>4. /\ walk[n].at = "cell" <=> Passed(pkt, name, cell, n)
        /\ walk[n].at = "cell" => InStep(pkt, cell, walk[n], n)
    BY <1>3
  <2> HIDE DEF P, N
  <2>5. PICK j \in Nat : j = n + 1
    BY <2>1
  <2>6. /\ walk[j].at = "cell" <=> Passed(pkt, name, cell, j)
        /\ walk[j].at = "cell" => InStep(pkt, cell, walk[j], j)
    <3>1. cell[j] = TrailNext(pkt, cell[n]) /\ walk[j] = Follow(pkt, name, walk[n])
      BY <2>2, <2>3, <2>5
    <3> QED
      BY <2>1, <2>2, <2>3, <2>4, <2>5, <3>1, OneRound
  <2>7. j \in 0..N
    BY <2>1, <2>5
  <2>8. j \in P
    BY <2>6, <2>7 DEF P
  <2> QED
    BY <2>5, <2>8
<1>4. \A n \in 0..N : n \in P
  <2> HIDE DEF P, N
  <2> QED
    BY <1>1, <1>2, <1>3, SetInduction
<1> QED
  BY <1>4

(* Going on adds labels and other cells, never takes any away.             *)
LEMMA MetBetween ==
    ASSUME NEW pkt, NEW cell, NEW n \in Nat, NEW m \in 0..n
    PROVE  /\ Met(pkt, cell, m) <= Met(pkt, cell, n)
           /\ m - Met(pkt, cell, m) <= n - Met(pkt, cell, n)
<1> DEFINE P == {d \in 0..(n - m) : /\ Met(pkt, cell, m) <= Met(pkt, cell, m + d)
                                    /\ m - Met(pkt, cell, m) <= m + d - Met(pkt, cell, m + d)}
<1>1. n - m \in Nat /\ m \in Nat
  OBVIOUS
<1>2. 0 \in P
  <2>1. Met(pkt, cell, m) \in Nat /\ m + 0 = m
    BY <1>1, MetGrows
  <2> QED
    BY <1>1, <2>1
<1>3. ASSUME NEW d \in 0..(n - m - 1), d \in P PROVE d + 1 \in P
  <2>1. m + d \in Nat /\ m + (d + 1) = m + d + 1 /\ d + 1 \in 0..(n - m)
    BY <1>1
  <2>2. /\ Met(pkt, cell, m + d) \in Nat /\ Met(pkt, cell, m) \in Nat
        /\ \/ Met(pkt, cell, m + d + 1) = Met(pkt, cell, m + d)
           \/ Met(pkt, cell, m + d + 1) = Met(pkt, cell, m + d) + 1
    BY <1>1, <2>1, MetGrows
  <2>3. /\ Met(pkt, cell, m) <= Met(pkt, cell, m + d)
        /\ m - Met(pkt, cell, m) <= m + d - Met(pkt, cell, m + d)
    BY <1>3
  <2>4. /\ Met(pkt, cell, m) <= Met(pkt, cell, m + d + 1)
        /\ m - Met(pkt, cell, m) <= m + d + 1 - Met(pkt, cell, m + d + 1)
    BY <1>1, <2>1, <2>2, <2>3
  <2>5. PICK e \in Nat : e = d + 1
    BY <2>1
  <2>6. /\ e \in 0..(n - m) /\ m + d + 1 = m + e /\ Met(pkt, cell, m + e) = Met(pkt, cell, m + d + 1)
        /\ Met(pkt, cell, m + e) \in Nat
    BY <1>1, <2>1, <2>2, <2>5
  <2>7. /\ Met(pkt, cell, m) <= Met(pkt, cell, m + e)
        /\ m - Met(pkt, cell, m) <= m + e - Met(pkt, cell, m + e)
    BY <1>1, <2>1, <2>2, <2>4, <2>6
  <2>8. e \in P
    BY <2>6, <2>7
  <2> QED
    BY <2>5, <2>8
<1>4. \A d \in 0..(n - m) : d \in P
  <2> HIDE DEF P
  <2> QED
    BY <1>1, <1>2, <1>3, SetInduction
<1>5. PICK e \in Nat : e = n - m
  BY <1>1
<1>6. e \in 0..(n - m) /\ m + e = n
  BY <1>1, <1>5
<1>7. /\ Met(pkt, cell, m) <= Met(pkt, cell, m + e)
      /\ m - Met(pkt, cell, m) <= m + e - Met(pkt, cell, m + e)
  BY <1>4, <1>6
<1>8. Met(pkt, cell, m) \in Nat /\ Met(pkt, cell, n) \in Nat /\ Met(pkt, cell, m + e) = Met(pkt, cell, n)
  BY <1>1, <1>6, MetGrows
<1> QED
  BY <1>1, <1>6, <1>7, <1>8

(* name_equals finds exactly the names that are spelled, over any          *)
(* pointers, loops included.                                               *)
LEMMA NameRight ==
    ASSUME NEW pkt \in Seq(Cell), NEW off \in Nat, NEW name \in Seq(STRING)
    PROVE  name_equals(pkt, off, name) <=> Spells(pkt, off, name)
<1> DEFINE N == Len(name) + MaxHops
           cell == Trail(pkt, off, N)
           Ended(n) == /\ \A m \in 0..n : cell[m] \in DOMAIN pkt
                       /\ \A m \in 0..n : m = n <=> pkt[cell[m]].k \in {"end", "ask"}
                       /\ Met(pkt, cell, n) = Len(name)
                       /\ \A m \in LabelsMet(pkt, cell, n) :
                             pkt[cell[m]].label = name[Met(pkt, cell, m) + 1]
<1>1. N \in Nat /\ MaxHops \in Nat /\ Len(name) \in Nat
  BY MdnsAssumption
<1>2. Spells(pkt, off, name) <=> \E n \in 0..N : Ended(n)
  BY DEF Spells, Met, LabelsMet
<1>3. TrailOf(pkt, off, N, cell)
  BY <1>1, TrailRight
<1>4. PICK walk : WalkOf(pkt, off, name, walk) /\ Walk(pkt, off, name) = walk[N + 1]
  BY WalkRight
<1> HIDE DEF cell
<1>5. \A n \in 0..N : /\ walk[n].at = "cell" <=> Passed(pkt, name, cell, n)
                      /\ walk[n].at = "cell" => InStep(pkt, cell, walk[n], n)
  BY <1>3, <1>4, WalkFollowsTrail
<1>6. \A n \in 0..(N + 1) : walk[n] \in WalkStates(name)
  BY <1>4 DEF WalkOf
<1>7. ASSUME NEW n \in 0..N PROVE walk[n + 1] = Follow(pkt, name, walk[n])
  <2>1. n + 1 \in 1..(N + 1) /\ n + 1 - 1 = n
    BY <1>1
  <2> HIDE DEF N
  <2> QED
    BY <1>4, <2>1 DEF WalkOf, N
<1>8. ASSUME NEW n \in 0..N, NEW m \in 0..n, Passed(pkt, name, cell, n), m < n
      PROVE  Good(pkt, name, cell, m)
  BY <1>1, <1>8 DEF Passed
<1>9. ASSUME NEW n \in 0..N, walk[n].at = "cell", walk[n].off \in DOMAIN pkt,
             pkt[walk[n].off].k \in {"end", "ask"}, walk[n].matched = Len(name)
      PROVE  Ended(n)
  <2> HIDE DEF N
  <2>1. Passed(pkt, name, cell, n) /\ walk[n].off = cell[n] /\ Met(pkt, cell, n) = Len(name)
    BY <1>5, <1>9 DEF InStep
  <2>2. ASSUME NEW m \in 0..n PROVE cell[m] \in DOMAIN pkt
    <3>1. CASE m = n
      BY <1>9, <2>1, <3>1
    <3>2. CASE m < n
      BY <1>8, <2>1, <3>2 DEF Good
    <3> QED
      BY <1>1, <3>1, <3>2
  <2>3. ASSUME NEW m \in 0..n PROVE m = n <=> pkt[cell[m]].k \in {"end", "ask"}
    <3>1. CASE m = n
      BY <1>9, <2>1, <3>1
    <3>2. CASE m < n
      <4>1. pkt[cell[m]].k \in {"pointer", "label"}
        BY <1>8, <2>1, <3>2 DEF Good
      <4> QED
        BY <1>1, <3>2, <4>1
    <3> QED
      BY <1>1, <3>1, <3>2
  <2>4. ASSUME NEW m \in LabelsMet(pkt, cell, n)
        PROVE  pkt[cell[m]].label = name[Met(pkt, cell, m) + 1]
    <3>1. m \in 0..n /\ m < n /\ pkt[cell[m]].k = "label"
      BY <1>1, <2>4 DEF LabelsMet
    <3> QED
      BY <1>8, <2>1, <3>1 DEF Good
  <2> QED
    BY <2>1, <2>2, <2>3, <2>4
<1>10. ASSUME NEW n \in 0..N, Ended(n)
       PROVE  /\ walk[n].at = "cell" /\ walk[n].off \in DOMAIN pkt
              /\ pkt[walk[n].off].k \in {"end", "ask"} /\ walk[n].matched = Len(name)
  <2>1. ASSUME NEW m \in 0..(n - 1) PROVE Good(pkt, name, cell, m)
    <3>1. m \in 0..n /\ m # n /\ m \in Nat /\ m + 1 \in 0..n /\ n \in Nat
      BY <1>1
    <3>2. cell[m] \in DOMAIN pkt /\ pkt[cell[m]].k \notin {"end", "ask"}
      BY <1>10, <3>1
    <3>3. pkt[cell[m]].k \in {"label", "pointer"}
      BY <3>2, CellKinds
    <3>a. PICK j : j = m + 1
      OBVIOUS
    <3>4. /\ Met(pkt, cell, m) \in Nat /\ Met(pkt, cell, n) \in Nat
          /\ Met(pkt, cell, j) = IF pkt[cell[m]].k = "label" THEN Met(pkt, cell, m) + 1
                                 ELSE Met(pkt, cell, m)
      BY <3>1, <3>a, MetGrows
    <3>5. /\ Met(pkt, cell, j) <= Met(pkt, cell, n)
          /\ m + 1 - Met(pkt, cell, j) <= n - Met(pkt, cell, n)
      <4>1. j \in 0..n
        BY <3>1, <3>a
      <4>2. /\ Met(pkt, cell, j) <= Met(pkt, cell, n)
            /\ j - Met(pkt, cell, j) <= n - Met(pkt, cell, n)
        BY <3>1, <4>1, MetBetween
      <4> QED
        BY <3>1, <3>4, <3>a, <4>1, <4>2
    <3>6. Met(pkt, cell, n) = Len(name) /\ n <= Len(name) + MaxHops
      BY <1>1, <1>10
    <3>7. CASE pkt[cell[m]].k = "label"
      <4>1. Met(pkt, cell, m) < Len(name)
        BY <1>1, <3>4, <3>5, <3>6, <3>7
      <4>2. m \in LabelsMet(pkt, cell, n)
        BY <3>7 DEF LabelsMet
      <4>3. pkt[cell[m]].label = name[Met(pkt, cell, m) + 1]
        BY <1>10, <4>2
      <4> QED
        BY <3>2, <3>7, <4>1, <4>3 DEF Good
    <3>8. CASE pkt[cell[m]].k = "pointer"
      <4>1. m - Met(pkt, cell, m) < MaxHops
        BY <1>1, <3>1, <3>4, <3>5, <3>6, <3>8
      <4> QED
        BY <3>2, <3>8, <4>1 DEF Good
    <3> QED
      BY <3>3, <3>7, <3>8
  <2>2. Passed(pkt, name, cell, n)
    BY <2>1 DEF Passed
  <2>3. walk[n].at = "cell" /\ walk[n].off = cell[n] /\ walk[n].matched = Met(pkt, cell, n)
    BY <1>5, <2>2 DEF InStep
  <2>4. n \in 0..n
    BY <1>1
  <2>5. cell[n] \in DOMAIN pkt /\ pkt[cell[n]].k \in {"end", "ask"} /\ Met(pkt, cell, n) = Len(name)
    BY <1>10, <2>4
  <2> QED
    BY <2>3, <2>5
<1> HIDE DEF Ended, N
(* An end the loop has reached was reached at one of its rounds.           *)
<1>11. ASSUME name_equals(pkt, off, name) PROVE \E n \in 0..N : Ended(n)
  <2> DEFINE M == N + 1
             P == {n \in 0..M : walk[n].at = "end" /\ walk[n].matched = Len(name)
                                 => \E m \in 0..N : Ended(m)}
  <2>1. 0 \in P
    <3>1. walk[0].at = "cell"
      BY <1>4 DEF WalkOf, WalkStart
    <3> QED
      BY <1>1, <3>1
  <2>2. ASSUME NEW n \in 0..(M - 1), n \in P PROVE n + 1 \in P
    <3>1. n \in 0..N /\ n \in 0..(N + 1) /\ n + 1 \in 0..(N + 1)
      BY <1>1
    <3> SUFFICES ASSUME walk[n + 1].at = "end", walk[n + 1].matched = Len(name)
                 PROVE  \E m \in 0..N : Ended(m)
      BY <3>1
    <3>2. walk[n] \in WalkStates(name) /\ walk[n + 1] = Follow(pkt, name, walk[n])
      BY <1>6, <1>7, <3>1
    <3>3. CASE walk[n].at # "cell"
      <4>1. walk[n + 1] = walk[n]
        BY <3>2, <3>3, FollowDoes
      <4> QED
        BY <2>2, <4>1
    <3>4. CASE walk[n].at = "cell"
      <4>1. walk[n].off \in DOMAIN pkt
        BY <3>2, <3>4, FollowDoes
      <4>2. pkt[walk[n].off].k \in {"label", "pointer", "end", "ask"}
        BY <4>1, CellKinds
      <4>3. walk[n].hops < MaxHops \/ walk[n].hops >= MaxHops
        BY <1>1, <3>2 DEF WalkStates
      <4>4. pkt[walk[n].off].k # "pointer"
        BY <3>2, <3>4, <4>1, <4>3, FollowDoes
      <4>5. pkt[walk[n].off].k # "label"
        BY <3>2, <3>4, <4>1, FollowDoes
      <4>6. pkt[walk[n].off].k \in {"end", "ask"}
        BY <4>2, <4>4, <4>5
      <4>7. walk[n].matched = Len(name)
        BY <3>2, <3>4, <4>1, <4>6, FollowDoes
      <4>8. Ended(n)
        BY <1>9, <3>1, <3>4, <4>1, <4>6, <4>7
      <4> QED
        BY <3>1, <4>8
    <3> QED
      BY <3>3, <3>4
  <2>3. M \in Nat /\ M \in 0..M
    BY <1>1
  <2>4. \A n \in 0..M : n \in P
    <3> HIDE DEF P, M
    <3> QED
      BY <2>1, <2>2, <2>3, SetInduction
  <2>5. walk[M].at = "end" /\ walk[M].matched = Len(name)
    BY <1>4, <1>11 DEF name_equals
  <2> HIDE DEF M
  <2> QED
    BY <2>3, <2>4, <2>5
<1>12. ASSUME NEW n \in 0..N, Ended(n) PROVE name_equals(pkt, off, name)
  <2>1. /\ walk[n].at = "cell" /\ walk[n].off \in DOMAIN pkt
        /\ pkt[walk[n].off].k \in {"end", "ask"} /\ walk[n].matched = Len(name)
    BY <1>10, <1>12
  <2>2. n \in 0..(N + 1) /\ N - n \in Nat /\ n \in Nat
    BY <1>1
  <2>3. walk[n + 1].at = "end" /\ walk[n + 1].matched = Len(name)
    BY <1>6, <1>7, <2>1, <2>2, FollowDoes
  <2> DEFINE P == {d \in 0..(N - n) : walk[n + 1 + d] = walk[n + 1]}
  <2>4. 0 \in P
    BY <2>2
  <2>5. ASSUME NEW d \in 0..(N - n - 1), d \in P PROVE d + 1 \in P
    <3>1. n + 1 + d \in 0..N /\ n + 1 + d \in 0..(N + 1) /\ n + 1 + (d + 1) = n + 1 + d + 1
          /\ d + 1 \in 0..(N - n)
      BY <1>1, <2>2
    <3>2. walk[n + 1 + d + 1] = Follow(pkt, name, walk[n + 1 + d])
      BY <1>7, <3>1
    <3>3. walk[n + 1 + d] \in WalkStates(name) /\ walk[n + 1 + d] = walk[n + 1]
      BY <1>6, <2>5, <3>1
    <3>4. Follow(pkt, name, walk[n + 1 + d]) = walk[n + 1 + d]
      BY <2>3, <3>3, FollowDoes
    <3>5. walk[n + 1 + (d + 1)] = walk[n + 1]
      BY <3>1, <3>2, <3>3, <3>4
    <3> QED
      BY <3>1, <3>5
  <2>6. \A d \in 0..(N - n) : d \in P
    <3> HIDE DEF P
    <3> QED
      BY <2>2, <2>4, <2>5, SetInduction
  <2>7. N - n \in 0..(N - n) /\ n + 1 + (N - n) = N + 1
    BY <1>1, <2>2
  <2>8. walk[N + 1] = walk[n + 1]
    BY <2>6, <2>7
  <2> QED
    BY <1>4, <2>3, <2>8 DEF name_equals
<1> QED
  BY <1>2, <1>11, <1>12

(* ---- mDNS: questions ---- *)

(* The name of a question is skipped, whatever is cut off behind it.       *)
NameIn(pkt, last, b, e) ==
    /\ \A c \in 1..last : c > b /\ c < e - 1 => pkt[c].k = "label"
    /\ e - 1 <= last => pkt[e - 1].k # "label"

LEMMA SkipName ==
    ASSUME NEW pkt \in Seq(Cell), NEW M \in Nat, Len(pkt) = M, NEW b \in Nat, NEW e \in Nat, e > b + 1,
           NameIn(pkt, M, b, e)
    PROVE  skip_name(pkt, b + 1) = IF e - 1 <= M THEN e ELSE 0
<1> DEFINE S == {c \in DOMAIN pkt : c >= b + 1 /\ pkt[c].k # "label"}
<1>1. DOMAIN pkt = 1..M
  OBVIOUS
<1>2. skip_name(pkt, b + 1) = IF S = {} THEN 0 ELSE Min(S) + 1
  BY DEF skip_name
<1>3. S \in SUBSET Nat
  BY <1>1
<1>4. ASSUME NEW c \in S PROVE c \in 1..M /\ c >= e - 1
  <2>1. c \in 1..M /\ c > b /\ pkt[c].k # "label"
    BY <1>1
  <2>2. ~(c < e - 1)
    BY <2>1 DEF NameIn
  <2> QED
    BY <2>1, <2>2
<1>5. ASSUME e - 1 <= M PROVE e - 1 \in S
  <2>1. e - 1 \in 1..M /\ e - 1 >= b + 1
    BY <1>5
  <2> QED
    BY <1>1, <1>5, <2>1 DEF NameIn
<1> HIDE DEF S
<1>6. ASSUME e - 1 <= M PROVE S # {} /\ Min(S) + 1 = e
  <2>1. Min(S) \in S /\ Min(S) <= e - 1
    BY <1>3, <1>5, <1>6, LeastOf
  <2>2. PICK m \in Nat : m = Min(S)
    BY <1>3, <2>1
  <2>3. m >= e - 1 /\ m <= e - 1
    BY <1>4, <2>1, <2>2
  <2>4. m + 1 = e
    BY <2>3
  <2> QED
    BY <1>5, <1>6, <2>2, <2>4
<1>7. ASSUME ~(e - 1 <= M) PROVE S = {}
  <2>1. \A c \in S : FALSE
    BY <1>4, <1>7
  <2> QED
    BY <2>1
<1> QED
  BY <1>2, <1>6, <1>7

KindsOf(s, n) ==
    \A j \in 1..n : s[j].k \in (IF j < n - 1 THEN {"label"}
                              ELSE IF j < n THEN {"end", "pointer"} ELSE {"ask"})
LaidAt(pkt, s, n, b, last) == \A j \in 1..n : b + j <= last => pkt[b + j] = s[j]

LEMMA QuestionCells ==
    ASSUME NEW pkt, NEW s, NEW M \in Nat, NEW L \in Nat, NEW b \in Nat, L > 1,
           LaidAt(pkt, s, L, b, M), KindsOf(s, L)
    PROVE  NameIn(pkt, M, b, b + L)
<1>0. PICK e \in Nat : e = b + L
  OBVIOUS
<1>1. ASSUME NEW c \in 1..M, c > b, c < e - 1 PROVE pkt[c].k = "label"
  <2>1. PICK j \in Nat : j = c - b
    BY <1>0, <1>1
  <2>2. j \in 1..L /\ j < L - 1 /\ b + j = c /\ b + j <= M
    BY <1>0, <1>1, <2>1
  <2>3. pkt[b + j] = s[j]
    BY <2>2 DEF LaidAt
  <2>4. s[j].k \in {"label"}
    BY <2>2 DEF KindsOf
  <2> QED
    BY <2>2, <2>3, <2>4
<1>2. ASSUME e - 1 <= M PROVE pkt[e - 1].k # "label"
  <2>1. PICK j \in Nat : j = L - 1
    OBVIOUS
  <2>2. j \in 1..L /\ ~(j < L - 1) /\ j < L /\ b + j = e - 1 /\ b + j <= M
    BY <1>0, <1>2, <2>1
  <2>3. pkt[b + j] = s[j]
    BY <2>2 DEF LaidAt
  <2>4. s[j].k \in {"end", "pointer"}
    BY <2>2 DEF KindsOf
  <2> QED
    BY <2>2, <2>3, <2>4
<1>3. NameIn(pkt, M, b, e)
  BY <1>1, <1>2 DEF NameIn
<1> QED
  BY <1>0, <1>3

LEMMA SkipRight ==
    ASSUME NEW q \in Queries, NEW i \in 1..Len(q.questions), NEW b, NEW e,
           b = Ends(q)[i - 1], e = Ends(q)[i]
    PROVE  /\ b \in Nat /\ e \in Nat /\ b < e
           /\ skip_name(Packet(q), b + 1) = IF e - 1 <= PacketLen(q) THEN e ELSE 0
           /\ e <= PacketLen(q) => Packet(q)[e] = Last(q.questions[i])
<1>1. PICK pkt, s : pkt = Packet(q) /\ s = q.questions[i]
  OBVIOUS
<1>2. /\ Len(q.questions) \in Nat /\ PacketLen(q) \in Nat /\ IsQuestion(s) /\ s \in Seq(Cell)
      /\ Len(s) \in Nat /\ Len(s) > 1
  BY <1>1, QuestionLen
<1>3. PICK M \in Nat, L \in Nat : M = PacketLen(q) /\ L = Len(s)
  BY <1>2
<1>4. b \in Nat /\ e = b + L
  <2>1. i - 1 \in 0..Len(q.questions)
    BY <1>2
  <2>2. Ends(q)[i - 1] \in Nat
    BY <2>1, EndsRight DEF EndsOf
  <2>3. Ends(q)[i] = Ends(q)[i - 1] + Len(q.questions[i])
    BY EndsRight DEF EndsOf
  <2> QED
    BY <1>1, <1>3, <2>2, <2>3
<1>5. e \in Nat /\ b < e /\ e > b + 1 /\ L > 1
  BY <1>2, <1>3, <1>4
<1>a. PICK x \in Nat, y \in Nat : /\ x = Ends(q)[i - 1] /\ x = b /\ y = e
                                 /\ y = x + L /\ y > x + 1 /\ L > 1
  BY <1>4, <1>5
<1>6. pkt \in Seq(Cell) /\ Len(pkt) = M
  BY <1>1, <1>3, PacketRight
<1>7. ASSUME NEW j \in 1..L, x + j <= M PROVE pkt[x + j] = s[j]
  <2>1. Ends(q)[i - 1] + j <= PacketLen(q) /\ j \in 1..Len(q.questions[i])
    BY <1>1, <1>3, <1>7, <1>a
  <2>2. Packet(q)[Ends(q)[i - 1] + j] = q.questions[i][j]
    BY <2>1, PacketRight
  <2> QED
    BY <1>1, <1>a, <2>2
<1>8. KindsOf(s, L)
  <2>1. DOMAIN s = 1..L
    BY <1>2, <1>3
  <2> QED
    BY <1>2, <1>3, <2>1 DEF IsQuestion, KindsOf
<1>9. NameIn(pkt, M, x, y)
  <2>1. LaidAt(pkt, s, L, x, M)
    BY <1>7 DEF LaidAt
  <2>2. x \in Nat /\ y \in Nat /\ L > 1 /\ y = x + L
    BY <1>a
  <2>3. NameIn(pkt, M, x, x + L)
    BY <1>3, <1>8, <2>1, <2>2, QuestionCells
  <2> QED
    BY <2>2, <2>3, Zenon
<1>11. skip_name(pkt, x + 1) = IF y - 1 <= M THEN y ELSE 0
  <2>1. x \in Nat /\ y \in Nat /\ y > x + 1
    BY <1>a
  <2> QED
    BY <1>3, <1>6, <1>9, <2>1, SkipName
<1>12. ASSUME y <= M PROVE pkt[y] = Last(s)
  <2>1. L \in 1..L /\ x + L = y /\ x + L <= M
    BY <1>3, <1>a, <1>12
  <2>2. pkt[x + L] = s[L]
    BY <1>7, <2>1
  <2> QED
    BY <1>3, <2>1, <2>2 DEF Last
<1> QED
  BY <1>1, <1>3, <1>4, <1>5, <1>11, <1>12, <1>a

(* What each question of q is found to want, and the first n of them.      *)
WantOf(q, i) == Wants(Packet(q), Ends(q)[i - 1] + 1, Last(q.questions[i]).type)
WholeIn(q, n) == {i \in 1..n : Ends(q)[i] <= PacketLen(q)}
Scanned(q, n, state) ==
    /\ state.off = IF Ends(q)[n] <= PacketLen(q) THEN Ends(q)[n] + 1 ELSE PacketLen(q) + 1
    /\ state.want = UNION {WantOf(q, i) : i \in WholeIn(q, n)}
    /\ state.unicast <=> \E i \in WholeIn(q, n) : WantOf(q, i) # {} /\ Last(q.questions[i]).qu
ScanStates == [off : Nat, want : SUBSET Records, unicast : BOOLEAN]
ScanStart == [off |-> 1, want |-> {}, unicast |-> FALSE]

LEMMA WantsType == \A pkt, off, type : Wants(pkt, off, type) \in SUBSET Records
BY DEF Wants, Records

LEMMA ScanType ==
    ASSUME NEW pkt \in Seq(Cell), NEW w \in ScanStates
    PROVE  Scan(pkt, w) \in ScanStates
<1> DEFINE ends == {i \in DOMAIN pkt : i >= w.off /\ pkt[i].k # "label"}
           after == skip_name(pkt, w.off)
           found == Wants(pkt, w.off, pkt[after].type)
<1>1. after \in Nat
  <2>1. after = IF ends = {} THEN 0 ELSE Min(ends) + 1
    BY DEF skip_name
  <2>2. ends \in SUBSET Nat
    OBVIOUS
  <2> HIDE DEF ends, after
  <2>3. ends # {} => Min(ends) \in Nat
    BY <2>2, LeastOf
  <2> QED
    BY <2>1, <2>3
<1>2. found \in SUBSET Records
  BY WantsType
<1>3. Len(pkt) + 1 \in Nat
  OBVIOUS
<1>4. Scan(pkt, w) = IF w.off > Len(pkt) \/ after = 0 \/ after > Len(pkt)
                       THEN [w EXCEPT !.off = Len(pkt) + 1]
                       ELSE [off |-> after + 1, want |-> w.want \cup found,
                             unicast |-> w.unicast \/ (found # {} /\ pkt[after].qu)]
  BY DEF Scan
<1> HIDE DEF after, found
<1>5. [w EXCEPT !.off = Len(pkt) + 1] \in ScanStates
  BY <1>3 DEF ScanStates
<1>6. (w.unicast \/ (found # {} /\ pkt[after].qu)) \in BOOLEAN
  OBVIOUS
<1>7. after + 1 \in Nat /\ w.want \cup found \in SUBSET Records
  BY <1>1, <1>2 DEF ScanStates
<1>8. [off |-> after + 1, want |-> w.want \cup found,
       unicast |-> w.unicast \/ (found # {} /\ pkt[after].qu)] \in ScanStates
  BY <1>6, <1>7 DEF ScanStates
<1> QED
  BY <1>4, <1>5, <1>8

LEMMA ScanIs ==
    ASSUME NEW pkt \in Seq(Cell), NEW N \in Nat
    PROVE  \E scanned : /\ scanned[0] = ScanStart /\ scan_questions(pkt, N) = scanned[N]
                        /\ \A i \in 0..N : scanned[i] \in ScanStates
                        /\ \A i \in 1..N : scanned[i] = Scan(pkt, scanned[i - 1])
<1> DEFINE S == ScanStates
           step == [p \in S \X (1..N) |-> Scan(pkt, p[1])]
<1>1. ScanStart \in S
  BY DEF ScanStart, ScanStates
<1>2. \A s \in S, i \in 1..N : step[<<s, i>>] = Scan(pkt, s)
  OBVIOUS
<1> HIDE DEF step
<1>3. ClosedUnder(step, S, N)
  BY <1>2, ScanType DEF ClosedUnder
<1> HIDE DEF S
<1>4. PICK g : Recursive(g, N, S, ScanStart, step)
  BY <1>1, <1>3, RecursionExists
<1>5. ASSUME NEW i \in 0..N, i # 0 PROVE g[i] = Scan(pkt, g[i - 1])
  <2>1. i \in 1..N /\ i - 1 \in 0..N
    BY <1>5
  <2>2. g[i - 1] \in S
    BY <1>4, <2>1 DEF Recursive
  <2> QED
    BY <1>2, <1>4, <2>1, <2>2 DEF Recursive
<1>6. g = [i \in 0..N |-> IF i = 0 THEN ScanStart ELSE Scan(pkt, g[i - 1])]
  BY <1>4, <1>5 DEF Recursive
<1> DEFINE scanned[i \in 0..N] == IF i = 0 THEN [off |-> 1, want |-> {}, unicast |-> FALSE]
                                  ELSE Scan(pkt, scanned[i - 1])
<1>7. scan_questions(pkt, N) = scanned[N]
  BY DEF scan_questions
<1>8. scanned = [i \in 0..N |-> IF i = 0 THEN ScanStart ELSE Scan(pkt, scanned[i - 1])]
  BY <1>6 DEF ScanStart
<1> HIDE DEF scanned
<1>9. scanned[0] = ScanStart /\ \A i \in 1..N : scanned[i] = Scan(pkt, scanned[i - 1])
  BY <1>8
<1>10. ASSUME NEW i \in 1..N, scanned[i - 1] \in S PROVE scanned[i] \in S
  BY <1>9, <1>10, ScanType DEF S
<1>11. \A i \in 0..N : scanned[i] \in S
  BY <1>1, <1>9, <1>10, Stays
<1> QED
  BY <1>7, <1>9, <1>11 DEF S

(* One question: found and counted when it is whole, the end of the scan   *)
(* when it is not.                                                         *)
LEMMA ScanOne ==
    ASSUME NEW q \in Queries, NEW n \in 0..(Len(q.questions) - 1), NEW w \in ScanStates,
           Scanned(q, n, w)
    PROVE  Scanned(q, n + 1, Scan(Packet(q), w))
<1>1. PICK pkt, j : pkt = Packet(q) /\ j = n + 1
  OBVIOUS
<1>2. PICK M, b, e : M = PacketLen(q) /\ b = Ends(q)[n] /\ e = Ends(q)[j]
  OBVIOUS
<1>3. /\ Len(q.questions) \in Nat /\ M \in Nat /\ n \in Nat /\ j \in Nat /\ j = n + 1
      /\ j \in 1..Len(q.questions) /\ j - 1 = n
  <2>1. Len(q.questions) \in Nat /\ PacketLen(q) \in Nat
    BY QuestionLen
  <2> QED
    BY <1>1, <1>2, <2>1
<1>4. /\ b \in Nat /\ e \in Nat /\ b < e
      /\ skip_name(pkt, b + 1) = IF e - 1 <= M THEN e ELSE 0
      /\ e <= M => pkt[e] = Last(q.questions[j])
  BY <1>1, <1>2, <1>3, SkipRight
<1>5. pkt \in Seq(Cell) /\ Len(pkt) = M
  BY <1>1, <1>2, PacketRight
<1>6. PICK want, uni, W : /\ want = UNION {WantOf(q, i) : i \in WholeIn(q, n)}
                          /\ uni = (\E i \in WholeIn(q, n) : WantOf(q, i) # {} /\ Last(q.questions[i]).qu)
                          /\ W = WantOf(q, j)
  OBVIOUS
<1>7. /\ w.off = IF b <= M THEN b + 1 ELSE M + 1
      /\ w.want = want /\ (w.unicast <=> uni)
  BY <1>2, <1>6 DEF Scanned
<1>8. WholeIn(q, j) = IF e <= M THEN WholeIn(q, n) \cup {j} ELSE WholeIn(q, n)
  <2>1. 1..j = (1..n) \cup {j}
    BY <1>3
  <2> QED
    BY <1>2, <2>1 DEF WholeIn
<1>9. CASE e <= M
  <2>1. w.off = b + 1 /\ ~(w.off > Len(pkt)) /\ skip_name(pkt, w.off) = e /\ e # 0 /\ ~(e > Len(pkt))
    BY <1>3, <1>4, <1>5, <1>7, <1>9
  <2>2. Wants(pkt, w.off, pkt[e].type) = W
    BY <1>1, <1>2, <1>3, <1>4, <1>6, <1>9, <2>1 DEF WantOf
  <2>3. Scan(pkt, w) = [off |-> e + 1, want |-> w.want \cup W,
                        unicast |-> w.unicast \/ (W # {} /\ pkt[e].qu)]
    BY <2>1, <2>2 DEF Scan
  <2>4. UNION {WantOf(q, i) : i \in WholeIn(q, j)} = want \cup W
    BY <1>6, <1>8, <1>9
  <2>5. (\E i \in WholeIn(q, j) : WantOf(q, i) # {} /\ Last(q.questions[i]).qu)
          <=> uni \/ (W # {} /\ pkt[e].qu)
    BY <1>4, <1>6, <1>8, <1>9
  <2>6. Scan(pkt, w).off = e + 1 /\ Scan(pkt, w).want = want \cup W
        /\ (Scan(pkt, w).unicast <=> uni \/ (W # {} /\ pkt[e].qu))
    <3>1. PICK u : u = (w.unicast \/ (W # {} /\ pkt[e].qu))
      OBVIOUS
    <3>2. Scan(pkt, w) = [off |-> e + 1, want |-> w.want \cup W, unicast |-> u]
      BY <2>3, <3>1
    <3>3. Scan(pkt, w).off = e + 1 /\ Scan(pkt, w).want = w.want \cup W /\ Scan(pkt, w).unicast = u
      BY <3>2
    <3>4. u <=> uni \/ (W # {} /\ pkt[e].qu)
      BY <1>7, <3>1, Zenon
    <3> QED
      BY <1>7, <3>3, <3>4, Zenon
  <2>7. Scanned(q, j, Scan(pkt, w))
    BY <1>2, <1>9, <2>4, <2>5, <2>6 DEF Scanned
  <2> QED
    BY <1>1, <2>7
<1>10. CASE ~(e <= M)
  <2>1. w.off > Len(pkt) \/ skip_name(pkt, w.off) = 0 \/ skip_name(pkt, w.off) > Len(pkt)
    <3>1. CASE b <= M
      <4>1. w.off = b + 1
        BY <1>7, <3>1
      <4>2. skip_name(pkt, w.off) = 0 \/ (skip_name(pkt, w.off) = e /\ e > Len(pkt))
        BY <1>3, <1>4, <1>5, <1>10, <4>1
      <4> QED
        BY <4>2
    <3>2. CASE ~(b <= M)
      BY <1>3, <1>5, <1>7, <3>2
    <3> QED
      BY <3>1, <3>2
  <2>2. Scan(pkt, w) = [w EXCEPT !.off = Len(pkt) + 1]
    BY <2>1 DEF Scan
  <2>3. Scan(pkt, w).off = M + 1 /\ Scan(pkt, w).want = want /\ (Scan(pkt, w).unicast <=> uni)
    BY <1>5, <1>7, <2>2 DEF ScanStates
  <2>4. UNION {WantOf(q, i) : i \in WholeIn(q, j)} = want
        /\ ((\E i \in WholeIn(q, j) : WantOf(q, i) # {} /\ Last(q.questions[i]).qu) <=> uni)
    BY <1>6, <1>8, <1>10
  <2>5. Scanned(q, j, Scan(pkt, w))
    BY <1>2, <1>10, <2>3, <2>4 DEF Scanned
  <2> QED
    BY <1>1, <2>5
<1> QED
  BY <1>9, <1>10

LEMMA ScanRight ==
    ASSUME NEW q \in Queries
    PROVE  Scanned(q, Len(q.questions), scan_questions(Packet(q), Len(q.questions)))
<1>1. Len(q.questions) \in Nat /\ PacketLen(q) \in Nat /\ Packet(q) \in Seq(Cell)
  BY QuestionLen, PacketRight
<1>2. PICK N \in Nat : N = Len(q.questions)
  BY <1>1
<1>3. PICK scanned : /\ scanned[0] = ScanStart /\ scan_questions(Packet(q), N) = scanned[N]
                     /\ \A i \in 0..N : scanned[i] \in ScanStates
                     /\ \A i \in 1..N : scanned[i] = Scan(Packet(q), scanned[i - 1])
  BY <1>1, <1>2, ScanIs
<1> DEFINE P == {n \in 0..N : Scanned(q, n, scanned[n])}
<1>4. 0 \in P
  <2>1. Ends(q)[0] = 0
    BY EndsRight DEF EndsOf
  <2>2. WholeIn(q, 0) = {}
    BY DEF WholeIn
  <2>3. scanned[0].off = 1 /\ scanned[0].want = {} /\ scanned[0].unicast = FALSE
    BY <1>3 DEF ScanStart
  <2>4. Scanned(q, 0, scanned[0])
    BY <1>1, <2>1, <2>2, <2>3 DEF Scanned
  <2> QED
    BY <1>2, <2>4
<1>5. ASSUME NEW n \in 0..(N - 1), n \in P PROVE n + 1 \in P
  <2>1. n + 1 \in 1..N /\ n + 1 - 1 = n /\ n \in 0..N /\ n \in 0..(Len(q.questions) - 1) /\ n + 1 \in 0..N
    BY <1>2
  <2>2. scanned[n] \in ScanStates /\ scanned[n + 1] = Scan(Packet(q), scanned[n])
    BY <1>3, <2>1
  <2>3. Scanned(q, n, scanned[n])
    BY <1>5
  <2>4. Scanned(q, n + 1, Scan(Packet(q), scanned[n]))
    BY <2>1, <2>2, <2>3, ScanOne
  <2> QED
    BY <2>1, <2>2, <2>4
<1>6. \A n \in 0..N : n \in P
  <2> HIDE DEF P
  <2> QED
    BY <1>2, <1>4, <1>5, SetInduction
<1>7. N \in P
  BY <1>2, <1>6
<1> QED
  BY <1>2, <1>3, <1>7

(* ---- mDNS: the answer ---- *)

(* The records that go with those that are wanted.                         *)
Bundle(want) ==
    LET srv == IF "PTR" \in want THEN {"SRV", "TXT"} ELSE {}
        a == IF (want \cup srv) \cap {"SRV", "A"} # {} THEN {"A", "NSEC"} ELSE {}
    IN  want \cup srv \cup a

LEMMA BundleIs ==
    ASSUME NEW want, NEW r
    PROVE  r \in Bundle(want) <=> \/ r \in want
                                  \/ r \in {"SRV", "TXT"} /\ "PTR" \in want
                                  \/ r \in {"A", "NSEC"} /\ want \cap {"PTR", "SRV", "A"} # {}
<1>1. CASE "PTR" \in want
  BY <1>1 DEF Bundle
<1>2. CASE "PTR" \notin want
  BY <1>2 DEF Bundle
<1> QED
  BY <1>1, <1>2

LEMMA BundleSpreads ==
    ASSUME NEW X PROVE Bundle(UNION X) = UNION {Bundle(x) : x \in X}
<1>1. ASSUME NEW r, r \in Bundle(UNION X) PROVE \E x \in X : r \in Bundle(x)
  <2>1. CASE r \in UNION X
    BY <2>1, BundleIs
  <2>2. CASE r \in {"SRV", "TXT"} /\ "PTR" \in UNION X
    BY <2>2, BundleIs
  <2>3. CASE r \in {"A", "NSEC"} /\ (UNION X) \cap {"PTR", "SRV", "A"} # {}
    <3>1. PICK x \in X : x \cap {"PTR", "SRV", "A"} # {}
      BY <2>3
    <3> QED
      BY <2>3, <3>1, BundleIs
  <2> QED
    BY <1>1, <2>1, <2>2, <2>3, BundleIs
<1>2. ASSUME NEW x \in X, NEW r, r \in Bundle(x) PROVE r \in Bundle(UNION X)
  <2>1. x \subseteq UNION X
    OBVIOUS
  <2> QED
    BY <1>2, <2>1, BundleIs
<1> QED
  BY <1>1, <1>2

LEMMA BundleNone == Bundle({}) = {}
BY DEF Bundle

Question(q, i) == [name |-> OurName(Packet(q), Ends(q)[i - 1] + 1), ask |-> Last(q.questions[i])]

(* A question is ours when something is found to be wanted for it, and is  *)
(* due what goes with that.                                                *)
LEMMA DueIsBundle ==
    ASSUME NEW q \in Queries, NEW i \in 1..Len(q.questions)
    PROVE  /\ Ours(Question(q, i)) <=> WantOf(q, i) # {}
           /\ Ours(Question(q, i)) => Due(Question(q, i)) = Bundle(WantOf(q, i))
<1>1. PICK pkt, off, x, type, W : /\ pkt = Packet(q) /\ off = Ends(q)[i - 1] + 1
                                  /\ x = Question(q, i) /\ W = WantOf(q, i)
                                  /\ type = Last(q.questions[i]).type
  OBVIOUS
<1>2. pkt \in Seq(Cell) /\ off \in Nat
  <2>1. PICK b, e : b = Ends(q)[i - 1] /\ e = Ends(q)[i]
    OBVIOUS
  <2>2. b \in Nat
    BY <2>1, SkipRight
  <2> QED
    BY <1>1, <2>1, <2>2, PacketRight
<1>3. /\ x.name = OurName(pkt, off) /\ x.ask.type = type
      /\ W = Wants(pkt, off, type)
  BY <1>1 DEF Question, WantOf
<1>4. /\ name_equals(pkt, off, Host) <=> Spells(pkt, off, Host)
      /\ name_equals(pkt, off, Service) <=> Spells(pkt, off, Service)
      /\ name_equals(pkt, off, Fqdn) <=> Spells(pkt, off, Fqdn)
  BY <1>2, NameRight, MdnsAssumption
<1>5. CASE Spells(pkt, off, Host)
  <2>1. x.name = "host" /\ W = IF type \in {"A", "ANY"} THEN {"A"} ELSE {}
    BY <1>3, <1>4, <1>5 DEF OurName, Wants
  <2>2. Bundle({"A"}) = {"A", "NSEC"}
    BY DEF Bundle
  <2>3. Due(x) = {"A", "NSEC"}
    BY <2>1 DEF Due
  <2>4. Ours(x) <=> type \in {"A", "ANY"}
    BY <1>3, <2>1 DEF Ours
  <2> QED
    BY <1>1, <2>1, <2>2, <2>3, <2>4
<1>6. CASE ~Spells(pkt, off, Host) /\ Spells(pkt, off, Service)
  <2>1. x.name = "service" /\ W = IF type \in {"PTR", "ANY"} THEN {"PTR"} ELSE {}
    BY <1>3, <1>4, <1>6 DEF OurName, Wants
  <2>2. Bundle({"PTR"}) = Records
    BY DEF Bundle, Records
  <2>3. Due(x) = Records
    BY <2>1 DEF Due
  <2>4. Ours(x) <=> type \in {"PTR", "ANY"}
    BY <1>3, <2>1 DEF Ours
  <2> QED
    BY <1>1, <2>1, <2>2, <2>3, <2>4
<1>7. CASE ~Spells(pkt, off, Host) /\ ~Spells(pkt, off, Service) /\ Spells(pkt, off, Fqdn)
  <2>1. /\ x.name = "instance"
        /\ W = IF type = "ANY" THEN {"SRV", "TXT"} ELSE {"SRV", "TXT"} \cap {type}
    BY <1>3, <1>4, <1>7 DEF OurName, Wants
  <2>2. Ours(x) <=> type \in {"SRV", "TXT", "ANY"}
    BY <1>3, <2>1 DEF Ours
  <2>3. CASE type = "ANY"
    <3>1. Due(x) = {"SRV", "TXT", "A", "NSEC"} /\ W = {"SRV", "TXT"}
      BY <1>3, <2>1, <2>3 DEF Due
    <3>2. Bundle({"SRV", "TXT"}) = {"SRV", "TXT", "A", "NSEC"}
      BY DEF Bundle
    <3> QED
      BY <1>1, <2>2, <2>3, <3>1, <3>2
  <2>4. CASE type = "TXT"
    <3>1. Due(x) = {"TXT"} /\ W = {"TXT"}
      BY <1>3, <2>1, <2>4 DEF Due
    <3>2. Bundle({"TXT"}) = {"TXT"}
      BY DEF Bundle
    <3> QED
      BY <1>1, <2>2, <2>4, <3>1, <3>2
  <2>5. CASE type = "SRV"
    <3>1. Due(x) = {"SRV", "A", "NSEC"} /\ W = {"SRV"}
      BY <1>3, <2>1, <2>5 DEF Due
    <3>2. Bundle({"SRV"}) = {"SRV", "A", "NSEC"}
      BY DEF Bundle
    <3> QED
      BY <1>1, <2>2, <2>5, <3>1, <3>2
  <2>6. CASE type \notin {"SRV", "TXT", "ANY"}
    BY <1>1, <2>1, <2>2, <2>6
  <2> QED
    BY <2>3, <2>4, <2>5, <2>6
<1>8. CASE ~Spells(pkt, off, Host) /\ ~Spells(pkt, off, Service) /\ ~Spells(pkt, off, Fqdn)
  <2>1. x.name = "not ours" /\ W = {}
    BY <1>3, <1>4, <1>8 DEF OurName, Wants
  <2> QED
    BY <1>1, <2>1 DEF Ours
<1> QED
  BY <1>5, <1>6, <1>7, <1>8

RightAnswer(q, response, built) ==
    LET ours == {x \in Whole(q) : Ours(x)}
        due == UNION {Due(x) : x \in ours}
    IN  /\ built.records = IF response \/ Length(due) > OutMax THEN {} ELSE due
        /\ ~response => (built.unicast <=> \E x \in ours : x.ask.qu)

LEMMA QueryAnswered ==
    ASSUME NEW q \in Queries, NEW response \in BOOLEAN
    PROVE  RightAnswer(q, response, mdns_build_response(Packet(q), Len(q.questions), response))
<1>0. PICK ours, due, built : /\ ours = {x \in Whole(q) : Ours(x)} /\ due = UNION {Due(x) : x \in ours}
                              /\ built = mdns_build_response(Packet(q), Len(q.questions), response)
  OBVIOUS
<1>1. PICK N, w, I : /\ N = Len(q.questions) /\ w = scan_questions(Packet(q), N)
                     /\ I = WholeIn(q, N)
  OBVIOUS
<1>2. N \in Nat /\ DOMAIN q.questions = 1..N /\ I \in SUBSET (1..N)
  BY <1>1, QuestionLen DEF WholeIn
<1>3. /\ w.want = UNION {WantOf(q, i) : i \in I}
      /\ w.unicast <=> \E i \in I : WantOf(q, i) # {} /\ Last(q.questions[i]).qu
  BY <1>1, ScanRight DEF Scanned
<1>4. Whole(q) = {Question(q, i) : i \in I}
  BY <1>1, <1>2 DEF Whole, Question, WholeIn
<1>5. \A i \in I : /\ Ours(Question(q, i)) <=> WantOf(q, i) # {}
                   /\ Ours(Question(q, i)) => Due(Question(q, i)) = Bundle(WantOf(q, i))
  BY <1>1, <1>2, DueIsBundle
<1>6. Bundle(w.want) = UNION {Bundle(WantOf(q, i)) : i \in I}
  <2> DEFINE X == {WantOf(q, i) : i \in I}
  <2>1. Bundle(UNION X) = UNION {Bundle(x) : x \in X}
    BY BundleSpreads
  <2>2. UNION {Bundle(x) : x \in X} = UNION {Bundle(WantOf(q, i)) : i \in I}
    OBVIOUS
  <2> QED
    BY <1>3, <2>1, <2>2
<1>7. due = Bundle(w.want)
  <2>1. ASSUME NEW r, r \in due PROVE r \in Bundle(w.want)
    <3>1. PICK i \in I : Ours(Question(q, i)) /\ r \in Due(Question(q, i))
      BY <1>0, <1>4, <2>1
    <3> QED
      BY <1>5, <1>6, <3>1
  <2>2. ASSUME NEW r, r \in Bundle(w.want) PROVE r \in due
    <3>1. PICK i \in I : r \in Bundle(WantOf(q, i))
      BY <1>6, <2>2
    <3>2. WantOf(q, i) # {}
      BY <3>1, BundleNone
    <3>3. Ours(Question(q, i)) /\ r \in Due(Question(q, i))
      BY <1>5, <3>1, <3>2
    <3>4. Question(q, i) \in ours
      BY <1>0, <1>4, <3>3
    <3> QED
      BY <1>0, <3>3, <3>4
  <2> QED
    BY <2>1, <2>2
<1>8. w.unicast <=> \E x \in ours : x.ask.qu
  <2>1. \A i \in I : Question(q, i).ask.qu <=> Last(q.questions[i]).qu
    BY DEF Question
  <2>2. ASSUME NEW i \in I, WantOf(q, i) # {}, Last(q.questions[i]).qu PROVE \E x \in ours : x.ask.qu
    BY <1>0, <1>4, <1>5, <2>1, <2>2
  <2>3. ASSUME NEW x \in ours, x.ask.qu
        PROVE  \E i \in I : WantOf(q, i) # {} /\ Last(q.questions[i]).qu
    <3>1. PICK i \in I : x = Question(q, i) /\ Ours(x)
      BY <1>0, <1>4
    <3> QED
      BY <1>5, <2>1, <2>3, <3>1
  <2> QED
    BY <1>3, <2>2, <2>3
<1>9. built = [records |-> IF response \/ Length(Bundle(w.want)) > OutMax THEN {} ELSE Bundle(w.want),
               unicast |-> ~response /\ w.unicast]
  BY <1>0, <1>1 DEF mdns_build_response, Bundle
<1>10. built.records = IF response \/ Length(due) > OutMax THEN {} ELSE due
  <2>1. PICK R, u : /\ R = IF response \/ Length(Bundle(w.want)) > OutMax THEN {} ELSE Bundle(w.want)
                    /\ u = (~response /\ w.unicast)
    OBVIOUS
  <2>2. built = [records |-> R, unicast |-> u]
    BY <1>9, <2>1, Zenon
  <2>3. built.records = R
    BY <2>2
  <2> QED
    BY <1>7, <2>1, <2>3, Zenon
<1>11. built.unicast = (~response /\ w.unicast)
  BY <1>9
<1>12. ~response => (built.unicast <=> \E x \in ours : x.ask.qu)
  BY <1>8, <1>11
<1> QED
  BY <1>0, <1>10, <1>12 DEF RightAnswer

LEMMA AnswersInit == Init => AnswersWhatIsAsked
BY DEF Init, MdnsInit, NoDatagram, AnswersWhatIsAsked

LEMMA AnswersNext == AnswersWhatIsAsked /\ [Next]_vars => AnswersWhatIsAsked'
<1> SUFFICES ASSUME AnswersWhatIsAsked, [Next]_vars PROVE AnswersWhatIsAsked'
  OBVIOUS
<1>1. ASSUME NEW q \in Queries, NEW response \in BOOLEAN, txt' = txt,
             NEW built, built = mdns_build_response(Packet(q), Len(q.questions), response),
             dgram' = [is |-> "query", query |-> q, response |-> response,
                       records |-> built.records, unicast |-> built.unicast]
      PROVE  AnswersWhatIsAsked'
  <2>1. PICK ours, due : ours = {x \in Whole(q) : Ours(x)} /\ due = UNION {Due(x) : x \in ours}
    OBVIOUS
  <2>2. /\ built.records = IF response \/ Length(due) > OutMax THEN {} ELSE due
        /\ ~response => (built.unicast <=> \E x \in ours : x.ask.qu)
    <3>1. RightAnswer(q, response, built)
      BY <1>1, QueryAnswered
    <3> QED
      BY <2>1, <3>1 DEF RightAnswer
  <2>3. /\ dgram'.is = "query" /\ dgram'.query = q /\ dgram'.response = response
        /\ dgram'.records = built.records /\ dgram'.unicast = built.unicast
    BY <1>1
  <2>4. Length(due)' = Length(due)
    BY <1>1 DEF Length
  <2>5. IF dgram'.response \/ Length(due)' > OutMax THEN dgram'.records = {}
        ELSE /\ dgram'.records = due
             /\ due # {} => (dgram'.unicast <=> \E x \in ours : x.ask.qu)
    BY <2>2, <2>3, <2>4
  <2> QED
    BY <2>1, <2>3, <2>5 DEF AnswersWhatIsAsked
<1>2. ASSUME mdns_announce PROVE AnswersWhatIsAsked'
  <2>1. dgram'.is = "announced" /\ dgram'.records = mdns_build_announcement
    BY <1>2 DEF mdns_announce
  <2>2. mdns_build_announcement \in {{}, Records}
    BY DEF mdns_build_announcement
  <2> QED
    BY <2>1, <2>2 DEF AnswersWhatIsAsked
<1>3. ASSUME UNCHANGED mdnsVars PROVE AnswersWhatIsAsked'
  BY <1>3 DEF mdnsVars, AnswersWhatIsAsked, Length
<1>4. mdns_handle_readable \/ mdns_announce \/ UNCHANGED mdnsVars
  BY DEF Next, vars, CrashStep, DnsStep, SettingStep, ClockStep, MdnsStep, RouteStep,
         JsonStep, ReadsStep
<1>5. ASSUME mdns_handle_readable PROVE AnswersWhatIsAsked'
  BY <1>1, <1>5 DEF mdns_handle_readable
<1> QED
  BY <1>2, <1>3, <1>4, <1>5

(* For every query of any questions, names and pointers, however it is cut *)
(* off, and every size of the text and the datagram: the answer holds the  *)
(* records its whole questions ask for and none besides, or nothing when   *)
(* they do not fit; it goes to the sender alone when a question of ours    *)
(* asked for that (mdns.c:262-410).                                        *)
THEOREM AnswersExactly == Spec => []AnswersWhatIsAsked
BY AnswersInit, AnswersNext, PTL DEF Spec
=============================================================================

------------------------------ MODULE Settings ------------------------------
(***************************************************************************)
(* features/settings: theme, nickname, brightness, volume, internet time,  *)
(* airplane mode and the clock, read and written through REST and MCP.     *)
(* The services of the console are external: the ones in opened were       *)
(* opened at boot, and any call of one may fail.  A level is a number of   *)
(* Unit-ths; the hour, minute and second of a date are one field, "time",  *)
(* of TimeMax + 1 values, 0 being midnight.                                *)
(***************************************************************************)
EXTENDS Integers, Sequences

CONSTANTS
    Years, Months, Days, Times,   \* what clients send
    Dates,         \* what the clock may show
    TimeMax,
    Unit,          \* 1.0 of brightness and volume
    Levels,        \* what clients send, below 0 and above Unit too
    VolumeRanges,  \* <<min, max>> of the audio target
    Nicknames,     \* lengths of the names clients send, in characters
    NicknameMax,   \* SETTINGS_NICKNAME_MAX_CHARS
    Absent         \* a field the client left out

ASSUME SettingsAssumption ==
    /\ Years \subseteq Int /\ Months \subseteq Int /\ Days \subseteq Int /\ Times \subseteq Int
    /\ Dates \subseteq [year : Int, month : Int, day : Int, time : Int]
    /\ TimeMax \in Nat /\ Unit \in Nat \ {0} /\ Levels \subseteq Int
    /\ Nicknames \subseteq Nat
    /\ VolumeRanges \subseteq Int \X Int

VARIABLES
    opened,    \* services that settings_init could open
    range,     \* external: minimum and maximum volume
    console,   \* external: the settings
    set        \* the last request: what was asked and what was answered

settingsVars == <<opened, range, console, set>>

NoRequest == [of |-> "none", answer |-> "none"]

settings_init ==
    /\ opened \in SUBSET {"setsys", "lbl", "audctl"}
    /\ range \in VolumeRanges
    /\ console \in [theme : {"light"}, nickname : {1}, brightness : {0}, backlight : {0},
                    volume : {range[1]}, auto_time : {TRUE}, wireless : {TRUE}, clock : Dates]
    /\ set = NoRequest

Clamped(v) == IF v < 0 THEN 0 ELSE IF v > Unit THEN Unit ELSE v
Asked(setting, v, answer) == [of |-> setting, value |-> v, answer |-> answer]
Fails(setting, v) ==
    /\ set' = Asked(setting, v, "500")
    /\ UNCHANGED console

(* A setter whose one call either changes the setting or fails.            *)
Setter(service, setting, v) ==
    \/ /\ service \in opened
       /\ console' = [console EXCEPT ![setting] = v]
       /\ set' = Asked(setting, v, "ok")
    \/ Fails(setting, v)

Refuses(setting, v) ==
    /\ set' = Asked(setting, v, "400")
    /\ UNCHANGED console
Reads(service, setting, v) ==
    /\ \/ service \in opened /\ set' = Asked(setting, v, "got")
       \/ set' = Asked(setting, v, "500")
    /\ UNCHANGED console

settings_theme_from_json(theme) == theme \in {"light", "dark"}
settings_set_theme(theme) == Setter("setsys", "theme", theme)
settings_set_auto_time(on) == Setter("setsys", "auto_time", on)

settings_nickname_valid(length) == length >= 1 /\ length <= NicknameMax
settings_set_nickname(length) ==
    IF settings_nickname_valid(length) THEN Setter("setsys", "nickname", length)
    ELSE Refuses("nickname", length)

(* The backlight follows, best effort.                                     *)
settings_set_brightness(v) ==
    \/ /\ "lbl" \in opened
       /\ \E light \in {Clamped(v), console.backlight} :
             console' = [console EXCEPT !.brightness = Clamped(v), !.backlight = light]
       /\ set' = Asked("brightness", Clamped(v), "ok")
    \/ Fails("brightness", v)

(* The volume as a fraction.                                               *)
settings_get_volume ==
    IF range[2] <= range[1] THEN <<0, 1>>
    ELSE <<console.volume - range[1], range[2] - range[1]>>

(* value * (vmax - vmin) + 0.5, cut to an integer.                         *)
Rounded(v) == (2 * v * (range[2] - range[1]) + Unit) \div (2 * Unit)
settings_set_volume(v) ==
    \/ /\ "audctl" \in opened /\ range[2] > range[1]
       /\ console' = [console EXCEPT !.volume = range[1] + Rounded(Clamped(v))]
       /\ set' = Asked("volume", Clamped(v), "ok")
    \/ Fails("volume", v)

settings_disable_wireless ==
    \/ /\ console' = [console EXCEPT !.wireless = FALSE]
       /\ set' = Asked("wireless", FALSE, "ok")
    \/ Fails("wireless", FALSE)

(* ---- the clock ---- *)

kDays == <<31, 28, 31, 30, 31, 30, 31, 31, 30, 31, 30, 31>>

(* Bug: every fourth year is a leap year.                                  *)
days_in_month_julian(year, month) ==
    IF month = 2 /\ year % 4 = 0 THEN 29 ELSE kDays[month]

days_in_month(year, month) ==
    LET leap == (year % 4 = 0 /\ year % 100 # 0) \/ year % 400 = 0
    IN  IF month = 2 /\ leap THEN 29 ELSE kDays[month]

settings_datetime_valid(d) ==
    /\ d.year >= 2000 /\ d.year <= 2100
    /\ d.month >= 1 /\ d.month <= 12
    /\ d.day >= 1 /\ d.day <= days_in_month(d.year, d.month)
    /\ d.time >= 0 /\ d.time <= TimeMax

(* The fields given, over the clock, or over zeros when it cannot be read: *)
(* the result of settings_get_datetime is not looked at.                   *)
settings_datetime_from_json(fields, now) ==
    [f \in {"year", "month", "day", "time"} |-> IF fields[f] = Absent THEN now[f] ELSE fields[f]]
Zeros == [year |-> 0, month |-> 0, day |-> 0, time |-> 0]

settings_set_datetime(fields) ==
    \E read \in BOOLEAN :
        LET date == settings_datetime_from_json(fields, IF read THEN console.clock ELSE Zeros)
            Reply(answer) == set' = [of |-> "clock", fields |-> fields, read |-> read,
                                     answer |-> answer]
        IN  IF settings_datetime_valid(date)
              THEN \/ console' = [console EXCEPT !.clock = date] /\ Reply("ok")
                   \/ UNCHANGED console /\ Reply("500")
              ELSE UNCHANGED console /\ Reply("400")

(* ---- requests: GET and POST of REST, and the tools of MCP ---- *)

get_theme == Reads("setsys", "theme", console.theme)
tool_set_theme ==
    \E theme \in {"light", "dark", "other"} :
        IF settings_theme_from_json(theme) THEN settings_set_theme(theme)
        ELSE Refuses("theme", theme)
handle_theme == get_theme \/ tool_set_theme

get_nickname == Reads("setsys", "nickname", console.nickname)
tool_set_nickname == \E length \in Nicknames : settings_set_nickname(length)
handle_nickname == get_nickname \/ tool_set_nickname

get_float ==
    Reads("lbl", "brightness", console.brightness) \/ Reads("audctl", "volume", settings_get_volume)

(* handle_float of REST hands the level over as it is, set_float of MCP    *)
(* clamps it first; both answer with the clamped one.                      *)
handle_float ==
    get_float \/ \E v \in Levels : settings_set_brightness(v) \/ settings_set_volume(v)
set_float ==
    \E v \in Levels :
        settings_set_brightness(Clamped(v)) \/ settings_set_volume(Clamped(v))

get_auto_time == Reads("setsys", "auto_time", console.auto_time)
tool_set_auto_time == \E on \in BOOLEAN : settings_set_auto_time(on)
handle_auto_time == get_auto_time \/ tool_set_auto_time

tool_airplane_mode == settings_disable_wireless

get_datetime ==
    /\ set' \in {Asked("time", console.clock, answer) : answer \in {"got", "500"}}
    /\ UNCHANGED console
tool_set_datetime ==
    \E fields \in [year : Years \cup {Absent}, month : Months \cup {Absent},
                    day : Days \cup {Absent}, time : Times \cup {Absent}] :
        settings_set_datetime(fields)
handle_datetime == get_datetime \/ tool_set_datetime

Sent == set' = NoRequest /\ UNCHANGED console

(* Without wireless nobody asks any more.                                  *)
SettingsNext ==
    /\ IF set # NoRequest THEN Sent
       ELSE console.wireless /\ ( \/ handle_theme \/ handle_nickname \/ handle_float \/ set_float
                                 \/ handle_auto_time \/ tool_airplane_mode )
    /\ UNCHANGED <<opened, range>>

ClockNext ==
    /\ IF set # NoRequest THEN Sent ELSE handle_datetime
    /\ UNCHANGED <<opened, range>>

(* The calendar, by how many leap days there have been.                    *)
LeapDays(year) == year \div 4 - year \div 100 + year \div 400
RealDate(d) ==
    /\ d.month \in 1..12
    /\ d.day \in 1..(CASE d.month = 2 -> 28 + LeapDays(d.year) - LeapDays(d.year - 1)
                        [] d.month \in {4, 6, 9, 11} -> 30
                        [] OTHER -> 31)

(* What the clock is asked to show: the fields given over the time it was. *)
Wanted(fields) ==
    [f \in DOMAIN fields |-> IF fields[f] = Absent THEN console.clock[f] ELSE fields[f]]
Acceptable(d) == d.year \in 2000..2100 /\ RealDate(d) /\ d.time \in 0..TimeMax

(* A confirmed change is the change that was asked for and a refused one   *)
(* changes nothing: the volume is the level nearest to the fraction asked  *)
(* for in any range, the clock takes every date of the calendar and no     *)
(* other, and a date given in part keeps the rest of the clock it was      *)
(* given over, if that could be read.                                      *)
SettingsAsAsked ==
    [][ /\ set'.answer # "ok" => UNCHANGED console
        /\ set'.answer = "ok" /\ set'.of = "clock" /\ set'.read =>
              Acceptable(Wanted(set'.fields)) /\ console'.clock = Wanted(set'.fields)
        /\ set'.answer = "400" /\ set'.of = "clock" /\ set'.read => ~Acceptable(Wanted(set'.fields))
        /\ /\ set'.answer \in {"ok", "got"}
           /\ set'.of \in {"theme", "nickname", "brightness", "auto_time", "wireless"}
           => console'[set'.of] = set'.value
        /\ set'.answer = "ok" /\ set'.of = "volume" =>
              LET n == settings_get_volume'[1]
                  d == settings_get_volume'[2]
                  miss == n * Unit - set'.value * d
              IN  n \in 0..d /\ 2 * miss <= Unit /\ -2 * miss <= Unit ]_settingsVars
=============================================================================

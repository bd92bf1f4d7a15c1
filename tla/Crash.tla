------------------------------- MODULE Crash -------------------------------
(***************************************************************************)
(* features/crash: crash_list keeps the newest reports of two directories  *)
(* in a table of max entries while it reads them in directory order.  A    *)
(* report is its timestamp; a name parse_name refuses is Foreign.          *)
(***************************************************************************)
EXTENDS Integers, Sequences, FiniteSets, SequencesExt, FiniteSetsExt

CONSTANTS
    Stamps,       \* timestamps
    Foreign,      \* a file that is no report
    MaxReports,   \* stands for CRASH_MAX_REPORTS
    MaxEntries    \* bound: files in a directory

ASSUME CrashAssumption ==
    /\ Stamps \subseteq Nat /\ Foreign \notin Stamps
    /\ MaxReports \in Nat /\ MaxEntries \in Nat

VARIABLE reports  \* the last list: what was there, the limit, the answer

NoReports == [answer |-> "none"]
Directory == UNION {[1..n -> Stamps \cup {Foreign}] : n \in 0..MaxEntries}

(* A directory entry in the order crash_list meets it.                     *)
Entry(fatal, stamp) == [fatal |-> fatal, ts |-> stamp]
Entries(dirs) ==
    [i \in DOMAIN dirs[1] |-> Entry(FALSE, dirs[1][i])]
    \o [i \in DOMAIN dirs[2] |-> Entry(TRUE, dirs[2][i])]

parse_name(e) == e.ts # Foreign

(* Bug: a full table takes nothing more.                                   *)
Insert_first_come(out, e, max) ==
    IF Len(out) = max THEN out ELSE SortSeq(Append(out, e), LAMBDA a, b : a.ts > b.ts)

(* The place is found from the end; the rest moves down, and off the end   *)
(* of a full table.                                                        *)
Insert(out, e, max) ==
    LET at == 1 + Max({0} \cup {i \in DOMAIN out : out[i].ts >= e.ts})
        last == IF Len(out) < max THEN Len(out) ELSE max - 1
    IN  IF at > max THEN out
        ELSE [i \in 1..(last + 1) |->
                IF i < at THEN out[i] ELSE IF i = at THEN e ELSE out[i - 1]]

crash_list(dirs, max) ==
    LET entries == Entries(dirs)
        listed[i \in 0..Len(entries)] ==
            IF i = 0 THEN <<>>
            ELSE IF parse_name(entries[i]) THEN Insert(listed[i - 1], entries[i], max)
            ELSE listed[i - 1]
    IN  listed[Len(entries)]

(* GET /crash-reports; a directory that does not open counts as empty.     *)
get_reports(limit) ==
    IF limit \in 1..MaxReports
      THEN \E crash, fatal \in Directory :
              reports' = [answer |-> "list", dirs |-> <<crash, fatal>>, limit |-> limit,
                          out |-> crash_list(<<crash, fatal>>, limit)]
      ELSE reports' = [answer |-> "400"]

(* The tool, whose request memory also holds the body of the call.         *)
tool_list_crash_reports(limit) ==
    \/ get_reports(limit)
    \/ limit \in 1..MaxReports /\ reports' = [answer |-> "out of memory"]

(* crash.h:30 "the newest reports, newest first": nothing newer than what  *)
(* is listed is left out, whatever order the directories are read in and   *)
(* however small the limit; equal timestamps keep the order of the files.  *)
NewestReports ==
    reports.answer = "list" =>
        LET entries == Entries(reports.dirs)
            Found == {i \in DOMAIN entries : parse_name(entries[i])}
            Before(i) == {j \in Found : \/ entries[j].ts > entries[i].ts
                                        \/ entries[j].ts = entries[i].ts /\ j < i}
        IN  /\ Len(reports.out) = IF Cardinality(Found) < reports.limit
                                    THEN Cardinality(Found) ELSE reports.limit
            /\ \A i \in Found : Cardinality(Before(i)) < reports.limit =>
                  reports.out[Cardinality(Before(i)) + 1] = entries[i]
=============================================================================

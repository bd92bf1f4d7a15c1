------------------------------ MODULE FileWait ------------------------------
(***************************************************************************)
(* features/files/files.c: files_wait polls a file that another program    *)
(* writes, and search_file reads what was added through a small buffer.    *)
(* A file is a sequence of letters; positions count letters.               *)
(***************************************************************************)
EXTENDS Integers, Sequences, SequencesExt

CONSTANTS
    Letters,
    Needle,       \* the text that is waited for
    BufSize,      \* stands for FILES_IO_BUF_SIZE
    NoLog,        \* the file does not exist
    MaxLog,       \* bound: length of the file
    MaxRewrites,  \* bound: rewrites and removals by the other program
    MaxPolls      \* bound: looks before the timeout

ASSUME FileWaitAssumption ==
    /\ Needle \in Seq(Letters) /\ Needle # <<>>
    /\ BufSize \in Nat /\ BufSize >= Len(Needle)
    /\ NoLog \notin Seq(Letters)

VARIABLES
    log,     \* external: the file
    fw,      \* the wait
    stale    \* history: the file was replaced and the wait could not tell,
             \* or could not open it

fileWaitVars == <<log, fw, stale>>

NoWait == [at |-> "off"]
Overlap == Len(Needle) - 1
Size(f) == IF f = NoLog THEN 0 ELSE Len(f)
Logs == {NoLog} \cup UNION {[1..n -> Letters] : n \in 0..2}

FileWaitInit == log = NoLog /\ fw = NoWait /\ stale = FALSE

(* base is history: text that ends at or before it does not count.         *)
WaitBegin(contains, new_only) ==
    /\ log' \in Logs
    /\ LET from == IF new_only THEN Size(log') ELSE 0 IN
       fw' = [at |-> "stat", contains |-> contains, scanned |-> from, base |-> from, size |-> 0,
              exists |-> FALSE, met |-> FALSE, off |-> 0, buf |-> <<>>,
              polls |-> 1, rewrites |-> 0]
    /\ stale' = FALSE

Searched(w) == [w EXCEPT !.at = "decide", !.scanned = w.size, !.off = 0, !.buf = <<>>]

(* stat; a file that is shorter than what was scanned is taken as new.     *)
WaitStat ==
    /\ fw.at = "stat"
    /\ LET shrunk == log # NoLog /\ Len(log) < fw.scanned
           seen == [fw EXCEPT !.exists = TRUE, !.size = Size(log),
                              !.scanned = IF shrunk THEN 0 ELSE @,
                              !.base = IF shrunk THEN 0 ELSE @]
       IN  /\ fw' = IF log = NoLog THEN [fw EXCEPT !.at = "decide", !.exists = FALSE]
                    ELSE IF ~fw.contains
                      THEN [fw EXCEPT !.at = "decide", !.exists = TRUE, !.met = TRUE]
                    ELSE IF seen.size > seen.scanned THEN [seen EXCEPT !.at = "open"]
                    ELSE Searched(seen)
           /\ stale' = (stale /\ ~(shrunk /\ fw.contains))
    /\ UNCHANGED log

(* Bug: the search starts where the last one ended.                        *)
SearchOpen_no_overlap ==
    /\ fw.at = "open"
    /\ \/ /\ log # NoLog
          /\ fw' = [fw EXCEPT !.at = "search", !.off = fw.scanned]
          /\ UNCHANGED stale
       \/ fw' = Searched(fw) /\ stale' = TRUE
    /\ UNCHANGED log

(* fopen fails when the file is gone or its writer has it locked.          *)
SearchOpen ==
    /\ fw.at = "open"
    /\ \/ /\ log # NoLog
          /\ fw' = [fw EXCEPT !.at = "search",
                              !.off = IF fw.scanned > Overlap THEN fw.scanned - Overlap ELSE 0]
          /\ UNCHANGED stale
       \/ fw' = Searched(fw) /\ stale' = TRUE
    /\ UNCHANGED log

Occurs(text) ==
    \E i \in 1..(Len(text) - Overlap) : SubSeq(text, i, i + Overlap) = Needle

(* fread fills the buffer or reaches the end; the last letters are kept.   *)
SearchChunk ==
    /\ fw.at = "search"
    /\ LET room == BufSize - Len(fw.buf)
           end == IF fw.off + room < Size(log) THEN fw.off + room ELSE Size(log)
           total == fw.buf \o SubSeq(log, fw.off + 1, end)
           drop == IF Len(total) > Overlap THEN Len(total) - Overlap ELSE 0
       IN  fw' = IF end <= fw.off THEN Searched(fw)
                 ELSE IF Occurs(total) THEN [Searched(fw) EXCEPT !.met = TRUE]
                 ELSE [fw EXCEPT !.off = end, !.buf = SubSeq(total, drop + 1, Len(total))]
    /\ UNCHANGED <<log, stale>>

(* Found, timed out, interrupted by a sleep request, or another look.      *)
WaitDecide ==
    /\ fw.at = "decide"
    /\ \/ fw' = [fw EXCEPT !.at = "answered"]
       \/ /\ ~fw.met /\ fw.polls < MaxPolls
          /\ fw' = [fw EXCEPT !.at = "stat", !.polls = @ + 1]
    /\ UNCHANGED <<log, stale>>

FileWaiting == WaitStat \/ SearchOpen \/ SearchChunk \/ WaitDecide

(* ---- the program that writes the file ---- *)

LogAppend ==
    /\ fw.at \in {"stat", "open", "search", "decide"} /\ Size(log) < MaxLog
    /\ \E l \in Letters : log' = IF log = NoLog THEN <<l>> ELSE Append(log, l)
    /\ UNCHANGED <<fw, stale>>

LogReplace ==
    /\ fw.at \in {"stat", "open", "search", "decide"}
    /\ log # NoLog /\ fw.rewrites < MaxRewrites
    /\ log' \in Logs \ {log}
    /\ fw' = [fw EXCEPT !.rewrites = @ + 1]
    /\ stale' = TRUE

(* ---- what the property of the wait rests on ---- *)

(* Where text that ends after position b may begin.                        *)
From(b) == IF b > Overlap THEN b - Overlap + 1 ELSE 1
MatchAt(f, i) == \A k \in 1..Len(Needle) : f[i + k - 1] = Needle[k]
FoundIn(f, b) == \E i \in From(b)..(Len(f) - Overlap) : MatchAt(f, i)
NoneIn(f, b, e) == \A i \in From(b)..(e - Overlap) : ~MatchAt(f, i)

Waits ==
    [at : {"stat", "open", "search", "decide", "answered"}, contains : BOOLEAN, scanned : Nat,
     base : Nat, size : Nat, exists : BOOLEAN, met : BOOLEAN, off : Nat, buf : Seq(Letters),
     polls : Nat, rewrites : Nat]

(* The buffer of a search holds the letters before off, as many as a text  *)
(* that straddles off may have, or all since the search began.             *)
Searching(f, w) ==
    LET b == Len(w.buf) IN
    /\ w.off <= Len(f) /\ b <= w.off
    /\ \A j \in 1..b : w.buf[j] = f[w.off - b + j]
    /\ w.off - b >= From(w.scanned) - 1
    /\ b = Overlap \/ w.off - b = From(w.scanned) - 1
    /\ NoneIn(f, w.base, w.off)

(* A wait for text that has seen every change of the file f.               *)
Live(f, w) ==
    /\ w.base <= w.scanned /\ w.scanned <= Size(f)
    /\ w.at \in {"open", "search"} => f # NoLog /\ w.scanned <= w.size /\ w.size <= Len(f)
    /\ w.at \in {"decide", "answered"} /\ w.exists => f # NoLog /\ w.scanned = w.size
    /\ w.met => f # NoLog /\ FoundIn(f, w.base)
    /\ ~w.met /\ f # NoLog => NoneIn(f, w.base, w.scanned)
    /\ w.at = "search" => Searching(f, w)

(* What every wait keeps, whether or not it saw every change.              *)
Sound(w) ==
    /\ w \in Waits
    /\ w.at \in {"stat", "open", "search"} => ~w.met
    /\ w.at \in {"open", "search"} => w.contains
    /\ Len(w.buf) <= Overlap
    /\ w.at # "search" => w.buf = <<>>

FileWaitRight ==
    /\ log = NoLog \/ log \in Seq(Letters)
    /\ fw # NoWait => Sound(fw) /\ (fw.contains /\ ~stale => Live(log, fw))

(* files.h:61-65: a wait that saw every change of the file says found when *)
(* the text is there and not found when it is not, wherever the text falls *)
(* across reads, polls and the place where the wait began.                 *)
WaitTellsTruth ==
    fw.at = "answered" /\ fw.exists /\ fw.contains /\ ~stale =>
        LET counts(text) == Occurs(SubSeq(text, From(fw.base), Len(text)))
        IN  IF fw.met THEN counts(log) ELSE ~counts(SubSeq(log, 1, fw.size))

(* files.h:61 "Waits [...] until fspath exists and [...] holds that text": *)
(* the same of a file that only grew, also when a look could not open it   *)
(* (files.c:260-262) and counted as scanned what it did not read.          *)
WaitMissesNothing ==
    fw.at = "answered" /\ fw.exists /\ fw.contains /\ ~fw.met /\ fw.rewrites = 0 =>
        ~Occurs(SubSeq(log, From(fw.base), fw.size))
=============================================================================

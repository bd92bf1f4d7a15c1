------------------------------- MODULE SdCard -------------------------------
(***************************************************************************)
(* The SD card as the file handlers and the NRO launcher see it: external, *)
(* modelled from how the code calls stat, fopen, remove, rename and mkdir. *)
(* A file has a version (whose content it is) and a size in parts; it is   *)
(* complete at Parts.  Next to a path live its upload and its launch copy. *)
(* A file hbmenu holds open answers no call, and rename never overwrites.  *)
(***************************************************************************)
EXTENDS Integers, FiniteSets

CONSTANTS
    Paths,        \* the paths clients name
    Nros,         \* those that are NROs under /switch/
    Nested,       \* those inside the directory; the others are in the root
    Versions,     \* file contents, told apart by their upload
    NoFile,
    Parts,        \* bound: parts of a complete file, one per buffer read
    SettleTries   \* bound: stands for NRO_SETTLE_TRIES

ASSUME SdCardAssumption ==
    /\ Nros \subseteq Paths
    /\ Nested \subseteq Paths
    /\ NoFile \notin [ver : Versions, size : 0..Parts]
    /\ Parts \in Nat \ {0}
    /\ SettleTries \in Nat

VARIABLES
    files,   \* every name on the card -> its file or NoFile
    dir,     \* the directory exists
    held,    \* the names hbmenu has open
    job,     \* the handler that runs and where it stands
    answer   \* the last request was told "ok" or "error"; "none" during a job

File == [ver : Versions, size : 0..Parts]
Self(p) == <<p, "self">>
Upload(p) == <<p, "upload">>
Launch(p) == <<p, "launch">>
Names == Paths \X {"self", "upload", "launch"}
Complete(f) == f # NoFile /\ f.size = Parts

Idle == [op |-> "idle"]
Job(op, at, p, v) ==
    [op |-> op, at |-> at, path |-> p, ver |-> v, sent |-> 0, ok |-> FALSE,
     tries |-> 0, faulty |-> FALSE]

(* stat, fopen(rb), remove and rename reach a file nobody holds open.      *)
Reaches(n) == files[n] # NoFile /\ n \notin held

Without(n) == [files EXCEPT ![n] = NoFile]
Moved(a, b) == [files EXCEPT ![b] = files[a], ![a] = NoFile]
CanRename(a, b) == Reaches(a) /\ files[b] = NoFile

(* remove(n), its result ignored: gone, or still there when it is held or  *)
(* the card fails.                                                         *)
Remove(n, next) ==
    \/ /\ files' = IF Reaches(n) THEN Without(n) ELSE files
       /\ job' = next
    \/ /\ Reaches(n)
       /\ files' = files
       /\ job' = [next EXCEPT !.faulty = TRUE]

End(ok) ==
    /\ job' = Idle
    /\ answer' = IF ok THEN "ok" ELSE "error"

CardInit ==
    /\ \E v \in Versions, present \in SUBSET Paths :
          /\ files = [n \in Names |->
                        IF n[2] = "self" /\ n[1] \in present
                          THEN [ver |-> v, size |-> Parts] ELSE NoFile]
          /\ dir = (present \cap Nested # {})
    /\ held = {}
    /\ job = Idle
    /\ answer = "none"
=============================================================================

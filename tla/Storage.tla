------------------------------- MODULE Storage -------------------------------
(***************************************************************************)
(* The file handlers and the NRO launcher over one card, beside hbmenu and *)
(* a console that can lose power between any two calls.  The server is one *)
(* thread: a request ends before the next one begins.                      *)
(***************************************************************************)
EXTENDS Files, NroLauncher

VARIABLES
    fault,   \* history: power or the card failed during the last operation
    kept     \* history: paths whose content must not be lost

vars == <<files, dir, held, job, answer, hbmenu, fault, kept>>

Init ==
    /\ CardInit
    /\ hbmenu = HbmenuOff
    /\ fault = FALSE
    /\ kept = {p \in Paths : files[Self(p)] # NoFile}

FilesStep ==
    /\ \/ \E p \in Paths, v \in Versions : PutOpen(p, v)
       \/ PutBody \/ PutRemove \/ PutRename
       \/ delete_files \/ post_move \/ tool_delete_file \/ tool_move_file
       \/ \E p \in Paths : get_files(p)
    /\ UNCHANGED hbmenu

LauncherStep ==
    \/ \E p \in Paths : LaunchConnect(p)
    \/ LaunchClear \/ LaunchAside \/ LaunchAsk \/ LaunchAnswered \/ LaunchSend
    \/ LaunchConfirm \/ LaunchSettle \/ LaunchDiscard \/ LaunchRestore \/ LaunchPutback

HbmenuStep == HbmenuListens \/ HbmenuAnswers \/ HbmenuWrites \/ HbmenuCloses

PowerLoss ==
    /\ job' = Idle
    /\ held' = {}
    /\ hbmenu' = HbmenuOff
    /\ answer' = "none"
    /\ UNCHANGED <<files, dir>>

CardFails == (PutRenameFails /\ UNCHANGED hbmenu) \/ LaunchPutbackFails

(* A path is kept from when it is whole until a client removes it, the     *)
(* card fails the last rename of an upload, an operation starts on it      *)
(* while it is not whole (an upload retried, a torn NRO launched again),   *)
(* or its directory goes unseen.                                           *)
Forfeits(p) ==
    \/ job = Idle /\ job' = Idle /\ files[Self(p)] # NoFile /\ files'[Self(p)] = NoFile
    \/ job.op = "put" /\ job.path = p /\ PutRenameFails
    \/ job = Idle /\ job'.op \in {"put", "launch"} /\ job'.path = p /\ ~Complete(files[Self(p)])
    \/ p \in Nested /\ dir /\ ~dir' /\ job.faulty

KeptNext ==
    kept' = {p \in Paths : Complete(files'[Self(p)])} \cup {p \in kept : ~Forfeits(p)}

Next ==
    /\ \/ /\ FilesStep \/ LauncherStep \/ HbmenuStep
          /\ fault' = \/ job # Idle /\ fault
                      \/ job' # Idle /\ job'.faulty
       \/ (PowerLoss \/ CardFails) /\ fault' = TRUE
    /\ KeptNext

Spec == Init /\ [][Next]_vars

(* ---- what the properties rest on ---- *)

Jobs == [op : {"put"}, at : {"body", "rename"}, path : Paths, ver : Versions, sent : Nat,
         ok : BOOLEAN, tries : Nat, faulty : BOOLEAN]
        \cup
        [op : {"launch"},
         at : {"clear", "aside", "ask", "asked", "send", "confirm", "settle", "discard",
               "restore", "putback"},
         path : Paths, ver : Versions, sent : Nat, ok : BOOLEAN, tries : Nat, faulty : BOOLEAN]
Rmdirs == [op : {"rmdir"}, at : {"rmdir"}, faulty : BOOLEAN]
Netloaders ==
    [st : {"asked", "writing", "starting"}, path : Paths, ver : Versions, got : Nat, here : BOOLEAN]

TypeOK ==
    /\ files \in [Names -> File \cup {NoFile}]
    /\ dir \in BOOLEAN
    /\ held \subseteq Names
    /\ job \in Jobs \cup Rmdirs \cup {Idle}
    /\ answer \in {"none", "ok", "error"}
    /\ hbmenu \in Netloaders \cup {HbmenuOff, Netloader("listening", "none", "none")}
    /\ fault \in BOOLEAN
    /\ kept \subseteq Paths

(* hbmenu holds nothing but the file it writes, and has written nothing    *)
(* before it answers.                                                      *)
Busy == hbmenu.st \in {"asked", "writing", "starting"}
HeldRight ==
    /\ held # {} => hbmenu.st \in {"writing", "starting"} /\ held = {Self(hbmenu.path)}
    /\ hbmenu.st = "asked" => hbmenu.got = 0 /\ hbmenu.here

(* An upload's temp file is its own until it is moved.                     *)
UploadRight ==
    job.op = "put" =>
        LET f == files[Upload(job.path)] IN
        f # NoFile /\ f.ver = job.ver /\ (job.at = "rename" => f.size = Parts)

(* A launch: the NRO is at its path or aside; hbmenu's file at the path is *)
(* of the same version and never more than the copy, and all of it once    *)
(* hbmenu has confirmed.                                                   *)
Original(f) == f # NoFile /\ f.ver = job.ver /\ f.size > 0
LaunchRight ==
    job.op = "launch" =>
        LET own == files[Self(job.path)]
            copy == files[Launch(job.path)]
        IN  /\ job.at \in {"clear", "aside", "ask"} => hbmenu.st = "listening"
            /\ job.at \in {"clear", "aside"} => Original(own)
            /\ job.at \notin {"clear", "aside"} =>
                  /\ Original(copy)
                  /\ own # NoFile => own.ver = job.ver /\ own.size <= copy.size
            /\ job.at = "ask" => own = NoFile
            /\ Busy => hbmenu.path = job.path /\ hbmenu.ver = job.ver
            /\ job.at \in {"clear", "aside", "ask", "asked"} => job.sent = 0
            /\ Connected =>
                  /\ ~job.ok /\ hbmenu.st # "starting"
                  /\ own # NoFile <=> hbmenu.st = "writing" /\ hbmenu.here
                  /\ own # NoFile => own.size = hbmenu.got
                  /\ hbmenu.st = "writing" => hbmenu.got <= job.sent
                  /\ job.at \in {"send", "confirm"} => hbmenu.st = "writing"
                  /\ job.at = "send" => job.sent < copy.size
                  /\ job.at = "confirm" => job.sent = copy.size
            /\ job.at \in {"settle", "discard"} => job.ok
            /\ job.ok => /\ job.at \in {"settle", "discard", "restore", "putback"}
                         /\ hbmenu.st \notin {"asked", "writing"}
                         /\ own # NoFile => own.size = copy.size
            /\ job.at = "discard" => own # NoFile

(* nro_launch gives up only when hbmenu has let go, unless the card fails. *)
PutbackRight ==
    HbmenuPrompt /\ job.op = "launch" /\ job.at = "putback" /\ ~job.ok
        => files[Self(job.path)] = NoFile \/ job.faulty

FaultRight == job # Idle /\ job.faulty => fault

(* Where the whole copy of a kept path is, at every step of a job on it.   *)
KeptAt(p) ==
    IF job.op \in {"idle", "rmdir"} \/ job.path # p
      THEN \E n \in {Self(p), Upload(p), Launch(p)} : Complete(files[n])
    ELSE IF job.op = "put"
      THEN \/ Complete(files[Self(p)])
           \/ job.at = "rename" /\ files[Self(p)] = NoFile
    ELSE IF job.at \in {"clear", "aside"} THEN Complete(files[Self(p)])
    ELSE Complete(files[Launch(p)])
KeptRight == \A p \in kept : KeptAt(p)

(* However an upload or a launch is interrupted, one whole copy of a file  *)
(* that was whole before is on the card: at its path, in the upload's temp *)
(* file or in the launcher's copy (files_http.c:208-213, nro.c:259-266).   *)
CopySurvives ==
    \A p \in kept : \E n \in {Self(p), Upload(p), Launch(p)} : Complete(files[n])

(* Every file is in a directory that is there.                             *)
NoOrphans == \A n \in Names : n[1] \in Nested /\ files[n] # NoFile => dir

(* What was empty when files_delete_path looked still is at its rmdir.     *)
LookRight == HbmenuPrompt /\ job.op = "rmdir" /\ ~job.faulty => Empty

(* files.c:135 "Checked by hand": a directory never takes a file with it,  *)
(* an upload's or a launch's temp file included, though hbmenu runs on     *)
(* between the look and the rmdir.  The exception is a directory that does *)
(* not open: it counts as empty (NoFileLostUnseen).                        *)
NoFileLostWithDirectory == [][dir /\ ~dir' /\ ~job.faulty => Empty]_vars

(* The same without the exception: what the comment says.                  *)
NoFileLostUnseen == [][dir /\ ~dir' => Empty]_vars

IInv ==
    /\ TypeOK /\ HeldRight /\ UploadRight /\ LaunchRight /\ PutbackRight /\ FaultRight
    /\ NoOrphans /\ LookRight
    /\ HbmenuPrompt => KeptRight

(* nro.h:30 "The NRO on the SD card is left as it was on any failure."     *)
NroLeftAsItWas ==
    [][job.op = "launch" /\ job' = Idle /\ answer' = "error" /\ ~fault'
         => files'[Self(job.path)] # NoFile
            /\ files'[Self(job.path)].ver = job.ver
            /\ files'[Self(job.path)].size = Parts]_vars

(* The card as a client sees it: during a launch the file is the copy.     *)
View(f) == IF f = NoFile THEN NoFile ELSE IF f.size = Parts THEN f.ver ELSE "torn"
Seen(p) ==
    View(IF job.op = "launch" /\ job.path = p /\ job.at \notin {"clear", "aside", "discard"}
           THEN files[Launch(p)] ELSE files[Self(p)])

SeenOp ==
    CASE job.op = "put" -> [kind |-> "put", path |-> job.path, goal |-> job.ver,
                            gap |-> job.at = "rename" /\ files[Self(job.path)] = NoFile]
      [] job.op = "launch" -> [kind |-> "launch", path |-> job.path]
      [] OTHER -> [kind |-> "none"]

Atomic == INSTANCE AtomicFiles WITH
    Absent <- NoFile, Torn <- "torn",
    content <- [p \in Paths |-> Seen(p)],
    op <- SeenOp,
    replied <- answer = "ok"

(* Uploads, deletions, moves and launches implement AtomicFiles: a dropped *)
(* connection or a full card does not cost the file that is replaced       *)
(* (files_http.c:171-173), no torn file is ever moved into place, and a    *)
(* launch that met no fault gives the path back as it was.                 *)
ImplementsAtomicFiles == Atomic!Spec
=============================================================================

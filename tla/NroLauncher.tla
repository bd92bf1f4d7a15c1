---------------------------- MODULE NroLauncher ----------------------------
(***************************************************************************)
(* features/nro/nro.c: nro_launch moves the NRO aside, streams it to       *)
(* hbmenu, which writes it back to its own path, and then drops the copy   *)
(* or puts it back.  hbmenu is another process: it creates and truncates   *)
(* the path, holds it open while it writes and until it exits, and works   *)
(* at its own pace.  "The new file cannot even be stat()ed while hbmenu    *)
(* still holds it open" (nro.c:247).                                       *)
(***************************************************************************)
EXTENDS SdCard

CONSTANT
    HbmenuPrompt  \* after a failed transfer hbmenu has let go of the file
                  \* before nro_launch removes it

ASSUME NroLauncherAssumption == HbmenuPrompt \in BOOLEAN

VARIABLE hbmenu   \* external: what the netloader is doing, with which file

Netloader(st, p, v) == [st |-> st, path |-> p, ver |-> v, got |-> 0, here |-> TRUE]
HbmenuOff == [st |-> "off"]
Connected == job.op = "launch" /\ job.at \in {"asked", "send", "confirm"}

(* The checks of nro_launch and connect_netloader.                         *)
LaunchConnect(p) ==
    /\ job = Idle
    /\ IF p \in Nros /\ Reaches(Self(p)) /\ files[Self(p)].size > 0 /\ hbmenu.st = "listening"
         THEN /\ job' = Job("launch", "clear", p, files[Self(p)].ver)
              /\ answer' = "none"
         ELSE End(FALSE)
    /\ UNCHANGED <<files, dir, held, hbmenu>>

LaunchClear ==
    /\ job.op = "launch" /\ job.at = "clear"
    /\ Remove(Launch(job.path), [job EXCEPT !.at = "aside"])
    /\ UNCHANGED <<dir, held, answer, hbmenu>>

LaunchAside ==
    /\ job.op = "launch" /\ job.at = "aside"
    /\ LET p == job.path IN
       \/ /\ CanRename(Self(p), Launch(p))
          /\ files' = Moved(Self(p), Launch(p))
          /\ job' = [job EXCEPT !.at = "ask"]
          /\ UNCHANGED answer
       \/ files' = files /\ End(FALSE)
    /\ UNCHANGED <<dir, held, hbmenu>>

Fails == job' = [job EXCEPT !.at = "restore"]

(* converse: the name and the size are sent, or the copy cannot be opened. *)
LaunchAsk ==
    /\ job.op = "launch" /\ job.at = "ask"
    /\ \/ /\ hbmenu.st = "listening"
          /\ hbmenu' = Netloader("asked", job.path, job.ver)
          /\ job' = [job EXCEPT !.at = "asked"]
       \/ Fails /\ UNCHANGED hbmenu
    /\ UNCHANGED <<files, dir, held, answer>>

(* converse: the answer; a negative one, none in time, a closed connection. *)
LaunchAnswered ==
    /\ job.op = "launch" /\ job.at = "asked"
    /\ \/ hbmenu.st = "writing" /\ job' = [job EXCEPT !.at = "send"]
       \/ Fails
    /\ UNCHANGED <<files, dir, held, answer, hbmenu>>

(* send_stream: a chunk, or a read or a write that fails.                  *)
LaunchSend ==
    /\ job.op = "launch" /\ job.at = "send"
    /\ LET sent == job.sent + 1 IN
       \/ job' = [job EXCEPT !.sent = sent,
                             !.at = IF sent = files[Launch(job.path)].size
                                      THEN "confirm" ELSE "send"]
       \/ Fails
    /\ UNCHANGED <<files, dir, held, answer, hbmenu>>

(* converse: hbmenu confirms and takes the arguments, or it does not.      *)
LaunchConfirm ==
    /\ job.op = "launch" /\ job.at = "confirm"
    /\ \/ /\ hbmenu.st = "writing" /\ hbmenu.got = job.sent
          /\ job' = [job EXCEPT !.at = "settle", !.ok = TRUE]
          /\ hbmenu' = [hbmenu EXCEPT !.st = "starting"]
       \/ Fails /\ UNCHANGED hbmenu
    /\ UNCHANGED <<files, dir, held, answer>>

(* Bug: any file at the path counts as hbmenu's.                           *)
LaunchSettle_any_size ==
    /\ job.op = "launch" /\ job.at = "settle"
    /\ job' = [job EXCEPT !.at = IF job.tries >= SettleTries THEN "restore" ELSE "discard"]
    /\ UNCHANGED <<files, dir, held, answer, hbmenu>>

(* Up to SettleTries looks, 100 ms apart, at the file hbmenu wrote.        *)
LaunchSettle ==
    /\ job.op = "launch" /\ job.at = "settle"
    /\ LET p == job.path IN
       job' = IF job.tries >= SettleTries THEN [job EXCEPT !.at = "restore"]
              ELSE IF Reaches(Self(p)) /\ files[Self(p)].size = files[Launch(p)].size
                     THEN [job EXCEPT !.at = "discard"]
              ELSE [job EXCEPT !.tries = @ + 1]
    /\ UNCHANGED <<files, dir, held, answer, hbmenu>>

LaunchDiscard ==
    /\ job.op = "launch" /\ job.at = "discard"
    /\ \/ files' = Without(Launch(job.path))
       \/ files' = files
    /\ End(TRUE)
    /\ UNCHANGED <<dir, held, hbmenu>>

(* The connection is closed; the failed transfer's file is removed.        *)
LaunchRestore ==
    /\ job.op = "launch" /\ job.at = "restore"
    /\ HbmenuPrompt /\ ~job.ok => Self(job.path) \notin held
    /\ Remove(Self(job.path), [job EXCEPT !.at = "putback"])
    /\ UNCHANGED <<dir, held, answer, hbmenu>>

(* A rename that fails is only logged: the original stays at its copy.     *)
LaunchPutback ==
    /\ job.op = "launch" /\ job.at = "putback"
    /\ LET p == job.path IN
       /\ files' = IF CanRename(Launch(p), Self(p)) THEN Moved(Launch(p), Self(p)) ELSE files
       /\ End(job.ok)
    /\ UNCHANGED <<dir, held, hbmenu>>

LaunchPutbackFails ==
    /\ job.op = "launch" /\ job.at = "putback"
    /\ CanRename(Launch(job.path), Self(job.path))
    /\ End(job.ok)
    /\ UNCHANGED <<files, dir, held, hbmenu>>

(* ---- hbmenu ---- *)

HbmenuListens ==
    /\ hbmenu.st = "off"
    /\ hbmenu' = Netloader("listening", "none", "none")
    /\ UNCHANGED <<files, dir, held, job, answer>>

(* It creates the file, at its path (in a directory that is there) or      *)
(* elsewhere, or refuses it.                                               *)
HbmenuAnswers ==
    /\ hbmenu.st = "asked"
    /\ HbmenuPrompt => Connected
    /\ LET n == Self(hbmenu.path) IN
       \/ /\ hbmenu.path \in Nested => dir
          /\ files' = [files EXCEPT ![n] = [ver |-> hbmenu.ver, size |-> 0]]
          /\ held' = {n}
          /\ hbmenu' = [hbmenu EXCEPT !.st = "writing"]
       \/ /\ hbmenu' = [hbmenu EXCEPT !.st = "writing", !.here = FALSE]
          /\ UNCHANGED <<files, held>>
       \/ hbmenu' = HbmenuOff /\ UNCHANGED <<files, held>>
    /\ UNCHANGED <<dir, job, answer>>

HbmenuWrites ==
    /\ hbmenu.st = "writing" /\ Connected /\ hbmenu.got < job.sent
    /\ hbmenu' = [hbmenu EXCEPT !.got = @ + 1]
    /\ files' = IF hbmenu.here
                  THEN [files EXCEPT ![Self(hbmenu.path)].size = @ + 1] ELSE files
    /\ UNCHANGED <<dir, held, job, answer>>

(* The transfer broke, or it starts the NRO: the file is closed.           *)
HbmenuCloses ==
    /\ hbmenu.st = "starting" \/ (hbmenu.st \in {"asked", "writing"} /\ ~Connected)
    /\ hbmenu' = HbmenuOff
    /\ held' = {}
    /\ UNCHANGED <<files, dir, job, answer>>
=============================================================================

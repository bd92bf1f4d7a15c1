-------------------------------- MODULE Files --------------------------------
(***************************************************************************)
(* The handlers of features/files that change the card, and the read that  *)
(* shows it.  Each call on the card is a step: power can go between two.   *)
(* The tool upload_file is in McpServer, what is read in FileReads.        *)
(***************************************************************************)
EXTENDS SdCard

Enters(p) == dir' = (dir \/ p \in Nested)   \* files_mkdirs_for

(* put_files up to fopen(tmp, "wb"), which truncates an older temp file.   *)
PutOpen(p, v) ==
    /\ job = Idle
    /\ Enters(p)
    /\ \/ /\ files' = [files EXCEPT ![Upload(p)] = [ver |-> v, size |-> 0]]
          /\ job' = Job("put", "body", p, v)
          /\ answer' = "none"
       \/ files' = files /\ End(FALSE)        \* 500, fopen failed
    /\ UNCHANGED held

(* A body read and its fwrite; the connection drops (400) or the card is   *)
(* full (507): the temp file goes and the old file stays.                  *)
PutBody ==
    /\ job.op = "put" /\ job.at = "body"
    /\ LET tmp == Upload(job.path) IN
       \/ /\ files[tmp].size < Parts
          /\ files' = [files EXCEPT ![tmp].size = @ + 1]
          /\ UNCHANGED <<job, answer>>
       \/ files' = Without(tmp) /\ End(FALSE)
    /\ UNCHANGED <<dir, held>>

(* Bug: the body's length is not compared before the old file goes.        *)
PutRemove_of_incomplete ==
    /\ job.op = "put" /\ job.at = "body"
    /\ Remove(Self(job.path), [job EXCEPT !.at = "rename"])
    /\ UNCHANGED <<dir, held, answer>>
PutRemove ==
    /\ job.op = "put" /\ job.at = "body"
    /\ Complete(files[Upload(job.path)])
    /\ Remove(Self(job.path), [job EXCEPT !.at = "rename"])
    /\ UNCHANGED <<dir, held, answer>>

PutRename ==
    /\ job.op = "put" /\ job.at = "rename"
    /\ LET p == job.path IN
       \/ /\ CanRename(Upload(p), Self(p))
          /\ files' = Moved(Upload(p), Self(p))
          /\ End(TRUE)
       \/ /\ ~CanRename(Upload(p), Self(p))
          /\ files' = Without(Upload(p))
          /\ End(FALSE)
    /\ UNCHANGED <<dir, held>>

(* The card fails the rename although nothing is in the way: the temp file *)
(* is removed as well.                                                     *)
PutRenameFails ==
    /\ job.op = "put" /\ job.at = "rename"
    /\ CanRename(Upload(job.path), Self(job.path))
    /\ files' = Without(Upload(job.path))
    /\ End(FALSE)
    /\ UNCHANGED <<dir, held>>

files_delete_path(p) ==
    /\ job = Idle
    /\ \/ /\ Reaches(Self(p))
          /\ files' = Without(Self(p))
          /\ End(TRUE)
       \/ files' = files /\ End(FALSE)  \* 404, or remove failed
    /\ UNCHANGED <<dir, held>>

(* The directory branch: emptiness is checked by hand, for the console's   *)
(* rmdir does not report ENOTEMPTY.  A directory that does not open passes *)
(* for empty (faulty), and hbmenu goes on between the look and the rmdir.  *)
Empty == \A n \in Names : n[1] \in Nested => files[n] = NoFile
Rmdir(blind) == [op |-> "rmdir", at |-> "rmdir", faulty |-> blind]

(* Bug: rmdir is trusted to refuse.                                        *)
DeleteLook_none ==
    /\ job = Idle
    /\ dir
    /\ job' = Rmdir(FALSE) /\ answer' = "none"
    /\ UNCHANGED <<files, dir, held>>

DeleteLook ==
    /\ job = Idle
    /\ dir
    /\ \/ ~Empty /\ End(FALSE)
       \/ Empty /\ job' = Rmdir(FALSE) /\ answer' = "none"
       \/ job' = Rmdir(TRUE) /\ answer' = "none"
    /\ UNCHANGED <<files, dir, held>>

(* rmdir fails, or the directory goes and with it what was still there; an *)
(* open file keeps it.                                                     *)
DeleteDirectory ==
    /\ job.op = "rmdir"
    /\ \/ /\ \A n \in held : n[1] \notin Nested
          /\ dir' = FALSE
          /\ files' = [n \in Names |-> IF n[1] \in Nested THEN NoFile ELSE files[n]]
          /\ End(TRUE)
       \/ UNCHANGED <<files, dir>> /\ End(FALSE)
    /\ UNCHANGED held

(* A destination that hbmenu holds cannot be stat()ed and passes the       *)
(* "already exists" check; the rename then fails.                          *)
files_move_path(p, q) ==
    /\ job = Idle
    /\ Reaches(Self(p))
    /\ IF p = q THEN UNCHANGED <<files, dir>> /\ End(TRUE)
       ELSE IF Reaches(Self(q)) THEN UNCHANGED <<files, dir>> /\ End(FALSE)
       ELSE /\ Enters(q)
            /\ \/ /\ CanRename(Self(p), Self(q))
                  /\ files' = Moved(Self(p), Self(q))
                  /\ End(TRUE)
               \/ files' = files /\ End(FALSE)
    /\ UNCHANGED held

(* The handlers: a path that is missing or refused changes nothing, and    *)
(* neither does a source that is not there.                                *)
RefusePath ==
    /\ job = Idle
    /\ End(FALSE)
    /\ UNCHANGED <<files, dir, held>>
delete_files ==
    RefusePath \/ (\E p \in Paths : files_delete_path(p)) \/ DeleteLook \/ DeleteDirectory
post_move == RefusePath \/ \E p, q \in Paths : files_move_path(p, q)
tool_delete_file == delete_files
tool_move_file == post_move

(* A download, a listing or a hash: nothing changes.                       *)
get_files(p) ==
    /\ job = Idle
    /\ End(Reaches(Self(p)))
    /\ UNCHANGED <<files, dir, held>>

=============================================================================

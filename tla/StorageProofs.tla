---------------------------- MODULE StorageProofs ----------------------------
(***************************************************************************)
(* Theorems about the card under the file handlers, the NRO launcher and   *)
(* hbmenu, for any paths, versions, sizes and numbers of tries.            *)
(***************************************************************************)
EXTENDS Storage, TLAPS

-----------------------------------------------------------------------------
(* Names, files and jobs. *)

LEMMA NameFacts ==
    ASSUME NEW p \in Paths
    PROVE  /\ Self(p) \in Names /\ Upload(p) \in Names /\ Launch(p) \in Names
           /\ Self(p) # Upload(p) /\ Self(p) # Launch(p) /\ Upload(p) # Launch(p)
           /\ Self(p)[1] = p /\ Upload(p)[1] = p /\ Launch(p)[1] = p
           /\ \A q \in Paths : /\ Self(p) # Upload(q) /\ Self(p) # Launch(q)
                               /\ Upload(p) # Launch(q)
                               /\ Self(p) = Self(q) => p = q
                               /\ Upload(p) = Upload(q) => p = q
                               /\ Launch(p) = Launch(q) => p = q
BY DEF Self, Upload, Launch, Names

LEMMA FileFacts ==
    /\ \A f \in File : f.ver \in Versions /\ f.size \in 0..Parts /\ f.size \in Nat /\ f # NoFile
    /\ \A v \in Versions, n \in 0..Parts :
          LET f == [ver |-> v, size |-> n] IN f \in File /\ f.ver = v /\ f.size = n
    /\ Parts \in Nat \ {0} /\ 0 \in 0..Parts /\ Parts \in 0..Parts
BY SdCardAssumption DEF File

PutAts == {"body", "rename"}
LaunchAts == {"clear", "aside", "ask", "asked", "send", "confirm", "settle", "discard",
              "restore", "putback"}

LEMMA JobFacts ==
    ASSUME NEW j \in Jobs
    PROVE  /\ j # Idle /\ j.path \in Paths /\ j.ver \in Versions /\ j.sent \in Nat
           /\ j.ok \in BOOLEAN /\ j.tries \in Nat /\ j.faulty \in BOOLEAN
           /\ \/ j.op = "put" /\ j.at \in PutAts
              \/ j.op = "launch" /\ j.at \in LaunchAts
BY DEF Jobs, Idle, PutAts, LaunchAts

LEMMA IdleFacts == Idle.op = "idle" /\ Idle \notin Jobs
BY DEF Idle, Jobs

LEMMA RmdirFacts ==
    /\ \A j \in Rmdirs : /\ j.op = "rmdir" /\ j.faulty \in BOOLEAN
                          /\ j # Idle /\ j \notin Jobs
    /\ \A blind \in BOOLEAN : Rmdir(blind) \in Rmdirs /\ Rmdir(blind).faulty = blind
BY DEF Rmdirs, Rmdir, Idle, Jobs

LEMMA JobAt ==
    ASSUME NEW j \in Jobs, NEW a,
           (j.op = "put" /\ a \in PutAts) \/ (j.op = "launch" /\ a \in LaunchAts)
    PROVE  /\ [j EXCEPT !.at = a] \in Jobs
           /\ LET k == [j EXCEPT !.at = a] IN
              /\ k.op = j.op /\ k.at = a /\ k.path = j.path /\ k.ver = j.ver /\ k.sent = j.sent
              /\ k.ok = j.ok /\ k.tries = j.tries /\ k.faulty = j.faulty
BY DEF Jobs, PutAts, LaunchAts

LEMMA JobFaulty ==
    ASSUME NEW j \in Jobs
    PROVE  /\ [j EXCEPT !.faulty = TRUE] \in Jobs
           /\ LET k == [j EXCEPT !.faulty = TRUE] IN
              /\ k.op = j.op /\ k.at = j.at /\ k.path = j.path /\ k.ver = j.ver /\ k.sent = j.sent
              /\ k.ok = j.ok /\ k.tries = j.tries /\ k.faulty
BY DEF Jobs

LEMMA NewJob ==
    ASSUME NEW op, NEW a, NEW p \in Paths, NEW v \in Versions,
           (op = "put" /\ a \in PutAts) \/ (op = "launch" /\ a \in LaunchAts)
    PROVE  /\ Job(op, a, p, v) \in Jobs
           /\ LET k == Job(op, a, p, v) IN
              /\ k.op = op /\ k.at = a /\ k.path = p /\ k.ver = v /\ k.sent = 0
              /\ ~k.ok /\ k.tries = 0 /\ ~k.faulty
BY DEF Jobs, Job, PutAts, LaunchAts

LEMMA NetloaderFacts ==
    /\ HbmenuOff.st = "off" /\ Netloader("listening", "none", "none").st = "listening"
    /\ \A h \in Netloaders : /\ h.st \in {"asked", "writing", "starting"}
                             /\ h.path \in Paths /\ h.ver \in Versions /\ h.got \in Nat
                             /\ h.here \in BOOLEAN
BY DEF HbmenuOff, Netloader, Netloaders

Card == [Names -> File \cup {NoFile}]

LEMMA CardSet ==
    ASSUME NEW f \in Card, NEW n \in Names, NEW x \in File \cup {NoFile}
    PROVE  /\ [f EXCEPT ![n] = x] \in Card /\ [f EXCEPT ![n] = x][n] = x
           /\ \A m \in Names : m # n => [f EXCEPT ![n] = x][m] = f[m]
BY DEF Card

LEMMA WithoutFacts ==
    ASSUME files \in Card, NEW n \in Names
    PROVE  /\ Without(n) \in Card /\ Without(n)[n] = NoFile
           /\ \A m \in Names : m # n => Without(n)[m] = files[m]
BY CardSet DEF Without

LEMMA MovedFacts ==
    ASSUME files \in Card, NEW a \in Names, NEW b \in Names, a # b
    PROVE  /\ Moved(a, b) \in Card /\ Moved(a, b)[b] = files[a] /\ Moved(a, b)[a] = NoFile
           /\ \A m \in Names : m # a /\ m # b => Moved(a, b)[m] = files[m]
<1>1. files[a] \in File \cup {NoFile}
  BY DEF Card
<1>2. QED
  BY <1>1 DEF Moved, Card

\* remove(): the name is gone, or as it was because it is held or the card failed.
LEMMA RemoveFacts ==
    ASSUME files \in Card, NEW n \in Names, NEW next \in Jobs, Remove(n, next)
    PROVE  /\ files' \in Card /\ files'[n] \in {files[n], NoFile}
           /\ \A m \in Names : m # n => files'[m] = files[m]
           /\ job' \in Jobs /\ job'.op = next.op /\ job'.at = next.at /\ job'.path = next.path
           /\ job'.ver = next.ver /\ job'.sent = next.sent /\ job'.ok = next.ok
           /\ job'.tries = next.tries
           /\ \/ job'.faulty = next.faulty /\ (files'[n] # NoFile => n \in held)
              \/ job'.faulty /\ files' = files /\ files[n] # NoFile
<1>1. CASE files' = (IF Reaches(n) THEN Without(n) ELSE files) /\ job' = next
  BY <1>1, WithoutFacts DEF Reaches
<1>2. CASE Reaches(n) /\ files' = files /\ job' = [next EXCEPT !.faulty = TRUE]
  BY <1>2, JobFaulty DEF Reaches
<1>3. QED
  BY <1>1, <1>2 DEF Remove

LEMMA Types ==
    ASSUME TypeOK
    PROVE  /\ files \in Card /\ dir \in BOOLEAN /\ held \subseteq Names
           /\ job \in Jobs \cup Rmdirs \cup {Idle} /\ answer \in {"none", "ok", "error"}
           /\ hbmenu \in Netloaders \cup {HbmenuOff, Netloader("listening", "none", "none")}
           /\ \A n \in Names : files[n] \in File \cup {NoFile}
           /\ (job.op = "put" \/ job.op = "launch" => job \in Jobs)
           /\ (job.op = "rmdir" <=> job \in Rmdirs) /\ (job.op = "idle" <=> job = Idle)
           /\ (Busy => hbmenu \in Netloaders)
<1>1. /\ job.op = "put" \/ job.op = "launch" => job \in Jobs
      /\ (job.op = "rmdir" <=> job \in Rmdirs) /\ (job.op = "idle" <=> job = Idle)
  BY IdleFacts, JobFacts, RmdirFacts DEF TypeOK
<1>2. Busy => hbmenu \in Netloaders
  BY NetloaderFacts DEF TypeOK, Busy
<1>3. QED
  BY <1>1, <1>2 DEF TypeOK, Card

\* The part of the invariant that needs nothing of hbmenu's pace.
Base == TypeOK /\ HeldRight /\ UploadRight /\ LaunchRight /\ NoOrphans

\* Steps of the file handlers: what is left to show.
LEMMA FilesBase ==
    ASSUME Base, UNCHANGED <<held, hbmenu>>, files' \in Card, dir' \in BOOLEAN,
           answer' \in {"none", "ok", "error"}, fault' \in BOOLEAN, kept' \subseteq Paths,
           job' = Idle \/ (job' \in Jobs /\ job'.op = "put") \/ job' \in Rmdirs, UploadRight',
           \A n \in Names : n[1] \in Nested /\ files'[n] # NoFile => dir'
    PROVE  Base'
<1>1. TypeOK'
  BY DEF Base, TypeOK, Card
<1>2. HeldRight'
  BY DEF Base, HeldRight
<1>3. LaunchRight'
  BY IdleFacts, RmdirFacts DEF LaunchRight
<1>4. NoOrphans'
  BY DEF NoOrphans
<1>5. QED
  BY <1>1, <1>2, <1>3, <1>4 DEF Base

\* dir as files_mkdirs_for leaves it.
LEMMA EntersFacts ==
    ASSUME Base, NEW p \in Paths, Enters(p)
    PROVE  dir' \in BOOLEAN /\ (dir => dir') /\ (p \in Nested => dir')
<1>1. dir' = (dir \/ p \in Nested)
  BY DEF Enters
<1>2. (dir \/ p \in Nested) \in BOOLEAN
  OBVIOUS
<1>3. QED
  BY <1>1, <1>2

LEMMA EndFacts ==
    ASSUME NEW ok, End(ok)
    PROVE  job' = Idle /\ answer' \in {"ok", "error"} /\ answer' \in {"none", "ok", "error"}
BY DEF End

LEMMA IdleUpload == job' = Idle => UploadRight'
BY IdleFacts DEF UploadRight

LEMMA PutOpenBase ==
    ASSUME Base, NEW p \in Paths, NEW v \in Versions, PutOpen(p, v), UNCHANGED hbmenu,
           fault' \in BOOLEAN, kept' \subseteq Paths
    PROVE  Base'
<1>1. files \in Card /\ UNCHANGED held /\ Enters(p)
  BY Types DEF Base, PutOpen
<1>2. dir' \in BOOLEAN /\ (dir => dir') /\ (p \in Nested => dir')
  BY <1>1, EntersFacts
<1>3. \A n \in Names : n[1] \in Nested /\ files[n] # NoFile => dir'
  BY <1>2 DEF Base, NoOrphans
<1>4. CASE files' = files /\ End(FALSE)
  BY <1>1, <1>2, <1>3, <1>4, EndFacts, IdleUpload, FilesBase
<1>5. CASE /\ files' = [files EXCEPT ![Upload(p)] = [ver |-> v, size |-> 0]]
           /\ job' = Job("put", "body", p, v) /\ answer' = "none"
  <2> DEFINE x == [ver |-> v, size |-> 0]
  <2>1. x \in File /\ x.ver = v /\ x # NoFile
    BY FileFacts
  <2> HIDE DEF x
  <2>2. Upload(p) \in Names /\ Upload(p)[1] = p
    BY NameFacts
  <2>3. /\ files' \in Card /\ files'[Upload(p)] = x
        /\ \A m \in Names : m # Upload(p) => files'[m] = files[m]
    <3>1. files' = [files EXCEPT ![Upload(p)] = x]
      BY <1>5 DEF x
    <3>2. QED
      BY <1>1, <2>1, <2>2, <3>1 DEF Card
  <2>4. "body" \in PutAts
    BY DEF PutAts
  <2>5. job' \in Jobs /\ job'.op = "put" /\ job'.at = "body" /\ job'.path = p /\ job'.ver = v
    BY <1>5, <2>4, NewJob
  <2>6. UploadRight'
    BY <2>1, <2>3, <2>5 DEF UploadRight
  <2>7. \A n \in Names : n[1] \in Nested /\ files'[n] # NoFile => dir'
    BY <1>2, <1>3, <2>2, <2>3
  <2>8. QED
    BY <1>1, <1>2, <1>5, <2>3, <2>5, <2>6, <2>7, FilesBase
<1>6. QED
  BY <1>4, <1>5 DEF PutOpen

LEMMA PutBodyBase ==
    ASSUME Base, PutBody, UNCHANGED hbmenu, fault' \in BOOLEAN, kept' \subseteq Paths
    PROVE  Base'
<1>1. /\ files \in Card /\ UNCHANGED <<dir, held>> /\ dir \in BOOLEAN /\ job.op = "put"
      /\ job.at = "body" /\ job \in Jobs /\ answer \in {"none", "ok", "error"}
  BY Types DEF Base, PutBody
<1> DEFINE t == Upload(job.path)
<1>2. t \in Names /\ files[t] \in File /\ files[t].ver = job.ver /\ files[t] # NoFile
  BY <1>1, JobFacts, NameFacts DEF Base, UploadRight, Card
<1>3. \A n \in Names : n[1] \in Nested /\ files[n] # NoFile => dir
  BY DEF Base, NoOrphans
<1>4. CASE files' = Without(t) /\ End(FALSE)
  <2>1. /\ files' \in Card /\ files'[t] = NoFile
        /\ \A m \in Names : m # t => files'[m] = files[m]
    BY <1>1, <1>2, <1>4, WithoutFacts
  <2>2. QED
    BY <1>1, <1>3, <1>4, <2>1, EndFacts, IdleUpload, FilesBase
<1>5. CASE /\ files[t].size < Parts
           /\ files' = [files EXCEPT ![t].size = @ + 1]
           /\ UNCHANGED <<job, answer>>
  <2> DEFINE x == [files[t] EXCEPT !.size = @ + 1]
  <2>1. x \in File /\ x.ver = job.ver
    BY <1>2, <1>5, FileFacts DEF File
  <2>2. files' = [files EXCEPT ![t] = x]
    BY <1>5
  <2> HIDE DEF x, t
  <2>3. /\ files' \in Card /\ files'[t] = x
        /\ \A m \in Names : m # t => files'[m] = files[m]
    BY <1>1, <1>2, <2>1, <2>2 DEF Card
  <2>4. x # NoFile
    BY <2>1, FileFacts
  <2>5. UploadRight'
    BY <1>1, <1>5, <2>1, <2>3, <2>4 DEF UploadRight, t
  <2>6. \A n \in Names : n[1] \in Nested /\ files'[n] # NoFile => dir'
    BY <1>1, <1>2, <1>3, <2>3
  <2>7. QED
    BY <1>1, <1>5, <2>3, <2>5, <2>6, FilesBase
<1>6. QED
  BY <1>4, <1>5 DEF PutBody

LEMMA PutRemoveBase ==
    ASSUME Base, PutRemove, UNCHANGED hbmenu, fault' \in BOOLEAN, kept' \subseteq Paths
    PROVE  Base'
<1>1. /\ files \in Card /\ UNCHANGED <<dir, held, answer>> /\ dir \in BOOLEAN /\ job.op = "put"
      /\ job \in Jobs /\ answer \in {"none", "ok", "error"}
      /\ Complete(files[Upload(job.path)])
  BY Types DEF Base, PutRemove
<1> DEFINE p == job.path
           next == [job EXCEPT !.at = "rename"]
<1>2. /\ p \in Paths /\ Self(p) \in Names /\ Upload(p) \in Names /\ Self(p) # Upload(p)
      /\ "rename" \in PutAts
  BY <1>1, JobFacts, NameFacts DEF PutAts
<1>3. next \in Jobs /\ next.op = "put" /\ next.path = p /\ next.ver = job.ver
  BY <1>1, <1>2, JobAt
<1>4. Remove(Self(p), next)
  BY DEF PutRemove
<1> HIDE DEF p, next
<1>5. /\ files' \in Card /\ files'[Self(p)] \in {files[Self(p)], NoFile}
      /\ \A m \in Names : m # Self(p) => files'[m] = files[m]
      /\ job' \in Jobs /\ job'.op = "put" /\ job'.path = p /\ job'.ver = job.ver
  BY <1>1, <1>2, <1>3, <1>4, RemoveFacts
<1>6. UploadRight'
  BY <1>1, <1>2, <1>5 DEF Base, UploadRight, Complete, p
<1>7. \A n \in Names : n[1] \in Nested /\ files'[n] # NoFile => dir'
  BY <1>1, <1>2, <1>5 DEF Base, NoOrphans
<1>8. QED
  BY <1>1, <1>5, <1>6, <1>7, FilesBase

LEMMA PutRenameBase ==
    ASSUME Base, PutRename \/ PutRenameFails, UNCHANGED hbmenu, fault' \in BOOLEAN,
           kept' \subseteq Paths
    PROVE  Base'
<1>1. /\ files \in Card /\ UNCHANGED <<dir, held>> /\ dir \in BOOLEAN /\ job \in Jobs
  BY Types DEF Base, PutRename, PutRenameFails
<1> DEFINE p == job.path
<1>2. /\ p \in Paths /\ Self(p) \in Names /\ Upload(p) \in Names /\ Self(p) # Upload(p)
      /\ Self(p)[1] = p /\ Upload(p)[1] = p
  BY <1>1, JobFacts, NameFacts
<1>3. \A n \in Names : n[1] \in Nested /\ files[n] # NoFile => dir
  BY DEF Base, NoOrphans
<1>4. job' = Idle /\ answer' \in {"none", "ok", "error"} /\ UploadRight'
  BY EndFacts, IdleUpload DEF PutRename, PutRenameFails
<1>5. CASE files' = Without(Upload(p))
  <2>1. /\ files' \in Card /\ files'[Upload(p)] = NoFile
        /\ \A m \in Names : m # Upload(p) => files'[m] = files[m]
    BY <1>1, <1>2, <1>5, WithoutFacts
  <2>2. QED
    BY <1>1, <1>3, <1>4, <2>1, FilesBase
<1>6. CASE CanRename(Upload(p), Self(p)) /\ files' = Moved(Upload(p), Self(p))
  <2>1. /\ files' \in Card /\ files'[Self(p)] = files[Upload(p)] /\ files'[Upload(p)] = NoFile
        /\ \A m \in Names : m # Upload(p) /\ m # Self(p) => files'[m] = files[m]
    BY <1>1, <1>2, <1>6, MovedFacts
  <2>2. files[Upload(p)] # NoFile
    BY <1>6 DEF CanRename, Reaches
  <2>3. \A n \in Names : n[1] \in Nested /\ files'[n] # NoFile => dir'
    BY <1>1, <1>2, <1>3, <2>1, <2>2
  <2>4. QED
    BY <1>1, <1>4, <2>1, <2>3, FilesBase
<1>7. QED
  BY <1>5, <1>6 DEF PutRename, PutRenameFails

\* The removal of a directory: the look and the rmdir.
LEMMA DirectoryBase ==
    ASSUME Base, DeleteLook \/ DeleteDirectory, UNCHANGED hbmenu, fault' \in BOOLEAN,
           kept' \subseteq Paths
    PROVE  Base'
<1>1. /\ files \in Card /\ dir \in BOOLEAN /\ answer \in {"none", "ok", "error"}
      /\ \A n \in Names : n[1] \in Nested /\ files[n] # NoFile => dir
  BY Types DEF Base, NoOrphans
<1>2. /\ UNCHANGED held /\ answer' \in {"none", "ok", "error"}
      /\ job' = Idle \/ job' \in Rmdirs
  BY EndFacts, RmdirFacts DEF DeleteLook, DeleteDirectory
<1>3. UploadRight'
  BY <1>2, IdleFacts, RmdirFacts DEF UploadRight
<1>4. CASE UNCHANGED <<files, dir>>
  BY <1>1, <1>2, <1>3, <1>4, FilesBase
<1>5. CASE /\ dir' = FALSE
           /\ files' = [n \in Names |-> IF n[1] \in Nested THEN NoFile ELSE files[n]]
  <2>1. files' \in Card /\ \A n \in Names : n[1] \in Nested => files'[n] = NoFile
    BY <1>1, <1>5 DEF Card
  <2>2. FALSE \in BOOLEAN
    OBVIOUS
  <2>3. QED
    BY <1>2, <1>3, <1>5, <2>1, <2>2, FilesBase
<1>6. QED
  BY <1>4, <1>5 DEF DeleteLook, DeleteDirectory

\* Requests that are one step.
Whole ==
    \/ RefusePath \/ (\E p \in Paths : files_delete_path(p)) \/ post_move
    \/ \E p \in Paths : get_files(p)
LEMMA WholeBase ==
    ASSUME Base, Whole, UNCHANGED hbmenu, fault' \in BOOLEAN, kept' \subseteq Paths
    PROVE  Base'
<1>1. /\ files \in Card /\ dir \in BOOLEAN /\ job = Idle
  BY Types DEF Base, Whole, post_move, get_files, RefusePath, files_delete_path, files_move_path
<1>2. \A n \in Names : n[1] \in Nested /\ files[n] # NoFile => dir
  BY DEF Base, NoOrphans
<1>3. UNCHANGED held /\ job' = Idle /\ answer' \in {"none", "ok", "error"} /\ UploadRight'
  BY <1>1, EndFacts, IdleUpload
     DEF Whole, post_move, get_files, RefusePath, files_delete_path, files_move_path
<1>4. CASE UNCHANGED <<files, dir>>
  BY <1>1, <1>2, <1>3, <1>4, FilesBase
<1>5. CASE \E p \in Paths : files' = Without(Self(p)) /\ UNCHANGED dir
  <2>1. PICK p \in Paths : files' = Without(Self(p)) /\ UNCHANGED dir
    BY <1>5
  <2>2. Self(p) \in Names
    BY NameFacts
  <2>3. /\ files' \in Card /\ files'[Self(p)] = NoFile
        /\ \A m \in Names : m # Self(p) => files'[m] = files[m]
    BY <1>1, <2>1, <2>2, WithoutFacts
  <2>4. QED
    BY <1>1, <1>2, <1>3, <2>1, <2>3, FilesBase
<1>7. CASE \E q \in Paths : Enters(q) /\ UNCHANGED files
  <2>1. PICK q \in Paths : Enters(q) /\ UNCHANGED files
    BY <1>7
  <2>2. dir' \in BOOLEAN /\ (dir => dir')
    BY <2>1, EntersFacts
  <2>3. QED
    BY <1>1, <1>2, <1>3, <2>1, <2>2, FilesBase
<1>8. CASE \E p, q \in Paths : p # q /\ Enters(q) /\ files' = Moved(Self(p), Self(q))
  <2>1. PICK p \in Paths, q \in Paths : p # q /\ Enters(q) /\ files' = Moved(Self(p), Self(q))
    BY <1>8
  <2>2. dir' \in BOOLEAN /\ (dir => dir') /\ (q \in Nested => dir')
    BY <2>1, EntersFacts
  <2>3. Self(p) \in Names /\ Self(q) \in Names /\ Self(p) # Self(q) /\ Self(q)[1] = q
    BY <2>1, NameFacts
  <2>4. /\ files' \in Card /\ files'[Self(p)] = NoFile
        /\ \A m \in Names : m # Self(p) /\ m # Self(q) => files'[m] = files[m]
    BY <1>1, <2>1, <2>3, MovedFacts
  <2>5. \A n \in Names : n[1] \in Nested /\ files'[n] # NoFile => dir'
    BY <1>2, <2>2, <2>3, <2>4
  <2>6. QED
    BY <1>1, <1>3, <2>2, <2>4, <2>5, FilesBase
<1>9. QED
  BY <1>4, <1>5, <1>7, <1>8
     DEF Whole, post_move, get_files, RefusePath, files_delete_path, files_move_path

\* Steps of the launcher and of hbmenu: what is left to show.
Loaders == Netloaders \cup {HbmenuOff, Netloader("listening", "none", "none")}
LEMMA LauncherBase ==
    ASSUME Base, files' \in Card, UNCHANGED dir, held' \subseteq Names,
           answer' \in {"none", "ok", "error"}, fault' \in BOOLEAN, kept' \subseteq Paths,
           job' \in Jobs \cup Rmdirs \cup {Idle}, hbmenu' \in Loaders,
           HeldRight', UploadRight', LaunchRight',
           \A n \in Names : n[1] \in Nested /\ files'[n] # NoFile => dir
    PROVE  Base'
<1>1. TypeOK'
  BY DEF Base, TypeOK, Card, Loaders
<1>2. NoOrphans'
  BY DEF NoOrphans
<1>3. QED
  BY <1>1, <1>2 DEF Base

\* What is known while a launch runs.
LEMMA LaunchKnown ==
    ASSUME Base, job.op = "launch"
    PROVE  /\ job \in Jobs /\ job.at \in LaunchAts /\ job.path \in Paths /\ job.ver \in Versions
           /\ job.sent \in Nat /\ job.ok \in BOOLEAN
           /\ Self(job.path) \in Names /\ Launch(job.path) \in Names
           /\ Self(job.path) # Launch(job.path)
           /\ Self(job.path)[1] = job.path /\ Launch(job.path)[1] = job.path
           /\ files \in Card /\ hbmenu \in Loaders /\ held \subseteq Names
           /\ answer \in {"none", "ok", "error"} /\ dir \in BOOLEAN
           /\ files[Self(job.path)] \in File \cup {NoFile}
           /\ files[Launch(job.path)] \in File \cup {NoFile}
           /\ \A n \in Names : n[1] \in Nested /\ files[n] # NoFile => dir
<1>1. job \in Jobs /\ files \in Card
  BY Types DEF Base
<1>2. job.path \in Paths
  BY <1>1, JobFacts
<1>3. QED
  BY <1>1, <1>2, JobFacts, NameFacts, Types DEF Base, NoOrphans, Loaders

LEMMA LaunchUpload == job'.op = "launch" \/ job' = Idle => UploadRight'
BY IdleFacts DEF UploadRight

LEMMA IdleLaunch == job' = Idle => LaunchRight'
BY IdleFacts DEF LaunchRight

LEMMA SameHeld == HeldRight /\ UNCHANGED <<held, hbmenu>> => HeldRight'
BY DEF HeldRight

LEMMA LaunchConnectBase ==
    ASSUME Base, NEW p \in Paths, LaunchConnect(p), fault' \in BOOLEAN, kept' \subseteq Paths
    PROVE  Base'
<1>1. /\ UNCHANGED <<files, dir, held, hbmenu>> /\ files \in Card /\ held \subseteq Names
      /\ hbmenu \in Loaders /\ HeldRight'
      /\ \A n \in Names : n[1] \in Nested /\ files[n] # NoFile => dir
  BY Types, SameHeld DEF LaunchConnect, Base, NoOrphans, Loaders
<1>2. CASE End(FALSE)
  BY <1>1, <1>2, EndFacts, IdleLaunch, LaunchUpload, LauncherBase
<1>3. CASE /\ p \in Nros /\ Reaches(Self(p)) /\ files[Self(p)].size > 0
           /\ hbmenu.st = "listening"
           /\ job' = Job("launch", "clear", p, files[Self(p)].ver) /\ answer' = "none"
  <2>1. files[Self(p)] \in File
    BY <1>1, <1>3, NameFacts DEF Reaches, Card
  <2>2. files[Self(p)].ver \in Versions /\ "clear" \in LaunchAts
    BY <2>1, FileFacts DEF LaunchAts
  <2>3. /\ job' \in Jobs /\ job'.op = "launch" /\ job'.at = "clear" /\ job'.path = p
        /\ job'.ver = files[Self(p)].ver /\ job'.sent = 0 /\ ~job'.ok
    BY <1>3, <2>2, NewJob
  <2>4. LaunchRight'
    BY <1>1, <1>3, <2>1, <2>3 DEF LaunchRight, Original, Reaches, Busy, Connected
  <2>5. QED
    BY <1>1, <1>3, <2>3, <2>4, LaunchUpload, LauncherBase
<1>4. QED
  BY <1>2, <1>3 DEF LaunchConnect

LEMMA LaunchClearBase ==
    ASSUME Base, LaunchClear, fault' \in BOOLEAN, kept' \subseteq Paths
    PROVE  Base'
<1> DEFINE p == job.path
           next == [job EXCEPT !.at = "aside"]
<1>1. /\ UNCHANGED <<dir, held, answer, hbmenu>> /\ job.op = "launch" /\ job.at = "clear"
      /\ Remove(Launch(p), next)
  BY DEF LaunchClear
<1>2. /\ job \in Jobs /\ files \in Card /\ Self(p) \in Names /\ Launch(p) \in Names
      /\ Self(p) # Launch(p) /\ hbmenu \in Loaders /\ held \subseteq Names
      /\ answer \in {"none", "ok", "error"}
      /\ \A n \in Names : n[1] \in Nested /\ files[n] # NoFile => dir
  BY <1>1, LaunchKnown
<1>3. "aside" \in LaunchAts
  BY DEF LaunchAts
<1>4. /\ next \in Jobs /\ next.op = "launch" /\ next.at = "aside" /\ next.path = p
      /\ next.ver = job.ver /\ next.sent = job.sent /\ next.ok = job.ok
  BY <1>1, <1>2, <1>3, JobAt
<1> HIDE DEF next, p
<1>5. /\ files' \in Card /\ files'[Launch(p)] \in {files[Launch(p)], NoFile}
      /\ \A m \in Names : m # Launch(p) => files'[m] = files[m]
      /\ job' \in Jobs /\ job'.op = "launch" /\ job'.at = "aside" /\ job'.path = p
      /\ job'.ver = job.ver /\ job'.sent = job.sent /\ job'.ok = job.ok
  BY <1>1, <1>2, <1>4, RemoveFacts
<1>6. LaunchRight'
  BY <1>1, <1>2, <1>5 DEF Base, LaunchRight, Original, Busy, Connected, p
<1>7. \A n \in Names : n[1] \in Nested /\ files'[n] # NoFile => dir
  BY <1>2, <1>5
<1>8. HeldRight'
  BY <1>1, SameHeld DEF Base
<1>9. QED
  BY <1>1, <1>2, <1>5, <1>6, <1>7, <1>8, LaunchUpload, LauncherBase

LEMMA LaunchAsideBase ==
    ASSUME Base, LaunchAside, fault' \in BOOLEAN, kept' \subseteq Paths
    PROVE  Base'
<1> DEFINE p == job.path
           next == [job EXCEPT !.at = "ask"]
<1>1. /\ UNCHANGED <<dir, held, hbmenu>> /\ job.op = "launch" /\ job.at = "aside"
  BY DEF LaunchAside
<1>2. /\ job \in Jobs /\ files \in Card /\ Self(p) \in Names /\ Launch(p) \in Names
      /\ Self(p) # Launch(p) /\ hbmenu \in Loaders /\ held \subseteq Names
      /\ Launch(p)[1] = p /\ Self(p)[1] = p
      /\ answer \in {"none", "ok", "error"}
      /\ \A n \in Names : n[1] \in Nested /\ files[n] # NoFile => dir
  BY <1>1, LaunchKnown
<1>3. HeldRight'
  BY <1>1, SameHeld DEF Base
<1>4. CASE files' = files /\ End(FALSE)
  BY <1>1, <1>2, <1>3, <1>4, EndFacts, IdleLaunch, LaunchUpload, LauncherBase
<1>5. CASE /\ CanRename(Self(p), Launch(p)) /\ files' = Moved(Self(p), Launch(p))
           /\ job' = next /\ UNCHANGED answer
  <2>1. "ask" \in LaunchAts
    BY DEF LaunchAts
  <2>2. /\ job' \in Jobs /\ job'.op = "launch" /\ job'.at = "ask" /\ job'.path = p
        /\ job'.ver = job.ver /\ job'.sent = job.sent /\ job'.ok = job.ok
    BY <1>1, <1>2, <1>5, <2>1, JobAt
  <2> HIDE DEF next, p
  <2>3. /\ files' \in Card /\ files'[Launch(p)] = files[Self(p)] /\ files'[Self(p)] = NoFile
        /\ \A m \in Names : m # Self(p) /\ m # Launch(p) => files'[m] = files[m]
    BY <1>2, <1>5, MovedFacts
  <2>4. LaunchRight'
    BY <1>1, <1>2, <2>2, <2>3 DEF Base, LaunchRight, Original, Busy, Connected, p
  <2>5. \A n \in Names : n[1] \in Nested /\ files'[n] # NoFile => dir
    BY <1>2, <1>5, <2>3 DEF CanRename, Reaches
  <2>6. QED
    BY <1>1, <1>2, <1>3, <1>5, <2>2, <2>3, <2>4, <2>5, LaunchUpload, LauncherBase
<1>6. QED
  BY <1>4, <1>5 DEF LaunchAside

LEMMA FailsFacts ==
    ASSUME Base, job.op = "launch", Fails
    PROVE  /\ job' \in Jobs /\ job'.op = "launch" /\ job'.at = "restore" /\ job'.path = job.path
           /\ job'.ver = job.ver /\ job'.sent = job.sent /\ job'.ok = job.ok
           /\ job'.faulty = job.faulty
<1>1. job \in Jobs /\ "restore" \in LaunchAts
  BY LaunchKnown DEF LaunchAts
<1>2. QED
  BY <1>1, JobAt DEF Fails

\* The transfer breaks at any point after the NRO was moved aside.
LEMMA FailsBase ==
    ASSUME Base, job.op = "launch", job.at \notin {"clear", "aside"}, Fails,
           UNCHANGED <<files, dir, held, answer, hbmenu>>, fault' \in BOOLEAN, kept' \subseteq Paths
    PROVE  Base'
<1>1. /\ job' \in Jobs /\ job'.op = "launch" /\ job'.at = "restore" /\ job'.path = job.path
      /\ job'.ver = job.ver /\ job'.sent = job.sent /\ job'.ok = job.ok
  BY FailsFacts
<1>2. LaunchRight'
  BY <1>1 DEF Base, LaunchRight, Original, Busy, Connected
<1>3. HeldRight' /\ UploadRight'
  BY <1>1, SameHeld, LaunchUpload DEF Base
<1>4. QED
  BY <1>1, <1>2, <1>3, LaunchKnown, LauncherBase

LEMMA LaunchAskBase ==
    ASSUME Base, LaunchAsk, fault' \in BOOLEAN, kept' \subseteq Paths
    PROVE  Base'
<1>1. UNCHANGED <<files, dir, held, answer>> /\ job.op = "launch" /\ job.at = "ask"
  BY DEF LaunchAsk
<1>2. CASE Fails /\ UNCHANGED hbmenu
  BY <1>1, <1>2, FailsBase
<1>3. CASE /\ hbmenu.st = "listening"
           /\ hbmenu' = Netloader("asked", job.path, job.ver)
           /\ job' = [job EXCEPT !.at = "asked"]
  <2>1. job \in Jobs /\ job.path \in Paths /\ job.ver \in Versions /\ "asked" \in LaunchAts
    BY <1>1, LaunchKnown DEF LaunchAts
  <2>2. /\ job' \in Jobs /\ job'.op = "launch" /\ job'.at = "asked" /\ job'.path = job.path
        /\ job'.ver = job.ver /\ job'.sent = job.sent /\ job'.ok = job.ok
    BY <1>1, <1>3, <2>1, JobAt
  <2>3. /\ hbmenu' \in Loaders /\ hbmenu'.st = "asked" /\ hbmenu'.path = job.path
        /\ hbmenu'.ver = job.ver /\ hbmenu'.got = 0 /\ hbmenu'.here
    BY <1>3, <2>1 DEF Netloader, Netloaders, Loaders
  <2>4. HeldRight'
    BY <1>1, <1>3, <2>3 DEF HeldRight, Base
  <2>5. LaunchRight'
    BY <1>1, <2>2, <2>3 DEF Base, LaunchRight, Original, Busy, Connected
  <2>6. QED
    BY <1>1, <2>2, <2>3, <2>4, <2>5, LaunchUpload, LaunchKnown, LauncherBase
<1>4. QED
  BY <1>2, <1>3 DEF LaunchAsk

LEMMA LaunchAnsweredBase ==
    ASSUME Base, LaunchAnswered, fault' \in BOOLEAN, kept' \subseteq Paths
    PROVE  Base'
<1>1. UNCHANGED <<files, dir, held, answer, hbmenu>> /\ job.op = "launch" /\ job.at = "asked"
  BY DEF LaunchAnswered
<1>2. CASE Fails
  BY <1>1, <1>2, FailsBase
<1>3. CASE hbmenu.st = "writing" /\ job' = [job EXCEPT !.at = "send"]
  <2>1. job \in Jobs /\ "send" \in LaunchAts
    BY <1>1, LaunchKnown DEF LaunchAts
  <2>2. /\ job' \in Jobs /\ job'.op = "launch" /\ job'.at = "send" /\ job'.path = job.path
        /\ job'.ver = job.ver /\ job'.sent = job.sent /\ job'.ok = job.ok
    BY <1>1, <1>3, <2>1, JobAt
  <2>3. LaunchRight'
    BY <1>1, <1>3, <2>2 DEF Base, LaunchRight, Original, Busy, Connected
  <2>4. HeldRight' /\ UploadRight'
    BY <1>1, <2>2, SameHeld, LaunchUpload DEF Base
  <2>5. QED
    BY <1>1, <2>2, <2>3, <2>4, LaunchKnown, LauncherBase
<1>4. QED
  BY <1>2, <1>3 DEF LaunchAnswered

LEMMA LaunchSendBase ==
    ASSUME Base, LaunchSend, fault' \in BOOLEAN, kept' \subseteq Paths
    PROVE  Base'
<1>1. UNCHANGED <<files, dir, held, answer, hbmenu>> /\ job.op = "launch" /\ job.at = "send"
  BY DEF LaunchSend
<1>2. CASE Fails
  BY <1>1, <1>2, FailsBase
<1> DEFINE sent == job.sent + 1
           at == IF sent = files[Launch(job.path)].size THEN "confirm" ELSE "send"
<1>3. CASE job' = [job EXCEPT !.sent = sent, !.at = at]
  <2>1. job \in Jobs /\ sent \in Nat /\ at \in LaunchAts
    BY <1>1, LaunchKnown DEF LaunchAts
  <2>2. at \in {"confirm", "send"} /\ (at = "confirm" <=> sent = files[Launch(job.path)].size)
    OBVIOUS
  <2> HIDE DEF at
  <2>3. /\ job' \in Jobs /\ job'.op = "launch" /\ job'.at = at /\ job'.path = job.path
        /\ job'.ver = job.ver /\ job'.sent = sent /\ job'.ok = job.ok
    BY <1>1, <1>3, <2>1 DEF Jobs, LaunchAts
  <2>4. /\ files[Launch(job.path)] \in File /\ files[Launch(job.path)].size \in Nat
        /\ job.sent \in Nat
    BY <1>1, LaunchKnown, FileFacts DEF Base, LaunchRight, Original
  <2>5. LaunchRight'
    <3>1. job.sent < files[Launch(job.path)].size /\ hbmenu.st = "writing" /\ hbmenu.got <= job.sent
      BY <1>1 DEF Base, LaunchRight, Connected
    <3>2. hbmenu.got \in Nat
      BY <3>1, NetloaderFacts, Types DEF Base, Busy
    <3>3. /\ at = "send" => sent < files[Launch(job.path)].size
          /\ hbmenu.got <= sent
      BY <2>2, <2>4, <3>1, <3>2
    <3> HIDE DEF sent
    <3>4. QED
      BY <1>1, <2>2, <2>3, <3>1, <3>3 DEF Base, LaunchRight, Original, Busy, Connected
  <2>6. HeldRight' /\ UploadRight'
    BY <1>1, <2>3, SameHeld, LaunchUpload DEF Base
  <2>7. QED
    BY <1>1, <2>3, <2>5, <2>6, LaunchKnown, LauncherBase
<1>4. QED
  BY <1>2, <1>3 DEF LaunchSend

LEMMA LaunchConfirmBase ==
    ASSUME Base, LaunchConfirm, fault' \in BOOLEAN, kept' \subseteq Paths
    PROVE  Base'
<1>1. UNCHANGED <<files, dir, held, answer>> /\ job.op = "launch" /\ job.at = "confirm"
  BY DEF LaunchConfirm
<1>2. CASE Fails /\ UNCHANGED hbmenu
  BY <1>1, <1>2, FailsBase
<1>3. CASE /\ hbmenu.st = "writing" /\ hbmenu.got = job.sent
           /\ job' = [job EXCEPT !.at = "settle", !.ok = TRUE]
           /\ hbmenu' = [hbmenu EXCEPT !.st = "starting"]
  <2>1. job \in Jobs /\ hbmenu \in Netloaders
    BY <1>1, <1>3, LaunchKnown, Types DEF Base, Busy
  <2>2. /\ job' \in Jobs /\ job'.op = "launch" /\ job'.at = "settle" /\ job'.path = job.path
        /\ job'.ver = job.ver /\ job'.sent = job.sent /\ job'.ok
    BY <1>1, <1>3, <2>1 DEF Jobs
  <2>3. /\ hbmenu' \in Netloaders /\ hbmenu'.st = "starting" /\ hbmenu'.path = hbmenu.path
        /\ hbmenu'.ver = hbmenu.ver
    BY <1>3, <2>1 DEF Netloaders
  <2>4. HeldRight'
    BY <1>1, <1>3, <2>3 DEF HeldRight, Base
  <2>5. LaunchRight'
    BY <1>1, <1>3, <2>2, <2>3 DEF Base, LaunchRight, Original, Busy, Connected
  <2>6. QED
    BY <1>1, <2>2, <2>3, <2>4, <2>5, LaunchUpload, LaunchKnown, LauncherBase DEF Loaders
<1>4. QED
  BY <1>2, <1>3 DEF LaunchConfirm

LEMMA LaunchSettleBase ==
    ASSUME Base, LaunchSettle, fault' \in BOOLEAN, kept' \subseteq Paths
    PROVE  Base'
<1>1. UNCHANGED <<files, dir, held, answer, hbmenu>> /\ job.op = "launch" /\ job.at = "settle"
  BY DEF LaunchSettle
<1>2. job \in Jobs /\ job.tries \in Nat /\ "discard" \in LaunchAts
  BY <1>1, LaunchKnown, JobFacts DEF LaunchAts
<1>3. CASE Fails
  BY <1>1, <1>3, FailsBase
<1>4. CASE Reaches(Self(job.path)) /\ job' = [job EXCEPT !.at = "discard"]
  <2>1. /\ job' \in Jobs /\ job'.op = "launch" /\ job'.at = "discard" /\ job'.path = job.path
        /\ job'.ver = job.ver /\ job'.sent = job.sent /\ job'.ok = job.ok
    BY <1>1, <1>2, <1>4, JobAt
  <2>2. LaunchRight'
    BY <1>1, <1>4, <2>1 DEF Base, LaunchRight, Original, Busy, Connected, Reaches
  <2>3. HeldRight' /\ UploadRight'
    BY <1>1, <2>1, SameHeld, LaunchUpload DEF Base
  <2>4. QED
    BY <1>1, <2>1, <2>2, <2>3, LaunchKnown, LauncherBase
<1>5. CASE job' = [job EXCEPT !.tries = @ + 1]
  <2>1. job.tries + 1 \in Nat
    BY <1>2
  <2>2. /\ job' \in Jobs /\ job'.op = "launch" /\ job'.at = "settle" /\ job'.path = job.path
        /\ job'.ver = job.ver /\ job'.sent = job.sent /\ job'.ok = job.ok
    BY <1>1, <1>2, <1>5, <2>1 DEF Jobs
  <2>3. LaunchRight'
    BY <1>1, <2>2 DEF Base, LaunchRight, Original, Busy, Connected
  <2>4. HeldRight' /\ UploadRight'
    BY <1>1, <2>2, SameHeld, LaunchUpload DEF Base
  <2>5. QED
    BY <1>1, <2>2, <2>3, <2>4, LaunchKnown, LauncherBase
<1>6. QED
  BY <1>3, <1>4, <1>5 DEF LaunchSettle, Fails

LEMMA LaunchRestoreBase ==
    ASSUME Base, LaunchRestore, fault' \in BOOLEAN, kept' \subseteq Paths
    PROVE  Base'
<1> DEFINE p == job.path
           next == [job EXCEPT !.at = "putback"]
<1>1. /\ UNCHANGED <<dir, held, answer, hbmenu>> /\ job.op = "launch" /\ job.at = "restore"
      /\ Remove(Self(p), next)
  BY DEF LaunchRestore
<1>2. /\ job \in Jobs /\ files \in Card /\ Self(p) \in Names /\ Launch(p) \in Names
      /\ Self(p) # Launch(p) /\ hbmenu \in Loaders /\ held \subseteq Names
      /\ answer \in {"none", "ok", "error"}
      /\ \A n \in Names : n[1] \in Nested /\ files[n] # NoFile => dir
  BY <1>1, LaunchKnown
<1>3. "putback" \in LaunchAts
  BY DEF LaunchAts
<1>4. /\ next \in Jobs /\ next.op = "launch" /\ next.at = "putback" /\ next.path = p
      /\ next.ver = job.ver /\ next.sent = job.sent /\ next.ok = job.ok
  BY <1>1, <1>2, <1>3, JobAt
<1> HIDE DEF next, p
<1>5. /\ files' \in Card /\ files'[Self(p)] \in {files[Self(p)], NoFile}
      /\ \A m \in Names : m # Self(p) => files'[m] = files[m]
      /\ job' \in Jobs /\ job'.op = "launch" /\ job'.at = "putback" /\ job'.path = p
      /\ job'.ver = job.ver /\ job'.sent = job.sent /\ job'.ok = job.ok
  BY <1>1, <1>2, <1>4, RemoveFacts
<1>6. LaunchRight'
  BY <1>1, <1>2, <1>5 DEF Base, LaunchRight, Original, Busy, Connected, p
<1>7. \A n \in Names : n[1] \in Nested /\ files'[n] # NoFile => dir
  BY <1>2, <1>5
<1>8. HeldRight'
  BY <1>1, SameHeld DEF Base
<1>9. QED
  BY <1>1, <1>2, <1>5, <1>6, <1>7, <1>8, LaunchUpload, LauncherBase

LEMMA LaunchEndBase ==
    ASSUME Base, LaunchDiscard \/ LaunchPutback \/ LaunchPutbackFails, fault' \in BOOLEAN,
           kept' \subseteq Paths
    PROVE  Base'
<1> DEFINE p == job.path
<1>1. UNCHANGED <<dir, held, hbmenu>> /\ job.op = "launch"
  BY DEF LaunchDiscard, LaunchPutback, LaunchPutbackFails
<1>2. job' = Idle /\ answer' \in {"none", "ok", "error"}
  BY EndFacts DEF LaunchDiscard, LaunchPutback, LaunchPutbackFails
<1>3. /\ files \in Card /\ Self(p) \in Names /\ Launch(p) \in Names
      /\ Self(p) # Launch(p) /\ hbmenu \in Loaders /\ held \subseteq Names
      /\ Launch(p)[1] = p /\ Self(p)[1] = p
      /\ \A n \in Names : n[1] \in Nested /\ files[n] # NoFile => dir
  BY <1>1, LaunchKnown
<1>4. HeldRight'
  BY <1>1, SameHeld DEF Base
<1>5. CASE files' = files
  BY <1>1, <1>2, <1>3, <1>4, <1>5, IdleLaunch, LaunchUpload, LauncherBase
<1>6. CASE files' = Without(Launch(p))
  <2>1. /\ files' \in Card /\ files'[Launch(p)] = NoFile
        /\ \A m \in Names : m # Launch(p) => files'[m] = files[m]
    BY <1>3, <1>6, WithoutFacts
  <2>2. QED
    BY <1>1, <1>2, <1>3, <1>4, <2>1, IdleLaunch, LaunchUpload, LauncherBase
<1>7. CASE CanRename(Launch(p), Self(p)) /\ files' = Moved(Launch(p), Self(p))
  <2>1. /\ files' \in Card /\ files'[Self(p)] = files[Launch(p)] /\ files'[Launch(p)] = NoFile
        /\ \A m \in Names : m # Self(p) /\ m # Launch(p) => files'[m] = files[m]
    BY <1>3, <1>7, MovedFacts
  <2>2. \A n \in Names : n[1] \in Nested /\ files'[n] # NoFile => dir
    BY <1>3, <1>7, <2>1 DEF CanRename, Reaches
  <2>3. QED
    BY <1>1, <1>2, <1>3, <1>4, <2>1, <2>2, IdleLaunch, LaunchUpload, LauncherBase
<1>8. QED
  BY <1>5, <1>6, <1>7 DEF LaunchDiscard, LaunchPutback, LaunchPutbackFails

\* hbmenu beside any job: an upload's temp file is not its business.
LEMMA HbmenuUpload ==
    ASSUME Base, job' = job, NEW p \in Paths,
           \A m \in Names : m # Self(p) => files'[m] = files[m]
    PROVE  UploadRight'
<1>1. SUFFICES ASSUME job.op = "put" PROVE UploadRight'
  BY DEF UploadRight
<1>2. Upload(job.path) \in Names /\ Upload(job.path) # Self(p)
  BY <1>1, Types, JobFacts, NameFacts DEF Base
<1>3. QED
  BY <1>1, <1>2 DEF Base, UploadRight

LEMMA HbmenuQuietBase ==
    ASSUME Base, UNCHANGED <<files, dir, job, answer>>, fault' \in BOOLEAN, kept' \subseteq Paths,
           \/ HbmenuListens
           \/ HbmenuCloses
           \/ hbmenu.st = "asked" /\ hbmenu' = HbmenuOff /\ UNCHANGED held
    PROVE  Base'
<1>1. /\ files \in Card /\ held \subseteq Names /\ answer \in {"none", "ok", "error"}
      /\ job \in Jobs \cup Rmdirs \cup {Idle}
      /\ \A n \in Names : n[1] \in Nested /\ files[n] # NoFile => dir
  BY Types DEF Base, NoOrphans
<1>2. hbmenu' \in Loaders /\ hbmenu'.st \in {"off", "listening"}
  BY NetloaderFacts DEF HbmenuListens, HbmenuCloses, Loaders
<1>3. held' \in {{}, held} /\ (held' = held => held = {})
  BY DEF HbmenuListens, HbmenuCloses, Base, HeldRight
<1>4. HeldRight' /\ held' \subseteq Names
  BY <1>1, <1>2, <1>3 DEF HeldRight
<1>5. UploadRight'
  BY DEF Base, UploadRight
<1>6. LaunchRight'
  <2>1. SUFFICES ASSUME job.op = "launch" PROVE LaunchRight'
    BY DEF LaunchRight
  <2>2. CASE HbmenuListens
    BY <1>2, <2>1, <2>2 DEF Base, LaunchRight, Original, Busy, Connected, HbmenuListens
  <2>3. CASE HbmenuCloses
    BY <1>2, <2>1, <2>3 DEF Base, LaunchRight, Original, Busy, Connected, HbmenuCloses
  <2>4. CASE hbmenu.st = "asked" /\ hbmenu' = HbmenuOff
    BY <1>2, <2>1, <2>4 DEF Base, LaunchRight, Original, Busy, Connected
  <2>5. QED
    BY <2>2, <2>3, <2>4
<1>7. QED
  BY <1>1, <1>2, <1>4, <1>5, <1>6, LauncherBase

LEMMA HbmenuAnswersBase ==
    ASSUME Base, HbmenuAnswers, fault' \in BOOLEAN, kept' \subseteq Paths
    PROVE  Base'
<1>1. UNCHANGED <<dir, job, answer>> /\ hbmenu.st = "asked"
  BY DEF HbmenuAnswers
<1>2. /\ files \in Card /\ held \subseteq Names /\ answer \in {"none", "ok", "error"}
      /\ job \in Jobs \cup Rmdirs \cup {Idle} /\ hbmenu \in Netloaders
      /\ \A n \in Names : n[1] \in Nested /\ files[n] # NoFile => dir
  BY <1>1, Types DEF Base, NoOrphans, Busy
<1> DEFINE q == hbmenu.path
           n == Self(q)
<1>3. q \in Paths /\ n \in Names /\ n[1] = q /\ hbmenu.ver \in Versions /\ hbmenu.got = 0 /\ hbmenu.here
  BY <1>1, <1>2, NetloaderFacts, NameFacts DEF Base, HeldRight
<1>4. CASE hbmenu' = HbmenuOff /\ UNCHANGED <<files, held>>
  BY <1>1, <1>4, HbmenuQuietBase
<1>5. CASE /\ hbmenu' = [hbmenu EXCEPT !.st = "writing", !.here = FALSE]
           /\ UNCHANGED <<files, held>>
  <2>1. /\ hbmenu' \in Netloaders /\ hbmenu'.st = "writing" /\ hbmenu'.path = q
        /\ hbmenu'.ver = hbmenu.ver /\ hbmenu'.got = 0 /\ ~hbmenu'.here
    BY <1>2, <1>3, <1>5 DEF Netloaders
  <2>2. HeldRight'
    BY <1>1, <1>5, <2>1 DEF HeldRight, Base
  <2>3. UploadRight'
    BY <1>1, <1>5 DEF Base, UploadRight
  <2>4. LaunchRight'
    BY <1>1, <1>3, <1>5, <2>1, LaunchKnown DEF Base, LaunchRight, Original, Busy, Connected
  <2>5. QED
    BY <1>1, <1>2, <1>5, <2>1, <2>2, <2>3, <2>4, LauncherBase DEF Loaders
<1>6. CASE /\ hbmenu.path \in Nested => dir
           /\ files' = [files EXCEPT ![n] = [ver |-> hbmenu.ver, size |-> 0]]
           /\ held' = {n}
           /\ hbmenu' = [hbmenu EXCEPT !.st = "writing"]
  <2> DEFINE x == [ver |-> hbmenu.ver, size |-> 0]
  <2>1. x \in File /\ x.ver = hbmenu.ver /\ x.size = 0 /\ x # NoFile
    BY <1>3, FileFacts
  <2>2. files' = [files EXCEPT ![n] = x]
    BY <1>6
  <2> HIDE DEF x
  <2>3. files' \in Card /\ files'[n] = x /\ \A m \in Names : m # n => files'[m] = files[m]
    BY <1>2, <1>3, <2>1, <2>2 DEF Card
  <2>4. /\ hbmenu' \in Netloaders /\ hbmenu'.st = "writing" /\ hbmenu'.path = q
        /\ hbmenu'.ver = hbmenu.ver /\ hbmenu'.got = 0 /\ hbmenu'.here
    BY <1>2, <1>3, <1>6 DEF Netloaders
  <2>5. HeldRight' /\ held' \subseteq Names
    BY <1>3, <1>6, <2>4 DEF HeldRight
  <2>6. UploadRight'
    BY <1>1, <1>3, <2>3, HbmenuUpload
  <2>7. \A m \in Names : m[1] \in Nested /\ files'[m] # NoFile => dir
    BY <1>2, <1>3, <1>6, <2>3
  <2>8. LaunchRight'
    <3>1. SUFFICES ASSUME job.op = "launch" PROVE LaunchRight'
      BY <1>1 DEF LaunchRight
    <3>2. /\ q = job.path /\ hbmenu.ver = job.ver
          /\ job.at \notin {"clear", "aside", "ask", "send", "confirm", "settle", "discard"}
          /\ ~job.ok
      BY <1>1, <3>1 DEF Base, LaunchRight, Busy, Connected
    <3>3. /\ Launch(job.path) \in Names /\ Launch(job.path) # n
          /\ files[Launch(job.path)] \in File /\ files[Launch(job.path)].size \in Nat
      BY <3>1, <3>2, LaunchKnown, FileFacts DEF Base, LaunchRight, Original
    <3>4. files'[Launch(job.path)] = files[Launch(job.path)] /\ files'[Self(job.path)] = x
      BY <2>3, <3>2, <3>3
    <3> HIDE DEF n, q
    <3>5. QED
      BY <1>1, <2>1, <2>4, <3>1, <3>2, <3>3, <3>4, LaunchKnown
         DEF Base, LaunchRight, Original, Busy, Connected
  <2>9. QED
    BY <1>1, <1>2, <2>3, <2>4, <2>5, <2>6, <2>7, <2>8, LauncherBase DEF Loaders
<1>7. QED
  BY <1>4, <1>5, <1>6 DEF HbmenuAnswers

LEMMA HbmenuWritesBase ==
    ASSUME Base, HbmenuWrites, fault' \in BOOLEAN, kept' \subseteq Paths
    PROVE  Base'
<1>1. /\ UNCHANGED <<dir, held, job, answer>> /\ hbmenu.st = "writing" /\ Connected
      /\ hbmenu.got < job.sent /\ job.op = "launch" /\ hbmenu' = [hbmenu EXCEPT !.got = @ + 1]
  BY DEF HbmenuWrites, Connected
<1> DEFINE p == job.path
           n == Self(p)
           own == files[n]
           copy == files[Launch(p)]
<1>2. /\ files \in Card /\ held \subseteq Names /\ answer \in {"none", "ok", "error"}
      /\ p \in Paths /\ n \in Names /\ Launch(p) \in Names /\ n # Launch(p)
      /\ job \in Jobs /\ job.sent \in Nat /\ own \in File \cup {NoFile}
      /\ \A m \in Names : m[1] \in Nested /\ files[m] # NoFile => dir
  BY <1>1, LaunchKnown
<1>3. hbmenu \in Netloaders /\ hbmenu.got \in Nat
  BY <1>1, Types, NetloaderFacts DEF Base, Busy
<1>4. /\ hbmenu' \in Netloaders /\ hbmenu'.st = "writing" /\ hbmenu'.path = hbmenu.path
      /\ hbmenu'.ver = hbmenu.ver /\ hbmenu'.got = hbmenu.got + 1 /\ hbmenu'.here = hbmenu.here
  <2>1. hbmenu.got + 1 \in Nat
    BY <1>3
  <2>2. QED
    BY <1>1, <1>3, <2>1 DEF Netloaders
<1>5. /\ job.at \in {"send", "confirm"} /\ job.sent <= copy.size /\ copy \in File
      /\ hbmenu.path = p /\ ~job.ok
      /\ (own # NoFile <=> hbmenu.here) /\ (own # NoFile => own.size = hbmenu.got /\ own.ver = job.ver)
  <2>1. job.at \in {"asked", "send", "confirm"} /\ (job.at = "asked" => job.sent = 0)
    BY <1>1 DEF Base, LaunchRight, Connected
  <2>2. job.at # "asked"
    BY <1>1, <1>2, <1>3, <2>1
  <2>3. copy \in File /\ copy.size \in Nat
    BY <1>1, <2>1, LaunchKnown, FileFacts DEF Base, LaunchRight, Original
  <2>4. job.sent <= copy.size
    BY <1>1, <1>2, <2>1, <2>2, <2>3 DEF Base, LaunchRight
  <2>5. QED
    BY <1>1, <2>1, <2>2, <2>3, <2>4 DEF Base, LaunchRight, Busy, Connected
<1>6. HeldRight'
  BY <1>1, <1>4 DEF HeldRight, Base
<1>7. copy.size \in Nat /\ copy.size <= Parts /\ Parts \in Nat
  BY <1>5, FileFacts
<1>8. CASE ~hbmenu.here
  <2>1. files' = files
    BY <1>8 DEF HbmenuWrites
  <2>2. UploadRight'
    BY <1>1, <2>1 DEF Base, UploadRight
  <2>3. LaunchRight'
    BY <1>1, <1>2, <1>3, <1>4, <1>5, <1>8, <2>1 DEF Base, LaunchRight, Original, Busy, Connected
  <2>4. QED
    BY <1>1, <1>2, <1>4, <1>6, <2>1, <2>2, <2>3, LauncherBase DEF Loaders
<1>9. CASE hbmenu.here
  <2> DEFINE x == [own EXCEPT !.size = @ + 1]
  <2>1. own \in File /\ own.size = hbmenu.got /\ own.ver = job.ver
    BY <1>2, <1>5, <1>9
  <2>2. hbmenu.got + 1 \in 0..Parts /\ hbmenu.got + 1 <= job.sent /\ hbmenu.got + 1 <= copy.size
    BY <1>1, <1>2, <1>3, <1>5, <1>7
  <2>3. x \in File /\ x.ver = job.ver /\ x.size = hbmenu.got + 1
    BY <2>1, <2>2 DEF File
  <2>4. files' = [files EXCEPT ![n] = x]
    BY <1>5, <1>9 DEF HbmenuWrites
  <2>5. x # NoFile
    BY <2>3, FileFacts
  <2> HIDE DEF x
  <2>6. files' \in Card /\ files'[n] = x /\ \A m \in Names : m # n => files'[m] = files[m]
    BY <1>2, <2>3, <2>4 DEF Card
  <2>7. UploadRight'
    BY <1>1, <1>2, <2>6, HbmenuUpload
  <2>8. \A m \in Names : m[1] \in Nested /\ files'[m] # NoFile => dir
    BY <1>2, <1>5, <1>9, <2>6
  <2>9. LaunchRight'
    <3>1. files'[Launch(job.path)] = copy /\ files'[Self(job.path)] = x
      BY <1>2, <2>6
    <3> HIDE DEF n, p, own
    <3>2. QED
      BY <1>1, <1>4, <1>5, <1>9, <2>2, <2>3, <2>5, <3>1
         DEF Base, LaunchRight, Original, Busy, Connected, copy, p
  <2>10. QED
    BY <1>1, <1>2, <1>4, <1>6, <2>6, <2>7, <2>8, <2>9, LauncherBase DEF Loaders
<1>10. QED
  BY <1>3, <1>8, <1>9

LEMMA PowerLossBase ==
    ASSUME Base, PowerLoss, fault' \in BOOLEAN, kept' \subseteq Paths
    PROVE  Base'
<1>1. /\ files \in Card /\ \A n \in Names : n[1] \in Nested /\ files[n] # NoFile => dir
  BY Types DEF Base, NoOrphans
<1>2. /\ UNCHANGED <<files, dir>> /\ job' = Idle /\ answer' = "none" /\ held' = {}
      /\ hbmenu' \in Loaders /\ hbmenu'.st = "off"
  BY NetloaderFacts DEF PowerLoss, Loaders
<1>3. HeldRight'
  BY <1>2 DEF HeldRight
<1>4. QED
  BY <1>1, <1>2, <1>3, IdleLaunch, LaunchUpload, LauncherBase

LEMMA BaseNext == Base /\ [Next]_vars => Base'
<1> SUFFICES ASSUME Base, [Next]_vars PROVE Base'
  OBVIOUS
<1>1. CASE UNCHANGED vars
  BY <1>1 DEF vars, Base, TypeOK, HeldRight, UploadRight, LaunchRight, Original, Busy, Connected,
             NoOrphans
<1>2. CASE Next
  <2>1. fault' \in BOOLEAN /\ kept' \subseteq Paths
    <3>1. kept' \subseteq Paths
      BY <1>2 DEF Next, KeptNext, Base, TypeOK
    <3>2. ((job # Idle /\ fault) \/ (job' # Idle /\ job'.faulty)) \in BOOLEAN
      OBVIOUS
    <3>3. fault' \in BOOLEAN
      BY <1>2, <3>2 DEF Next
    <3>4. QED
      BY <3>1, <3>3
  <2>2. CASE FilesStep
    BY <2>1, <2>2, PutOpenBase, PutBodyBase, PutRemoveBase, PutRenameBase, WholeBase,
       DirectoryBase
       DEF FilesStep, tool_delete_file, tool_move_file, delete_files, Whole
  <2>3. CASE LauncherStep
    BY <2>1, <2>3, LaunchConnectBase, LaunchClearBase, LaunchAsideBase, LaunchAskBase,
       LaunchAnsweredBase, LaunchSendBase, LaunchConfirmBase, LaunchSettleBase, LaunchEndBase,
       LaunchRestoreBase
       DEF LauncherStep
  <2>4. CASE HbmenuStep
    <3>1. CASE HbmenuListens \/ HbmenuCloses
      BY <2>1, <3>1, HbmenuQuietBase DEF HbmenuListens, HbmenuCloses
    <3>2. QED
      BY <2>1, <2>4, <3>1, HbmenuAnswersBase, HbmenuWritesBase DEF HbmenuStep
  <2>5. CASE PowerLoss
    BY <2>1, <2>5, PowerLossBase
  <2>6. CASE CardFails
    BY <2>1, <2>6, PutRenameBase, LaunchEndBase DEF CardFails
  <2>7. QED
    BY <1>2, <2>2, <2>3, <2>4, <2>5, <2>6 DEF Next
<1>3. QED
  BY <1>1, <1>2

LEMMA InitFacts ==
    ASSUME Init
    PROVE  /\ files \in Card /\ dir \in BOOLEAN /\ held = {} /\ job = Idle /\ answer = "none"
           /\ hbmenu = HbmenuOff /\ fault = FALSE /\ kept \subseteq Paths
           /\ \A n \in Names : files[n] # NoFile =>
                 Complete(files[n]) /\ (n[1] \in Nested => dir)
           /\ \A p \in kept : files[Self(p)] # NoFile
<1>1. PICK v \in Versions, present \in SUBSET Paths :
         /\ files = [n \in Names |-> IF n[2] = "self" /\ n[1] \in present
                                      THEN [ver |-> v, size |-> Parts] ELSE NoFile]
         /\ dir = (present \cap Nested # {})
  BY DEF Init, CardInit
<1> DEFINE x == [ver |-> v, size |-> Parts]
<1>2. x \in File /\ x # NoFile /\ x.size = Parts
  BY FileFacts
<1>3. files = [n \in Names |-> IF n[2] = "self" /\ n[1] \in present THEN x ELSE NoFile]
  BY <1>1
<1> HIDE DEF x
<1>4. files \in Card
  BY <1>2, <1>3 DEF Card
<1>5. (present \cap Nested # {}) \in BOOLEAN
  OBVIOUS
<1>6. dir \in BOOLEAN /\ \A p \in present : p \in Nested => dir
  BY <1>1, <1>5
<1>7. \A n \in Names : files[n] # NoFile =>
                 Complete(files[n]) /\ (n[1] \in Nested => dir)
  BY <1>2, <1>3, <1>6 DEF Complete
<1>8. QED
  BY <1>4, <1>6, <1>7 DEF Init, CardInit

LEMMA InitBase == Init => Base
<1> SUFFICES ASSUME Init PROVE Base
  OBVIOUS
<1>1. TypeOK
  BY InitFacts DEF TypeOK, Card
<1>2. HeldRight /\ UploadRight /\ LaunchRight
  BY InitFacts, IdleFacts, NetloaderFacts DEF HeldRight, UploadRight, LaunchRight
<1>3. NoOrphans
  BY InitFacts DEF NoOrphans
<1>4. QED
  BY <1>1, <1>2, <1>3 DEF Base

-----------------------------------------------------------------------------
(* The steps of AtomicFiles, from what a client sees before and after. *)

NoOp == [kind |-> "none"]
PutOp(p, v, gap) == [kind |-> "put", path |-> p, goal |-> v, gap |-> gap]
LaunchOp(p) == [kind |-> "launch", path |-> p]
SameSeen == \A q \in Paths : Seen(q)' = Seen(q)
SeenElsewhere(p) == \A q \in Paths : q # p => Seen(q)' = Seen(q)
Mapped == [Atomic!Next]_(Atomic!vars)

LEMMA SeenSame == SameSeen => UNCHANGED [p \in Paths |-> Seen(p)]
BY DEF SameSeen

LEMMA SeenSet ==
    ASSUME NEW p \in Paths, NEW x, Seen(p)' = x, SeenElsewhere(p)
    PROVE  [q \in Paths |-> Seen(q)]' = [[q \in Paths |-> Seen(q)] EXCEPT ![p] = x]
<1> DEFINE F == [q \in Paths |-> Seen(q)]
           G == [q \in Paths |-> Seen(q)']
<1>1. F' = G
  OBVIOUS
<1>2. \A q \in Paths : G[q] = [F EXCEPT ![p] = x][q]
  BY DEF SeenElsewhere
<1>3. QED
  BY <1>1, <1>2

LEMMA StepSame ==
    ASSUME SeenOp' = SeenOp, SameSeen, fault' = fault, answer' = answer
    PROVE  Mapped
BY SeenSame DEF Mapped, Atomic!vars

LEMMA StepReply ==
    ASSUME SeenOp = NoOp, SeenOp' = NoOp, SameSeen, fault' \in BOOLEAN
    PROVE  Mapped
<1>1. (answer = "ok")' \in BOOLEAN
  OBVIOUS
<1>2. Atomic!Reply
  BY <1>1, SeenSame DEF Atomic!Reply, Atomic!None, NoOp
<1>3. QED
  BY <1>2 DEF Atomic!Next, Mapped

LEMMA StepBegin ==
    ASSUME SeenOp = NoOp, SameSeen, fault' = FALSE, answer' = "none", NEW p \in Paths,
           (\E v \in Versions : SeenOp' = PutOp(p, v, FALSE)) \/ SeenOp' = LaunchOp(p)
    PROVE  Mapped
<1>1. (answer = "ok")' = FALSE
  OBVIOUS
<1>2. Atomic!Begin
  BY <1>1, SeenSame DEF Atomic!Begin, Atomic!None, NoOp, PutOp, LaunchOp
<1>3. QED
  BY <1>2 DEF Atomic!Next, Mapped

LEMMA StepFail ==
    ASSUME SeenOp' = SeenOp, SameSeen, fault' = TRUE, answer' = answer
    PROVE  Mapped
<1>1. Atomic!Fail
  BY SeenSame DEF Atomic!Fail
<1>2. QED
  BY <1>1 DEF Atomic!Next, Mapped

LEMMA StepVacate ==
    ASSUME NEW p \in Paths, NEW v, NEW gap, SeenOp = PutOp(p, v, gap),
           SeenOp' = PutOp(p, v, TRUE), Seen(p)' = NoFile, SeenElsewhere(p), fault' = fault,
           answer' = answer
    PROVE  Mapped
<1> DEFINE o == PutOp(p, v, gap)
<1>0. o.kind = "put" /\ o.path = p /\ PutOp(p, v, TRUE) = [o EXCEPT !.gap = TRUE]
  <2>1. \A h : PutOp(p, v, h) = [o EXCEPT !.gap = h]
    BY DEF PutOp
  <2>2. PutOp(p, v, TRUE) = [o EXCEPT !.gap = TRUE]
    BY <2>1, Zenon
  <2>3. o.kind = "put" /\ o.path = p
    BY DEF PutOp
  <2>4. QED
    BY <2>2, <2>3
<1>1. SeenOp.kind = "put" /\ SeenOp.path = p /\ SeenOp' = [SeenOp EXCEPT !.gap = TRUE]
  BY <1>0
<1>2. [q \in Paths |-> Seen(q)]' = [[q \in Paths |-> Seen(q)] EXCEPT ![p] = NoFile]
  BY SeenSet
<1>3. Atomic!Vacate
  BY <1>1, <1>2 DEF Atomic!Vacate
<1>4. QED
  BY <1>3 DEF Atomic!Next, Mapped

LEMMA StepCommit ==
    ASSUME NEW p \in Paths, NEW v, SeenOp = PutOp(p, v, TRUE), SeenOp' = NoOp,
           Seen(p)' = v, SeenElsewhere(p), fault' = fault, answer' = "ok"
    PROVE  Mapped
<1>1. SeenOp.kind = "put" /\ SeenOp.path = p /\ SeenOp.goal = v /\ SeenOp.gap
  BY DEF PutOp
<1>2. [q \in Paths |-> Seen(q)]' = [[q \in Paths |-> Seen(q)] EXCEPT ![p] = v]
  BY SeenSet
<1>3. (answer = "ok")' = TRUE
  OBVIOUS
<1>4. Atomic!Commit
  BY <1>1, <1>2, <1>3 DEF Atomic!Commit, Atomic!None, NoOp
<1>5. QED
  BY <1>4 DEF Atomic!Next, Mapped

LEMMA StepFinish ==
    ASSUME NEW p, SeenOp' = NoOp, SameSeen, fault' = fault,
           \/ \E v : SeenOp = PutOp(p, v, FALSE) /\ answer' = "error"
           \/ SeenOp = LaunchOp(p)
    PROVE  Mapped
<1>1. (answer = "ok")' \in BOOLEAN
  OBVIOUS
<1>2. \/ SeenOp.kind = "put" /\ ~SeenOp.gap /\ ~(answer = "ok")'
      \/ SeenOp.kind = "launch"
  BY DEF PutOp, LaunchOp
<1>3. Atomic!Finish
  BY <1>1, <1>2, SeenSame DEF Atomic!Finish, Atomic!None, NoOp
<1>4. QED
  BY <1>3 DEF Atomic!Next, Mapped

LEMMA StepInterruptPut ==
    ASSUME NEW p, NEW v, NEW gap, SeenOp = PutOp(p, v, gap), SeenOp' = NoOp, SameSeen,
           fault' = TRUE, answer' # "ok"
    PROVE  Mapped
<1>1. (answer = "ok")' = FALSE
  OBVIOUS
<1>2. SeenOp.kind = "put" /\ SeenOp # NoOp
  BY DEF PutOp, NoOp
<1>3. Atomic!Interrupt
  BY <1>1, <1>2, SeenSame DEF Atomic!Interrupt, Atomic!None, NoOp
<1>4. QED
  BY <1>3 DEF Atomic!Next, Mapped

LEMMA StepInterruptLaunch ==
    ASSUME NEW p \in Paths, SeenOp = LaunchOp(p), SeenOp' = NoOp, SeenElsewhere(p),
           Seen(p)' \in {Seen(p), NoFile, "torn"}, fault' = TRUE
    PROVE  Mapped
<1>1. (answer = "ok")' \in BOOLEAN
  OBVIOUS
<1>2. SeenOp.kind = "launch" /\ SeenOp.path = p /\ SeenOp # NoOp
  BY DEF LaunchOp, NoOp
<1>3. CASE Seen(p)' = Seen(p)
  <2>1. SameSeen
    BY <1>3 DEF SeenElsewhere, SameSeen
  <2>2. Atomic!Interrupt
    BY <1>1, <1>2, <2>1, SeenSame DEF Atomic!Interrupt, Atomic!None, NoOp
  <2>3. QED
    BY <2>2 DEF Atomic!Next, Mapped
<1>4. CASE Seen(p)' \in {NoFile, "torn"}
  <2>1. PICK left \in {NoFile, "torn"} : Seen(p)' = left
    BY <1>4
  <2>2. [q \in Paths |-> Seen(q)]' = [[q \in Paths |-> Seen(q)] EXCEPT ![p] = left]
    BY <2>1, SeenSet
  <2>3. Atomic!Interrupt
    BY <1>1, <1>2, <2>2 DEF Atomic!Interrupt, Atomic!None, NoOp
  <2>4. QED
    BY <2>3 DEF Atomic!Next, Mapped
<1>5. QED
  BY <1>3, <1>4

LEMMA StepDelete ==
    ASSUME SeenOp = NoOp, SeenOp' = NoOp, fault' \in BOOLEAN, answer' = "ok",
           NEW p \in Paths, Seen(p)' = NoFile, SeenElsewhere(p)
    PROVE  Mapped
<1>1. [q \in Paths |-> Seen(q)]' = [[q \in Paths |-> Seen(q)] EXCEPT ![p] = NoFile]
  BY SeenSet
<1>2. Atomic!Delete(p)
  BY <1>1 DEF Atomic!Delete, Atomic!None, NoOp
<1>3. QED
  BY <1>2 DEF Atomic!Next, Mapped

LEMMA StepMove ==
    ASSUME SeenOp = NoOp, SeenOp' = NoOp, fault' \in BOOLEAN, answer' = "ok",
           NEW p \in Paths, NEW q \in Paths, p # q, Seen(q) = NoFile, Seen(p)' = NoFile,
           Seen(q)' = Seen(p), \A r \in Paths : r # p /\ r # q => Seen(r)' = Seen(r)
    PROVE  Mapped
<1> DEFINE F == [r \in Paths |-> Seen(r)]
           G == [r \in Paths |-> Seen(r)']
           H == [F EXCEPT ![q] = F[p], ![p] = NoFile]
<1>1. F' = G
  OBVIOUS
<1>2. H = [r \in Paths |-> IF r = p THEN NoFile ELSE IF r = q THEN F[p] ELSE F[r]]
  OBVIOUS
<1>3. \A r \in Paths : G[r] = H[r]
  BY <1>2
<1>4. F' = H /\ F[q] = NoFile
  BY <1>1, <1>2, <1>3
<1>5. Atomic!Move(p, q)
  BY <1>4 DEF Atomic!Move, Atomic!None, NoOp
<1>6. QED
  BY <1>5 DEF Atomic!Next, Mapped

LEMMA StepWipe ==
    ASSUME SeenOp = NoOp, SeenOp' = NoOp, fault = TRUE, fault' = TRUE, answer' = "ok",
           NEW lost \in SUBSET Paths, \A q \in lost : Seen(q)' = NoFile,
           \A q \in Paths \ lost : Seen(q)' = Seen(q)
    PROVE  Mapped
<1> DEFINE F == [q \in Paths |-> Seen(q)]
           G == [q \in Paths |-> Seen(q)']
           H == [q \in Paths |-> IF q \in lost THEN NoFile ELSE F[q]]
<1>1. F' = G
  OBVIOUS
<1>2. \A q \in Paths : G[q] = H[q]
  OBVIOUS
<1>3. F' = H
  BY <1>1, <1>2
<1>4. Atomic!Wipe
  BY <1>3 DEF Atomic!Wipe, Atomic!None, NoOp
<1>5. QED
  BY <1>4 DEF Atomic!Next, Mapped

LEMMA SeenFacts ==
    /\ job.op \in {"idle", "rmdir"} => SeenOp = NoOp
    /\ job'.op \in {"idle", "rmdir"} => SeenOp' = NoOp
    /\ job.op = "put" => SeenOp = PutOp(job.path, job.ver,
                                        job.at = "rename" /\ files[Self(job.path)] = NoFile)
    /\ job'.op = "put" => SeenOp' = PutOp(job'.path, job'.ver,
                                          job'.at = "rename" /\ files'[Self(job'.path)] = NoFile)
    /\ job.op = "launch" => SeenOp = LaunchOp(job.path)
    /\ job'.op = "launch" => SeenOp' = LaunchOp(job'.path)
BY DEF SeenOp, NoOp, PutOp, LaunchOp

LEMMA SeenAt ==
    ASSUME NEW q
    PROVE  /\ job.op # "launch" \/ job.path # q \/ job.at \in {"clear", "aside", "discard"}
                => Seen(q) = View(files[Self(q)])
           /\ job'.op # "launch" \/ job'.path # q \/ job'.at \in {"clear", "aside", "discard"}
                => Seen(q)' = View(files'[Self(q)])
           /\ job.op = "launch" /\ job.path = q /\ job.at \notin {"clear", "aside", "discard"}
                => Seen(q) = View(files[Launch(q)])
           /\ job'.op = "launch" /\ job'.path = q /\ job'.at \notin {"clear", "aside", "discard"}
                => Seen(q)' = View(files'[Launch(q)])
BY DEF Seen, View

-----------------------------------------------------------------------------
(* When hbmenu lets go before nro_launch removes its file: what each step  *)
(* keeps, and the step of AtomicFiles it is.                               *)

Full == Base /\ PutbackRight /\ FaultRight /\ LookRight /\ KeptRight
FaultStep == fault' = ((job # Idle /\ fault) \/ (job' # Idle /\ job'.faulty))
Keeps(q) == Complete(files'[Self(q)]) \/ (KeptAt(q) /\ ~Forfeits(q)) => KeptAt(q)'
Settled == FaultRight' /\ PutbackRight' /\ KeptRight' /\ Mapped

LEMMA KeptFrom ==
    ASSUME Full, KeptNext, \A q \in Paths : Keeps(q)
    PROVE  KeptRight'
<1>1. SUFFICES ASSUME NEW q \in kept' PROVE KeptAt(q)'
  BY DEF KeptRight
<1>2. kept \subseteq Paths
  BY DEF Full, Base, TypeOK
<1>3. q \in Paths /\ (Complete(files'[Self(q)]) \/ (q \in kept /\ ~Forfeits(q)))
  BY <1>1, <1>2 DEF KeptNext
<1>4. q \in kept => KeptAt(q)
  BY DEF Full, KeptRight
<1>5. QED
  BY <1>3, <1>4 DEF Keeps

\* A path no job is at, before or after, with its three names untouched.
LEMMA KeptElse ==
    ASSUME NEW q, job = Idle \/ job.op \in {"idle", "rmdir"} \/ job.path # q,
           job' = Idle \/ job'.op \in {"idle", "rmdir"} \/ job'.path # q,
           files'[Self(q)] = files[Self(q)] \/ Complete(files'[Self(q)]),
           files'[Upload(q)] = files[Upload(q)], files'[Launch(q)] = files[Launch(q)]
    PROVE  Keeps(q)
BY IdleFacts DEF Keeps, KeptAt

LEMMA FaultFacts ==
    ASSUME Full, FaultStep
    PROVE  /\ fault \in BOOLEAN /\ fault' \in BOOLEAN
           /\ job' = Idle /\ job # Idle => fault' = fault
           /\ job = Idle /\ job' # Idle /\ ~job'.faulty => fault' = FALSE
           /\ job # Idle /\ job' # Idle /\ job'.faulty = job.faulty => fault' = fault
           /\ job' # Idle /\ job'.faulty => fault' = TRUE
           /\ FaultRight'
<1>1. fault \in BOOLEAN
  BY DEF Full, Base, TypeOK
<1>2. ((job # Idle /\ fault) \/ (job' # Idle /\ job'.faulty)) \in BOOLEAN
  OBVIOUS
<1>3. fault' \in BOOLEAN /\ (fault' <=> (job # Idle /\ fault) \/ (job' # Idle /\ job'.faulty))
  BY <1>2 DEF FaultStep
<1>4. job # Idle /\ job.faulty => fault
  BY DEF Full, FaultRight
<1>5. FaultRight'
  BY <1>3 DEF FaultRight
<1>6. QED
  BY <1>1, <1>3, <1>4, <1>5

\* Whatever changes only an upload's temp file.
LEMMA UploadOnly ==
    ASSUME NEW p \in Paths, \A m \in Names : m # Upload(p) => files'[m] = files[m]
    PROVE  \A q \in Paths : files'[Self(q)] = files[Self(q)] /\ files'[Launch(q)] = files[Launch(q)]
BY NameFacts

LEMMA PlainSeen ==
    ASSUME job.op # "launch", job'.op # "launch",
           \A q \in Paths : files'[Self(q)] = files[Self(q)]
    PROVE  SameSeen
BY SeenAt DEF SameSeen

\* Requests that do nothing, while no job runs.
LEMMA NothingDone ==
    ASSUME Full, KeptNext, job = Idle, job' = Idle, files' = files,
           FaultStep \/ fault' = TRUE
    PROVE  Settled
<1>1. fault' \in BOOLEAN /\ FaultRight' /\ PutbackRight'
  BY FaultFacts, IdleFacts DEF FaultRight, PutbackRight
<1>2. KeptRight'
  BY KeptFrom, KeptElse
<1>3. Mapped
  BY <1>1, PlainSeen, SeenFacts, IdleFacts, StepReply
<1>4. QED
  BY <1>1, <1>2, <1>3 DEF Settled

LEMMA PutOpenSettled ==
    ASSUME Full, KeptNext, FaultStep, NEW p \in Paths, NEW v \in Versions, PutOpen(p, v)
    PROVE  Settled
<1>1. job = Idle /\ job.op = "idle"
  BY IdleFacts DEF PutOpen
<1>2. CASE files' = files /\ End(FALSE)
  BY <1>1, <1>2, EndFacts, NothingDone
<1>3. CASE /\ files' = [files EXCEPT ![Upload(p)] = [ver |-> v, size |-> 0]]
           /\ job' = Job("put", "body", p, v) /\ answer' = "none"
  <2>1. "body" \in PutAts
    BY DEF PutAts
  <2>2. /\ job' \in Jobs /\ job'.op = "put" /\ job'.at = "body" /\ job'.path = p /\ job'.ver = v
        /\ ~job'.faulty /\ job' # Idle
    BY <1>3, <2>1, NewJob, JobFacts
  <2>3. files \in Card /\ Upload(p) \in Names
    BY Types, NameFacts DEF Full, Base
  <2>4. \A m \in Names : m # Upload(p) => files'[m] = files[m]
    BY <1>3, <2>3 DEF Card
  <2>5. \A q \in Paths : /\ files'[Self(q)] = files[Self(q)]
                         /\ files'[Launch(q)] = files[Launch(q)]
                         /\ q # p => files'[Upload(q)] = files[Upload(q)]
    BY <2>4, UploadOnly, NameFacts
  <2>6. FaultRight' /\ PutbackRight' /\ fault' = FALSE
    BY <1>1, <2>2, FaultFacts DEF PutbackRight
  <2>7. Keeps(p)
    BY <1>1, <2>2, <2>5 DEF Keeps, Forfeits, KeptAt
  <2>8. KeptRight'
    BY <1>1, <2>2, <2>5, <2>7, KeptElse, KeptFrom
  <2>9. SameSeen
    BY <1>1, <2>2, <2>5, PlainSeen
  <2>10. SeenOp = NoOp /\ SeenOp' = PutOp(p, v, FALSE)
    BY <1>1, <2>2, SeenFacts DEF PutOp
  <2>11. Mapped
    BY <1>3, <2>6, <2>9, <2>10, StepBegin
  <2>12. QED
    BY <2>6, <2>8, <2>11 DEF Settled
<1>4. QED
  BY <1>2, <1>3 DEF PutOpen

\* What is known while an upload runs.
LEMMA PutKnown ==
    ASSUME Full, job.op = "put"
    PROVE  /\ job \in Jobs /\ job # Idle /\ job.path \in Paths /\ job.ver \in Versions
           /\ job.at \in PutAts
           /\ files \in Card /\ Self(job.path) \in Names /\ Upload(job.path) \in Names
           /\ Self(job.path) # Upload(job.path)
           /\ files[Upload(job.path)] \in File /\ files[Upload(job.path)].ver = job.ver
           /\ (job.at = "rename" => files[Upload(job.path)].size = Parts)
           /\ Upload(job.path) \notin held
<1>1. job \in Jobs /\ files \in Card
  BY Types DEF Full, Base
<1>2. job.path \in Paths /\ job # Idle /\ job.ver \in Versions /\ job.at \in PutAts
  BY <1>1, JobFacts
<1>3. /\ Self(job.path) \in Names /\ Upload(job.path) \in Names
      /\ Self(job.path) # Upload(job.path)
  BY <1>2, NameFacts
<1>4. Upload(job.path) \notin held
  <2>1. held # {} => held = {Self(hbmenu.path)} /\ hbmenu.path \in Paths
    BY Types, NetloaderFacts DEF Full, Base, HeldRight, Busy
  <2>2. QED
    BY <1>2, <2>1, NameFacts
<1>5. QED
  BY <1>1, <1>2, <1>3, <1>4 DEF Full, Base, UploadRight, Card

LEMMA PutBodySettled ==
    ASSUME Full, KeptNext, FaultStep, PutBody
    PROVE  Settled
<1>1. job.op = "put" /\ job.at = "body"
  BY DEF PutBody
<1> PICK p \in Paths : p = job.path
  BY <1>1, PutKnown
<1>2. /\ p \in Paths /\ job # Idle /\ files \in Card /\ Upload(p) \in Names
      /\ files[Upload(p)] \in File
  BY <1>1, PutKnown
<1>3. \A m \in Names : m # Upload(p) => files'[m] = files[m]
  BY <1>2, WithoutFacts DEF PutBody, Card
<1>4. \A q \in Paths : /\ files'[Self(q)] = files[Self(q)]
                       /\ files'[Launch(q)] = files[Launch(q)]
                       /\ q # p => files'[Upload(q)] = files[Upload(q)]
  BY <1>2, <1>3, UploadOnly, NameFacts
<1>5. \/ UNCHANGED <<job, answer>>
      \/ job' = Idle /\ answer' = "error"
  BY DEF PutBody, End
<1>6. FaultRight' /\ PutbackRight' /\ fault' = fault
  BY <1>1, <1>2, <1>5, FaultFacts, IdleFacts DEF PutbackRight
<1>7. Keeps(p)
  <2>1. KeptAt(p) => Complete(files'[Self(p)])
    BY <1>1, <1>2, <1>4 DEF KeptAt
  <2>2. Complete(files'[Self(p)]) => KeptAt(p)'
    BY <1>1, <1>5, IdleFacts DEF KeptAt
  <2>3. QED
    BY <2>1, <2>2 DEF Keeps
<1>8. \A q \in Paths : q # p => Keeps(q)
  BY <1>4, <1>5, KeptElse
<1>9. KeptRight'
  BY <1>7, <1>8, KeptFrom
<1>10. job'.op # "launch" /\ SameSeen
  BY <1>1, <1>4, <1>5, IdleFacts, PlainSeen
<1>11. SeenOp = PutOp(p, job.ver, FALSE)
  <2>1. SeenOp = PutOp(p, job.ver, job.at = "rename" /\ files[Self(p)] = NoFile)
    BY <1>1, SeenFacts
  <2>2. (job.at = "rename" /\ files[Self(p)] = NoFile) = FALSE
    BY <1>1
  <2>3. QED
    BY <2>1, <2>2
<1>12. Mapped
  <2>1. CASE UNCHANGED <<job, answer>>
    <3>1. SeenOp' = PutOp(p, job.ver, (job.at = "rename" /\ files[Self(p)] = NoFile)')
      BY <1>1, <2>1, SeenFacts
    <3>2. (job.at = "rename" /\ files[Self(p)] = NoFile)' = FALSE
      BY <1>1, <2>1
    <3>3. SeenOp' = SeenOp
      BY <1>11, <3>1, <3>2
    <3>4. QED
      BY <1>6, <1>10, <2>1, <3>3, StepSame
  <2>2. CASE job' = Idle /\ answer' = "error"
    BY <1>6, <1>10, <1>11, <2>2, SeenFacts, IdleFacts, StepFinish
  <2>3. QED
    BY <1>5, <2>1, <2>2
<1>13. QED
  BY <1>6, <1>9, <1>12 DEF Settled

\* Whatever changes only the file at a path and its neighbours.
LEMMA ElseSame ==
    ASSUME NEW p \in Paths,
           \A m \in Names : m # Self(p) /\ m # Upload(p) /\ m # Launch(p) => files'[m] = files[m]
    PROVE  \A q \in Paths : q # p => /\ files'[Self(q)] = files[Self(q)]
                                     /\ files'[Upload(q)] = files[Upload(q)]
                                     /\ files'[Launch(q)] = files[Launch(q)]
BY NameFacts

LEMMA PutGap ==
    /\ job.op = "put" /\ job.at = "rename" /\ files[Self(job.path)] = NoFile
         => SeenOp = PutOp(job.path, job.ver, TRUE)
    /\ job.op = "put" /\ (job.at # "rename" \/ files[Self(job.path)] # NoFile)
         => SeenOp = PutOp(job.path, job.ver, FALSE)
    /\ job'.op = "put" /\ job'.at = "rename" /\ files'[Self(job'.path)] = NoFile
         => SeenOp' = PutOp(job'.path, job'.ver, TRUE)
    /\ job'.op = "put" /\ (job'.at # "rename" \/ files'[Self(job'.path)] # NoFile)
         => SeenOp' = PutOp(job'.path, job'.ver, FALSE)
<1> DEFINE gap == job.at = "rename" /\ files[Self(job.path)] = NoFile
           gap1 == job'.at = "rename" /\ files'[Self(job'.path)] = NoFile
<1>1. gap \in BOOLEAN /\ gap1 \in BOOLEAN
  OBVIOUS
<1>2. /\ job.op = "put" => SeenOp = PutOp(job.path, job.ver, gap)
      /\ job'.op = "put" => SeenOp' = PutOp(job'.path, job'.ver, gap1)
  BY SeenFacts
<1>3. (gap => gap = TRUE) /\ (~gap => gap = FALSE) /\ (gap1 => gap1 = TRUE) /\ (~gap1 => gap1 = FALSE)
  BY <1>1
<1>4. /\ gap <=> job.at = "rename" /\ files[Self(job.path)] = NoFile
      /\ gap1 <=> job'.at = "rename" /\ files'[Self(job'.path)] = NoFile
  OBVIOUS
<1> HIDE DEF gap, gap1
<1>5. QED
  BY <1>2, <1>3, <1>4

LEMMA PutRemoveSettled ==
    ASSUME Full, KeptNext, FaultStep, PutRemove
    PROVE  Settled
<1>1. job.op = "put" /\ job.at = "body" /\ answer' = answer
  BY DEF PutRemove
<1> PICK p \in Paths : p = job.path
  BY <1>1, PutKnown
<1>2. /\ job \in Jobs /\ job # Idle /\ files \in Card /\ Self(p) \in Names
      /\ "rename" \in PutAts
  BY <1>1, PutKnown DEF PutAts
<1> DEFINE next == [job EXCEPT !.at = "rename"]
<1>3. /\ next \in Jobs /\ next.op = "put" /\ next.at = "rename" /\ next.path = p
      /\ next.ver = job.ver /\ next.faulty = job.faulty
  BY <1>1, <1>2, JobAt
<1>4. Remove(Self(p), next)
  BY DEF PutRemove
<1> HIDE DEF next
<1>5. /\ files'[Self(p)] \in {files[Self(p)], NoFile}
      /\ \A m \in Names : m # Self(p) => files'[m] = files[m]
      /\ job' \in Jobs /\ job'.op = "put" /\ job'.at = "rename" /\ job'.path = p
      /\ job'.ver = job.ver
      /\ \/ job'.faulty = job.faulty
         \/ job'.faulty /\ files' = files /\ files[Self(p)] # NoFile
  BY <1>2, <1>3, <1>4, RemoveFacts
<1>6. job' # Idle
  BY <1>5, JobFacts
<1>7. FaultRight' /\ PutbackRight'
  BY <1>5, FaultFacts DEF PutbackRight
<1>8. \A q \in Paths : q # p => /\ files'[Self(q)] = files[Self(q)]
                                /\ files'[Upload(q)] = files[Upload(q)]
                                /\ files'[Launch(q)] = files[Launch(q)]
  BY <1>5, ElseSame
<1>9. KeptRight'
  <2>1. KeptAt(p) => Complete(files[Self(p)])
    BY <1>1, <1>2 DEF KeptAt
  <2>2. Complete(files'[Self(p)]) \/ Complete(files[Self(p)]) => KeptAt(p)'
    BY <1>5, <1>6 DEF KeptAt
  <2>3. Keeps(p)
    BY <2>1, <2>2 DEF Keeps
  <2>4. \A q \in Paths : q # p => Keeps(q)
    BY <1>5, <1>8, KeptElse
  <2>5. QED
    BY <2>3, <2>4, KeptFrom
<1>10. SeenElsewhere(p) /\ Seen(p) = View(files[Self(p)]) /\ Seen(p)' = View(files'[Self(p)])
  BY <1>1, <1>5, <1>8, SeenAt DEF SeenElsewhere
<1>11. SeenOp = PutOp(p, job.ver, FALSE)
  BY <1>1, PutGap
<1>12. Mapped
  <2>1. CASE files'[Self(p)] = NoFile
    <3>1. SeenOp' = PutOp(p, job.ver, TRUE) /\ Seen(p)' = NoFile
      BY <1>5, <1>10, <2>1, PutGap DEF View
    <3>2. fault' = fault
      BY <1>2, <1>5, <1>6, <2>1, FaultFacts
    <3>3. QED
      BY <1>1, <1>10, <1>11, <3>1, <3>2, StepVacate
  <2>2. CASE files'[Self(p)] # NoFile
    <3>1. SeenOp' = SeenOp /\ SameSeen
      BY <1>5, <1>10, <1>11, <2>2, PutGap DEF SameSeen, SeenElsewhere
    <3>2. fault' = fault \/ fault' = TRUE
      BY <1>2, <1>5, <1>6, FaultFacts
    <3>3. QED
      BY <1>1, <3>1, <3>2, StepSame, StepFail
  <2>3. QED
    BY <2>1, <2>2
<1>13. QED
  BY <1>7, <1>9, <1>12 DEF Settled

LEMMA PutRenameSettled ==
    ASSUME Full, KeptNext,
           (PutRename /\ FaultStep) \/ (PutRenameFails /\ fault' = TRUE)
    PROVE  Settled
<1>1. job.op = "put" /\ job.at = "rename" /\ job' = Idle
  BY EndFacts DEF PutRename, PutRenameFails
<1> PICK p \in Paths : p = job.path
  BY <1>1, PutKnown
<1>2. /\ job \in Jobs /\ job # Idle /\ files \in Card /\ Self(p) \in Names /\ Upload(p) \in Names
      /\ Self(p) # Upload(p) /\ files[Upload(p)] \in File /\ files[Upload(p)].size = Parts
      /\ files[Upload(p)].ver = job.ver /\ files[Upload(p)] # NoFile /\ Upload(p) \notin held
  BY <1>1, PutKnown, FileFacts
<1>3. FaultRight' /\ PutbackRight'
  BY <1>1, IdleFacts DEF PutbackRight, FaultRight
<1>4. SeenOp' = NoOp
  BY <1>1, SeenFacts, IdleFacts
<1>5. CASE CanRename(Upload(p), Self(p)) /\ files' = Moved(Upload(p), Self(p)) /\ End(TRUE)
           /\ FaultStep
  <2>1. /\ files'[Self(p)] = files[Upload(p)]
        /\ \A m \in Names : m # Self(p) /\ m # Upload(p) => files'[m] = files[m]
    BY <1>2, <1>5, MovedFacts
  <2>2. \A q \in Paths : q # p => /\ files'[Self(q)] = files[Self(q)]
                                  /\ files'[Upload(q)] = files[Upload(q)]
                                  /\ files'[Launch(q)] = files[Launch(q)]
    BY <2>1, ElseSame
  <2>3. Keeps(p)
    BY <1>1, <1>2, <2>1, IdleFacts DEF Keeps, KeptAt, Complete
  <2>4. KeptRight'
    BY <1>1, <2>2, <2>3, KeptElse, KeptFrom
  <2>5. SeenElsewhere(p) /\ Seen(p)' = job.ver
    BY <1>1, <1>2, <2>1, <2>2, SeenAt, IdleFacts DEF View, SeenElsewhere
  <2>6. SeenOp = PutOp(p, job.ver, TRUE)
    BY <1>1, <1>5, PutGap DEF CanRename
  <2>7. fault' = fault /\ answer' = "ok"
    BY <1>1, <1>2, <1>5, FaultFacts DEF End
  <2>8. Mapped
    BY <1>4, <2>5, <2>6, <2>7, StepCommit
  <2>9. QED
    BY <1>3, <2>4, <2>8 DEF Settled
<1>6. CASE files' = Without(Upload(p)) /\ End(FALSE)
  <2>1. \A m \in Names : m # Upload(p) => files'[m] = files[m]
    BY <1>2, <1>6, WithoutFacts
  <2>2. \A q \in Paths : /\ files'[Self(q)] = files[Self(q)]
                         /\ files'[Launch(q)] = files[Launch(q)]
                         /\ q # p => files'[Upload(q)] = files[Upload(q)]
    BY <2>1, UploadOnly, NameFacts
  <2>3. SameSeen
    BY <1>1, <2>2, PlainSeen, IdleFacts
  <2>4. \/ files[Self(p)] # NoFile /\ FaultStep
        \/ PutRenameFails /\ fault' = TRUE
    BY <1>2, <1>6 DEF PutRename, CanRename, Reaches, End
  <2>5. Keeps(p)
    <3>1. KeptAt(p) /\ ~Forfeits(p) => Complete(files'[Self(p)])
      BY <1>1, <1>2, <2>2, <2>4 DEF KeptAt, Forfeits
    <3>2. Complete(files'[Self(p)]) => KeptAt(p)'
      BY <1>1, IdleFacts DEF KeptAt
    <3>3. QED
      BY <3>1, <3>2 DEF Keeps
  <2>6. KeptRight'
    BY <1>1, <2>2, <2>5, KeptElse, KeptFrom
  <2>7. answer' = "error"
    BY <1>6 DEF End
  <2>8. Mapped
    <3>1. CASE files[Self(p)] # NoFile /\ FaultStep
      <4>1. SeenOp = PutOp(p, job.ver, FALSE) /\ fault' = fault
        BY <1>1, <1>2, <3>1, PutGap, FaultFacts
      <4>2. QED
        BY <1>4, <2>3, <2>7, <4>1, StepFinish
    <3>2. CASE fault' = TRUE
      <4>1. \E gap : SeenOp = PutOp(p, job.ver, gap)
        BY <1>1, SeenFacts
      <4>2. QED
        BY <1>4, <2>3, <2>7, <3>2, <4>1, StepInterruptPut
    <3>3. QED
      BY <2>4, <3>1, <3>2
  <2>9. QED
    BY <1>3, <2>6, <2>8 DEF Settled
<1>7. QED
  BY <1>5, <1>6 DEF PutRename, PutRenameFails

LEMMA WholeSettled ==
    ASSUME Full, KeptNext, FaultStep, Whole
    PROVE  Settled
<1>1. job = Idle /\ job' = Idle /\ job.op = "idle" /\ job'.op = "idle" /\ files \in Card
  BY IdleFacts, EndFacts, Types
     DEF Full, Base, Whole, post_move, get_files, RefusePath, files_delete_path,
         files_move_path
<1>2. /\ fault' \in BOOLEAN /\ FaultRight' /\ PutbackRight' /\ SeenOp = NoOp /\ SeenOp' = NoOp
  BY <1>1, FaultFacts, SeenFacts DEF PutbackRight
<1>3. \A q \in Paths : Seen(q) = View(files[Self(q)]) /\ Seen(q)' = View(files'[Self(q)])
  BY <1>1, SeenAt
<1>4. CASE files' = files
  BY <1>1, <1>4, NothingDone
<1>5. CASE \E p \in Paths : Reaches(Self(p)) /\ files' = Without(Self(p)) /\ End(TRUE)
  <2>1. PICK p \in Paths : Reaches(Self(p)) /\ files' = Without(Self(p)) /\ End(TRUE)
    BY <1>5
  <2>2. /\ Self(p) \in Names /\ files'[Self(p)] = NoFile /\ files[Self(p)] # NoFile
        /\ \A m \in Names : m # Self(p) => files'[m] = files[m]
    BY <1>1, <2>1, NameFacts, WithoutFacts DEF Reaches
  <2>3. \A q \in Paths : q # p => /\ files'[Self(q)] = files[Self(q)]
                                  /\ files'[Upload(q)] = files[Upload(q)]
                                  /\ files'[Launch(q)] = files[Launch(q)]
    BY <2>2, ElseSame
  <2>4. Keeps(p)
    BY <1>1, <2>2 DEF Keeps, Forfeits, Complete
  <2>5. KeptRight'
    BY <1>1, <2>3, <2>4, KeptElse, KeptFrom
  <2>6. Seen(p)' = NoFile /\ SeenElsewhere(p) /\ answer' = "ok"
    BY <1>3, <2>1, <2>2, <2>3 DEF View, SeenElsewhere, End
  <2>7. Mapped
    BY <1>2, <2>6, StepDelete
  <2>8. QED
    BY <1>2, <2>5, <2>7 DEF Settled
<1>6. CASE \E p, q \in Paths : /\ p # q /\ CanRename(Self(p), Self(q))
                               /\ files' = Moved(Self(p), Self(q)) /\ End(TRUE)
  <2>1. PICK p \in Paths, q \in Paths : /\ p # q /\ CanRename(Self(p), Self(q))
                                        /\ files' = Moved(Self(p), Self(q)) /\ End(TRUE)
    BY <1>6
  <2>2. Self(p) \in Names /\ Self(q) \in Names /\ Self(p) # Self(q)
    BY <2>1, NameFacts
  <2>3. /\ files[Self(p)] # NoFile /\ files[Self(q)] = NoFile
        /\ files'[Self(p)] = NoFile /\ files'[Self(q)] = files[Self(p)]
        /\ \A m \in Names : m # Self(p) /\ m # Self(q) => files'[m] = files[m]
    BY <1>1, <2>1, <2>2, MovedFacts DEF CanRename, Reaches
  <2>4. \A r \in Paths : /\ files'[Upload(r)] = files[Upload(r)]
                         /\ files'[Launch(r)] = files[Launch(r)]
                         /\ r # p /\ r # q => files'[Self(r)] = files[Self(r)]
    BY <2>3, NameFacts
  <2>5. Keeps(p)
    BY <1>1, <2>3 DEF Keeps, Forfeits, Complete
  <2>6. Keeps(q)
    <3>1. KeptAt(q) => Complete(files[Upload(q)]) \/ Complete(files[Launch(q)])
      BY <1>1, <2>3 DEF KeptAt, Complete
    <3>2. QED
      BY <1>1, <2>4, <3>1 DEF Keeps, KeptAt
  <2>7. KeptRight'
    BY <1>1, <2>4, <2>5, <2>6, KeptElse, KeptFrom
  <2>8. /\ Seen(q) = NoFile /\ Seen(p)' = NoFile /\ Seen(q)' = Seen(p)
        /\ \A r \in Paths : r # p /\ r # q => Seen(r)' = Seen(r)
    BY <1>3, <2>3, <2>4 DEF View
  <2>9. answer' = "ok"
    BY <2>1 DEF End
  <2>10. Mapped
    BY <1>2, <2>1, <2>8, <2>9, StepMove
  <2>11. QED
    BY <1>2, <2>7, <2>10 DEF Settled
<1>7. QED
  BY <1>4, <1>5, <1>6
     DEF Whole, post_move, get_files, RefusePath, files_delete_path, files_move_path

\* The removal of a directory: nothing goes with it, or it was not seen.
LEMMA DirectorySettled ==
    ASSUME HbmenuPrompt, Full, KeptNext, FaultStep, DeleteLook \/ DeleteDirectory
    PROVE  Settled
<1>1. /\ job.op \in {"idle", "rmdir"} /\ job'.op \in {"idle", "rmdir"} /\ files \in Card
      /\ job.op = "rmdir" => job # Idle
  BY IdleFacts, EndFacts, RmdirFacts, Types DEF Full, Base, DeleteLook, DeleteDirectory
<1>2. /\ fault' \in BOOLEAN /\ FaultRight' /\ PutbackRight' /\ SeenOp = NoOp /\ SeenOp' = NoOp
  BY <1>1, FaultFacts, SeenFacts DEF PutbackRight
<1>3. \A q \in Paths : Seen(q) = View(files[Self(q)]) /\ Seen(q)' = View(files'[Self(q)])
  BY <1>1, SeenAt
<1>4. CASE \A n \in Names : files'[n] = files[n]
  <2>1. SameSeen
    BY <1>3, <1>4, NameFacts DEF SameSeen
  <2>2. KeptRight'
    BY <1>1, <1>4, NameFacts, KeptElse, KeptFrom
  <2>3. QED
    BY <1>2, <2>1, <2>2, StepReply DEF Settled
<1>5. CASE /\ job.op = "rmdir" /\ ~Empty /\ dir' = FALSE /\ End(TRUE)
           /\ files' = [n \in Names |-> IF n[1] \in Nested THEN NoFile ELSE files[n]]
  <2>1. job.faulty /\ dir
    BY <1>5 DEF Full, Base, LookRight, NoOrphans, Empty
  <2>2. fault = TRUE /\ fault' = TRUE /\ answer' = "ok"
    BY <1>1, <1>5, <2>1, FaultFacts DEF Full, FaultRight, End
  <2>3. \A q \in Paths : Keeps(q)
    <3>1. TAKE q \in Paths
    <3>2. CASE q \in Nested
      BY <1>5, <2>1, <3>2, NameFacts DEF Keeps, Forfeits, Complete
    <3>3. CASE q \notin Nested
      BY <1>1, <1>5, <3>3, NameFacts, KeptElse
    <3>4. QED
      BY <3>2, <3>3
  <2>4. KeptRight'
    BY <2>3, KeptFrom
  <2>5. \A q \in Nested : Seen(q)' = NoFile
    BY <1>3, <1>5, NameFacts, SdCardAssumption DEF View
  <2>6. \A q \in Paths \ Nested : Seen(q)' = Seen(q)
    BY <1>3, <1>5, NameFacts
  <2>7. Nested \in SUBSET Paths
    BY SdCardAssumption
  <2>8. Mapped
    BY <1>2, <2>2, <2>5, <2>6, <2>7, StepWipe
  <2>9. QED
    BY <1>2, <2>4, <2>8 DEF Settled
<1>6. QED
  BY <1>4, <1>5 DEF DeleteLook, DeleteDirectory, Empty

\* While a directory is being removed nothing else writes to the card.
LEMMA LookNext ==
    ASSUME HbmenuPrompt, Full, Next
    PROVE  LookRight'
<1>1. SUFFICES ASSUME job'.op = "rmdir", ~job'.faulty PROVE Empty'
  BY DEF LookRight
<1>2. job' # Idle /\ \A ok : ~End(ok)
  BY <1>1, IdleFacts DEF End
<1>3. job.op \in {"put", "launch"} => job \in Jobs
  BY Types DEF Full, Base
<1>4. CASE DeleteLook
  BY <1>1, <1>2, <1>4, RmdirFacts DEF DeleteLook, Empty
<1>5. CASE HbmenuStep
  <2>1. job' = job /\ ~Connected
    BY <1>1, <1>5 DEF HbmenuStep, HbmenuListens, HbmenuAnswers, HbmenuWrites, HbmenuCloses, Connected
  <2>2. files' = files
    BY <1>5, <2>1 DEF HbmenuStep, HbmenuListens, HbmenuAnswers, HbmenuWrites, HbmenuCloses
  <2>3. QED
    BY <1>1, <2>1, <2>2 DEF Full, LookRight, Empty
<1>6. ~PowerLoss /\ ~CardFails
  BY <1>2 DEF PowerLoss, CardFails, PutRenameFails, LaunchPutbackFails
<1>7. \A p \in Paths, v \in Versions : ~PutOpen(p, v)
  <2>1. \A p, v : Job("put", "body", p, v).op = "put"
    BY DEF Job
  <2>2. QED
    BY <1>1, <1>2, <2>1 DEF PutOpen
<1>8. ~PutBody /\ ~PutRename /\ ~DeleteDirectory /\ ~Whole
  BY <1>1, <1>2 DEF PutBody, PutRename, DeleteDirectory, Whole, RefusePath, files_delete_path,
                    post_move, files_move_path, get_files
<1>9. ~PutRemove
  BY <1>1, <1>3 DEF PutRemove, Remove, Jobs
<1>10. \A p \in Paths : ~LaunchConnect(p)
  <2>1. \A p, v : Job("launch", "clear", p, v).op = "launch"
    BY DEF Job
  <2>2. QED
    BY <1>1, <1>2, <2>1 DEF LaunchConnect
<1>11. ~LaunchClear /\ ~LaunchRestore
  BY <1>1, <1>3 DEF LaunchClear, LaunchRestore, Remove, Jobs
<1>12. ~LaunchAside /\ ~LaunchAsk /\ ~LaunchAnswered /\ ~LaunchSend /\ ~LaunchConfirm /\ ~LaunchSettle
  BY <1>1, <1>2, <1>3 DEF LaunchAside, LaunchAsk, LaunchAnswered, LaunchSend, LaunchConfirm,
                          LaunchSettle, Fails, Jobs
<1>13. ~LaunchDiscard /\ ~LaunchPutback
  BY <1>2 DEF LaunchDiscard, LaunchPutback
<1>14. QED
  BY <1>4, <1>5, <1>6, <1>7, <1>8, <1>9, <1>10, <1>11, <1>12, <1>13
     DEF Next, FilesStep, LauncherStep, delete_files, tool_delete_file, tool_move_file, Whole

\* A step of a launch, or of hbmenu or the power beside it: the path of the launch apart.
LEMMA LaunchElse ==
    ASSUME Full, KeptNext, NEW p \in Paths, job = Idle \/ job.path = p,
           job' = Idle \/ job'.path = p, Keeps(p),
           \A m \in Names : m # Self(p) /\ m # Upload(p) /\ m # Launch(p) => files'[m] = files[m]
    PROVE  KeptRight' /\ SeenElsewhere(p)
<1>1. \A q \in Paths : q # p => /\ files'[Self(q)] = files[Self(q)]
                                /\ files'[Upload(q)] = files[Upload(q)]
                                /\ files'[Launch(q)] = files[Launch(q)]
  BY ElseSame
<1>2. KeptRight'
  BY <1>1, KeptElse, KeptFrom
<1>3. SeenElsewhere(p)
  BY <1>1, SeenAt, IdleFacts DEF SeenElsewhere
<1>4. QED
  BY <1>2, <1>3

LEMMA LaunchConnectSettled ==
    ASSUME Full, KeptNext, FaultStep, NEW p \in Paths, LaunchConnect(p)
    PROVE  Settled
<1>1. job = Idle /\ job.op = "idle" /\ files' = files
  BY IdleFacts DEF LaunchConnect
<1>2. CASE End(FALSE)
  BY <1>1, <1>2, EndFacts, NothingDone
<1>3. CASE /\ p \in Nros /\ Reaches(Self(p))
           /\ job' = Job("launch", "clear", p, files[Self(p)].ver) /\ answer' = "none"
  <2>1. "clear" \in LaunchAts /\ files[Self(p)].ver \in Versions
    BY <1>3, NameFacts, FileFacts, Types DEF LaunchAts, Full, Base, Reaches
  <2>2. /\ job' \in Jobs /\ job'.op = "launch" /\ job'.at = "clear" /\ job'.path = p
        /\ ~job'.faulty /\ job' # Idle
    BY <1>3, <2>1, NewJob, JobFacts
  <2>3. FaultRight' /\ PutbackRight' /\ fault' = FALSE
    BY <1>1, <2>2, FaultFacts DEF PutbackRight
  <2>4. Keeps(p)
    BY <1>1, <2>2 DEF Keeps, Forfeits, KeptAt
  <2>5. KeptRight' /\ SeenElsewhere(p)
    BY <1>1, <2>2, <2>4, LaunchElse
  <2>6. Seen(p)' = Seen(p)
    BY <1>1, <2>2, SeenAt
  <2>7. SameSeen /\ SeenOp = NoOp /\ SeenOp' = LaunchOp(p)
    BY <1>1, <2>2, <2>5, <2>6, SeenFacts DEF SameSeen, SeenElsewhere
  <2>8. Mapped
    BY <1>3, <2>3, <2>7, StepBegin
  <2>9. QED
    BY <2>3, <2>5, <2>8 DEF Settled
<1>4. QED
  BY <1>2, <1>3 DEF LaunchConnect

LEMMA LaunchClearSettled ==
    ASSUME Full, KeptNext, FaultStep, LaunchClear
    PROVE  Settled
<1> DEFINE next == [job EXCEPT !.at = "aside"]
<1>1. /\ job.op = "launch" /\ job.at = "clear" /\ answer' = answer
      /\ Remove(Launch(job.path), next)
  BY DEF LaunchClear
<1> PICK p \in Paths : p = job.path
  BY <1>1, LaunchKnown DEF Full
<1>2. /\ job \in Jobs /\ job # Idle /\ files \in Card /\ Self(p) \in Names /\ Launch(p) \in Names
      /\ Self(p) # Launch(p) /\ "aside" \in LaunchAts
  BY <1>1, LaunchKnown, JobFacts DEF Full, LaunchAts
<1>3. /\ next \in Jobs /\ next.op = "launch" /\ next.at = "aside" /\ next.path = p
      /\ next.faulty = job.faulty
  BY <1>1, <1>2, JobAt
<1> HIDE DEF next
<1>4. /\ \A m \in Names : m # Launch(p) => files'[m] = files[m]
      /\ job' \in Jobs /\ job'.op = "launch" /\ job'.at = "aside" /\ job'.path = p
      /\ job'.faulty = job.faulty \/ job'.faulty
  BY <1>1, <1>2, <1>3, RemoveFacts
<1>5. job' # Idle /\ files'[Self(p)] = files[Self(p)]
  BY <1>2, <1>4, JobFacts
<1>6. FaultRight' /\ PutbackRight' /\ (fault' = fault \/ fault' = TRUE)
  BY <1>2, <1>4, <1>5, FaultFacts DEF PutbackRight
<1>7. Keeps(p)
  BY <1>1, <1>2, <1>4, <1>5 DEF Keeps, KeptAt
<1>8. KeptRight' /\ SeenElsewhere(p)
  BY <1>4, <1>7, LaunchElse
<1>9. SameSeen /\ SeenOp' = SeenOp
  BY <1>1, <1>4, <1>5, <1>8, SeenAt, SeenFacts DEF SameSeen, SeenElsewhere
<1>10. Mapped
  BY <1>1, <1>6, <1>9, StepSame, StepFail
<1>11. QED
  BY <1>6, <1>8, <1>10 DEF Settled

LEMMA LaunchAsideSettled ==
    ASSUME Full, KeptNext, FaultStep, LaunchAside
    PROVE  Settled
<1>1. job.op = "launch" /\ job.at = "aside"
  BY DEF LaunchAside
<1> PICK p \in Paths : p = job.path
  BY <1>1, LaunchKnown DEF Full
<1>2. /\ job \in Jobs /\ job # Idle /\ files \in Card /\ Self(p) \in Names /\ Launch(p) \in Names
      /\ Self(p) # Launch(p) /\ "ask" \in LaunchAts
  BY <1>1, LaunchKnown, JobFacts DEF Full, LaunchAts
<1>3. SeenOp = LaunchOp(p) /\ Seen(p) = View(files[Self(p)])
  BY <1>1, SeenFacts, SeenAt
<1>4. CASE files' = files /\ End(FALSE)
  <2>1. job' = Idle
    BY <1>4, EndFacts
  <2>2. FaultRight' /\ PutbackRight' /\ fault' = fault
    BY <1>2, <2>1, FaultFacts, IdleFacts DEF PutbackRight
  <2>3. Keeps(p)
    BY <1>1, <1>2, <1>4, <2>1, IdleFacts DEF Keeps, KeptAt
  <2>4. KeptRight' /\ SeenElsewhere(p)
    BY <1>4, <2>1, <2>3, LaunchElse
  <2>5. SameSeen /\ SeenOp' = NoOp
    BY <1>3, <1>4, <2>1, <2>4, SeenAt, SeenFacts, IdleFacts DEF SameSeen, SeenElsewhere
  <2>6. Mapped
    BY <1>3, <2>2, <2>5, StepFinish
  <2>7. QED
    BY <2>2, <2>4, <2>6 DEF Settled
<1>5. CASE /\ files' = Moved(Self(p), Launch(p)) /\ answer' = answer
           /\ job' = [job EXCEPT !.at = "ask"]
  <2>1. /\ job' \in Jobs /\ job'.op = "launch" /\ job'.at = "ask" /\ job'.path = p
        /\ job'.faulty = job.faulty
    BY <1>1, <1>2, <1>5, JobAt
  <2>2. /\ files'[Launch(p)] = files[Self(p)] /\ files'[Self(p)] = NoFile
        /\ \A m \in Names : m # Self(p) /\ m # Launch(p) => files'[m] = files[m]
    BY <1>2, <1>5, MovedFacts
  <2>3. job' # Idle
    BY <2>1, JobFacts
  <2>4. FaultRight' /\ PutbackRight' /\ fault' = fault
    BY <1>2, <2>1, <2>3, FaultFacts DEF PutbackRight
  <2>5. Keeps(p)
    BY <1>1, <1>2, <2>1, <2>2, <2>3 DEF Keeps, KeptAt, Complete
  <2>6. KeptRight' /\ SeenElsewhere(p)
    BY <2>1, <2>2, <2>5, LaunchElse
  <2>7. SameSeen /\ SeenOp' = SeenOp
    BY <1>3, <2>1, <2>2, <2>6, SeenAt, SeenFacts DEF SameSeen, SeenElsewhere
  <2>8. Mapped
    BY <1>5, <2>4, <2>7, StepSame
  <2>9. QED
    BY <2>4, <2>6, <2>8 DEF Settled
<1>6. QED
  BY <1>4, <1>5 DEF LaunchAside

\* hbmenu's file at the path never holds more than the copy does.
LEMMA WithinCopy ==
    /\ Base /\ job.op = "launch" /\ job.at \notin {"clear", "aside"} =>
          LET own == files[Self(job.path)]
              copy == files[Launch(job.path)]
          IN  /\ copy \in File /\ copy # NoFile
              /\ Complete(own) => Complete(copy)
              /\ View(own) \in {View(copy), NoFile, "torn"}
              /\ job.ok /\ own # NoFile => /\ View(own) = View(copy)
                                           /\ Complete(copy) => Complete(own)
    /\ Base' /\ job'.op = "launch" /\ job'.at \notin {"clear", "aside"} =>
          LET own == files'[Self(job'.path)]
              copy == files'[Launch(job'.path)]
          IN  /\ Complete(own) => Complete(copy)
              /\ job'.ok /\ own # NoFile => View(own) = View(copy)
<1>1. ASSUME NEW own \in File \cup {NoFile}, NEW copy \in File \cup {NoFile}, NEW v, copy # NoFile,
             copy.ver = v, own # NoFile => own.ver = v /\ own.size <= copy.size
      PROVE  /\ copy \in File
             /\ Complete(own) => Complete(copy)
             /\ View(own) \in {View(copy), NoFile, "torn"}
             /\ own # NoFile /\ own.size = copy.size => View(own) = View(copy)
  <2>1. copy \in File /\ copy.size \in Nat /\ copy.size <= Parts /\ Parts \in Nat
    BY <1>1, FileFacts
  <2>2. own # NoFile => own.size \in Nat
    BY <1>1, FileFacts
  <2>3. Complete(own) => Complete(copy)
    BY <1>1, <2>1, <2>2 DEF Complete
  <2>4. QED
    BY <1>1, <2>1, <2>3 DEF Complete, View
<1>2. ASSUME Base, job.op = "launch", job.at \notin {"clear", "aside"}
      PROVE  LET own == files[Self(job.path)]
                 copy == files[Launch(job.path)]
             IN  /\ copy \in File /\ copy # NoFile
                 /\ Complete(own) => Complete(copy)
                 /\ View(own) \in {View(copy), NoFile, "torn"}
                 /\ job.ok /\ own # NoFile => /\ View(own) = View(copy)
                                              /\ Complete(copy) => Complete(own)
  <2> DEFINE own == files[Self(job.path)]
             copy == files[Launch(job.path)]
  <2>1. own \in File \cup {NoFile} /\ copy \in File \cup {NoFile}
    BY <1>2, LaunchKnown
  <2>2. /\ copy # NoFile /\ copy.ver = job.ver
        /\ own # NoFile => own.ver = job.ver /\ own.size <= copy.size
        /\ job.ok /\ own # NoFile => own.size = copy.size
    BY <1>2 DEF Base, LaunchRight, Original
  <2> HIDE DEF own, copy
  <2>3. /\ copy \in File
        /\ Complete(own) => Complete(copy)
        /\ View(own) \in {View(copy), NoFile, "torn"}
        /\ own # NoFile /\ own.size = copy.size => View(own) = View(copy)
    BY <1>1, <2>1, <2>2
  <2>4. own # NoFile /\ own.size = copy.size /\ Complete(copy) => Complete(own)
    BY DEF Complete
  <2>5. QED
    BY <2>2, <2>3, <2>4 DEF own, copy
<1>3. ASSUME Base', job'.op = "launch", job'.at \notin {"clear", "aside"}
      PROVE  LET own == files'[Self(job'.path)]
                 copy == files'[Launch(job'.path)]
             IN  /\ Complete(own) => Complete(copy)
                 /\ job'.ok /\ own # NoFile => View(own) = View(copy)
  <2> DEFINE own == files'[Self(job'.path)]
             copy == files'[Launch(job'.path)]
  <2>1. own \in File \cup {NoFile} /\ copy \in File \cup {NoFile}
    <3>1. files' \in Card /\ job' \in Jobs \cup Rmdirs \cup {Idle}
      BY <1>3 DEF Base, TypeOK, Card
    <3>2. job'.path \in Paths
      BY <1>3, <3>1, JobFacts, RmdirFacts, IdleFacts
    <3>3. QED
      BY <3>1, <3>2, NameFacts DEF Card
  <2>2. /\ copy # NoFile /\ copy.ver = job'.ver
        /\ own # NoFile => own.ver = job'.ver /\ own.size <= copy.size
        /\ job'.ok /\ own # NoFile => own.size = copy.size
    BY <1>3 DEF Base, LaunchRight, Original
  <2> HIDE DEF own, copy
  <2>3. /\ Complete(own) => Complete(copy)
        /\ own # NoFile /\ own.size = copy.size => View(own) = View(copy)
    BY <1>1, <2>1, <2>2
  <2>4. QED
    BY <2>2, <2>3 DEF own, copy
<1>4. QED
  BY <1>2, <1>3

\* From the question to hbmenu until its file is looked for, and giving up.
LEMMA LaunchMiddle ==
    ASSUME Full, Base', KeptNext, FaultStep, job.op = "launch",
           job.at \notin {"clear", "aside", "discard"}, files' = files, answer' = answer,
           job' \in Jobs, job'.op = "launch", job'.at \notin {"clear", "aside", "putback"},
           job'.path = job.path, job'.faulty = job.faulty
    PROVE  Settled
<1> PICK p \in Paths : p = job.path
  BY LaunchKnown DEF Full
<1>1. job \in Jobs /\ job # Idle /\ job' # Idle
  BY LaunchKnown, JobFacts DEF Full
<1>2. FaultRight' /\ PutbackRight' /\ fault' = fault
  BY <1>1, FaultFacts DEF PutbackRight
<1>3. Keeps(p)
  <2>1. KeptAt(p) => Complete(files[Launch(p)])
    BY <1>1 DEF KeptAt
  <2>2. Complete(files[Self(p)]) => Complete(files[Launch(p)])
    BY WithinCopy DEF Full
  <2>3. Complete(files'[Launch(p)]) => KeptAt(p)'
    BY <1>1 DEF KeptAt
  <2>4. QED
    BY <2>1, <2>2, <2>3 DEF Keeps
<1>4. KeptRight' /\ SeenElsewhere(p)
  BY <1>3, LaunchElse
<1>5. Seen(p)' = Seen(p)
  <2>1. Seen(p) = View(files[Launch(p)])
    BY SeenAt
  <2>2. CASE job'.at # "discard"
    BY <2>1, <2>2, SeenAt
  <2>3. CASE job'.at = "discard"
    <3>1. Seen(p)' = View(files'[Self(p)])
      BY <2>3, SeenAt
    <3>2. job'.ok /\ files'[Self(p)] # NoFile
      BY <2>3 DEF Base, LaunchRight
    <3>3. QED
      BY <2>1, <3>1, <3>2, WithinCopy
  <2>4. QED
    BY <2>2, <2>3
<1>6. SameSeen /\ SeenOp' = SeenOp
  BY <1>4, <1>5, SeenFacts DEF SameSeen, SeenElsewhere
<1>7. Mapped
  BY <1>2, <1>6, StepSame
<1>8. QED
  BY <1>2, <1>4, <1>7 DEF Settled

LEMMA LaunchTalkSettled ==
    ASSUME Full, Base', KeptNext, FaultStep,
           LaunchAsk \/ LaunchAnswered \/ LaunchSend \/ LaunchConfirm \/ LaunchSettle
    PROVE  Settled
<1>1. /\ job.op = "launch" /\ job.at \notin {"clear", "aside", "discard"} /\ files' = files
      /\ answer' = answer
  BY DEF LaunchAsk, LaunchAnswered, LaunchSend, LaunchConfirm, LaunchSettle
<1>2. job \in Jobs /\ job.sent + 1 \in Nat /\ job.tries + 1 \in Nat
  BY <1>1, LaunchKnown, JobFacts DEF Full
<1>3. "asked" \in LaunchAts /\ "send" \in LaunchAts /\ "discard" \in LaunchAts
  BY DEF LaunchAts
<1>4. /\ job' \in Jobs /\ job'.op = "launch" /\ job'.at \notin {"clear", "aside", "putback"}
      /\ job'.path = job.path /\ job'.faulty = job.faulty
  <2>1. CASE Fails
    BY <1>1, <2>1, FailsFacts DEF Full
  <2>2. CASE LaunchAsk
    <3>1. CASE job' = [job EXCEPT !.at = "asked"]
      BY <1>1, <1>2, <1>3, <3>1, JobAt
    <3>2. QED
      BY <2>2, <2>1, <3>1 DEF LaunchAsk
  <2>3. CASE LaunchAnswered
    <3>1. CASE job' = [job EXCEPT !.at = "send"]
      BY <1>1, <1>2, <1>3, <3>1, JobAt
    <3>2. QED
      BY <2>3, <2>1, <3>1 DEF LaunchAnswered
  <2>4. CASE LaunchSend
    <3>1. ~Fails => \E a \in {"confirm", "send"} :
                       job' = [job EXCEPT !.sent = job.sent + 1, !.at = a]
      BY <2>4 DEF LaunchSend
    <3>2. QED
      BY <1>1, <1>2, <2>1, <3>1 DEF Jobs
  <2>5. CASE LaunchConfirm
    <3>1. ~Fails => job' = [job EXCEPT !.at = "settle", !.ok = TRUE]
      BY <2>5 DEF LaunchConfirm
    <3>2. QED
      BY <1>1, <1>2, <2>1, <3>1 DEF Jobs
  <2>6. CASE LaunchSettle
    <3>1. CASE job' = [job EXCEPT !.at = "discard"]
      BY <1>1, <1>2, <1>3, <3>1, JobAt
    <3>2. CASE job' = [job EXCEPT !.tries = @ + 1]
      BY <1>1, <1>2, <2>6, <3>2 DEF Jobs, LaunchSettle
    <3>3. QED
      BY <2>1, <2>6, <3>1, <3>2 DEF LaunchSettle, Fails
  <2>7. QED
    BY <2>2, <2>3, <2>4, <2>5, <2>6
<1>5. QED
  BY <1>1, <1>4, LaunchMiddle

LEMMA LaunchRestoreSettled ==
    ASSUME HbmenuPrompt, Full, KeptNext, FaultStep, LaunchRestore
    PROVE  Settled
<1> DEFINE next == [job EXCEPT !.at = "putback"]
<1>1. /\ job.op = "launch" /\ job.at = "restore" /\ answer' = answer
      /\ Remove(Self(job.path), next)
      /\ ~job.ok => Self(job.path) \notin held
  BY DEF LaunchRestore
<1> PICK p \in Paths : p = job.path
  BY <1>1, LaunchKnown DEF Full
<1>2. /\ job \in Jobs /\ job # Idle /\ files \in Card /\ Self(p) \in Names /\ Launch(p) \in Names
      /\ Self(p) # Launch(p) /\ "putback" \in LaunchAts
  BY <1>1, LaunchKnown, JobFacts DEF Full, LaunchAts
<1>3. /\ next \in Jobs /\ next.op = "launch" /\ next.at = "putback" /\ next.path = p
      /\ next.ok = job.ok /\ next.faulty = job.faulty
  BY <1>1, <1>2, JobAt
<1> HIDE DEF next
<1>4. /\ \A m \in Names : m # Self(p) => files'[m] = files[m]
      /\ files'[Self(p)] \in {files[Self(p)], NoFile}
      /\ job' \in Jobs /\ job'.op = "launch" /\ job'.at = "putback" /\ job'.path = p
      /\ job'.ok = job.ok
      /\ \/ job'.faulty = job.faulty /\ (files'[Self(p)] # NoFile => Self(p) \in held)
         \/ job'.faulty
  BY <1>1, <1>2, <1>3, RemoveFacts
<1>5. job' # Idle /\ files'[Launch(p)] = files[Launch(p)]
  BY <1>2, <1>4, JobFacts
<1>6. FaultRight' /\ (fault' = fault \/ fault' = TRUE)
  BY <1>2, <1>4, <1>5, FaultFacts
<1>7. PutbackRight'
  BY <1>1, <1>4 DEF PutbackRight
<1>8. Keeps(p)
  <2>1. KeptAt(p) => Complete(files[Launch(p)])
    BY <1>1, <1>2 DEF KeptAt
  <2>2. Complete(files'[Self(p)]) => Complete(files[Launch(p)])
    BY <1>1, <1>4, WithinCopy DEF Full, Complete
  <2>3. Complete(files'[Launch(p)]) => KeptAt(p)'
    BY <1>4, <1>5 DEF KeptAt
  <2>4. QED
    BY <1>5, <2>1, <2>2, <2>3 DEF Keeps
<1>9. KeptRight' /\ SeenElsewhere(p)
  BY <1>4, <1>8, LaunchElse
<1>10. SameSeen /\ SeenOp' = SeenOp
  BY <1>1, <1>4, <1>5, <1>9, SeenAt, SeenFacts DEF SameSeen, SeenElsewhere
<1>11. Mapped
  BY <1>1, <1>6, <1>10, StepSame, StepFail
<1>12. QED
  BY <1>6, <1>7, <1>9, <1>11 DEF Settled

LEMMA LaunchEndSettled ==
    ASSUME HbmenuPrompt, Full, KeptNext,
           \/ (LaunchDiscard \/ LaunchPutback) /\ FaultStep
           \/ LaunchPutbackFails /\ fault' = TRUE
    PROVE  Settled
<1>1. job.op = "launch" /\ job' = Idle /\ job.at \in {"discard", "putback"}
  BY EndFacts DEF LaunchDiscard, LaunchPutback, LaunchPutbackFails
<1> PICK p \in Paths : p = job.path
  BY <1>1, LaunchKnown DEF Full
<1>2. /\ job \in Jobs /\ job # Idle /\ files \in Card /\ Self(p) \in Names /\ Launch(p) \in Names
      /\ Self(p) # Launch(p) /\ job.ok \in BOOLEAN
  BY <1>1, LaunchKnown, JobFacts DEF Full
<1>3. FaultRight' /\ PutbackRight'
  BY <1>1, IdleFacts DEF FaultRight, PutbackRight
<1>4. SeenOp = LaunchOp(p) /\ SeenOp' = NoOp /\ Seen(p)' = View(files'[Self(p)])
  BY <1>1, SeenFacts, SeenAt, IdleFacts
<1>5. KeptAt(p) => Complete(files[Launch(p)])
  BY <1>1, <1>2 DEF KeptAt
<1>6. Complete(files'[Self(p)]) \/ Complete(files'[Launch(p)]) => KeptAt(p)'
  BY <1>1, IdleFacts DEF KeptAt
<1>7. /\ files[Launch(p)] # NoFile
      /\ View(files[Self(p)]) \in {View(files[Launch(p)]), NoFile, "torn"}
      /\ job.ok /\ files[Self(p)] # NoFile =>
            /\ View(files[Self(p)]) = View(files[Launch(p)])
            /\ Complete(files[Launch(p)]) => Complete(files[Self(p)])
  BY <1>1, WithinCopy DEF Full
<1>8. ASSUME Keeps(p), FaultStep, Seen(p)' = Seen(p),
             \A m \in Names : m # Self(p) /\ m # Launch(p) => files'[m] = files[m]
      PROVE  Settled
  <2>1. KeptRight' /\ SeenElsewhere(p)
    BY <1>1, <1>8, LaunchElse
  <2>2. SameSeen /\ fault' = fault
    BY <1>1, <1>2, <1>8, <2>1, FaultFacts DEF SameSeen, SeenElsewhere
  <2>3. Mapped
    BY <1>4, <2>2, StepFinish
  <2>4. QED
    BY <1>3, <2>1, <2>3 DEF Settled
<1>9. ASSUME fault' = TRUE, files' = files, job.at = "putback"
      PROVE  Settled
  <2>1. Keeps(p)
    BY <1>5, <1>6, <1>9 DEF Keeps
  <2>2. KeptRight' /\ SeenElsewhere(p)
    BY <1>1, <1>9, <2>1, LaunchElse
  <2>3. Seen(p) = View(files[Launch(p)])
    BY <1>1, <1>9, SeenAt
  <2>4. Mapped
    BY <1>4, <1>7, <1>9, <2>2, <2>3, StepInterruptLaunch
  <2>5. QED
    BY <1>3, <2>2, <2>4 DEF Settled
<1>10. CASE LaunchDiscard /\ FaultStep
  <2>1. job.at = "discard" /\ job.ok /\ files[Self(p)] # NoFile
    BY <1>1, <1>10 DEF LaunchDiscard, Full, Base, LaunchRight
  <2>2. \A m \in Names : m # Launch(p) => files'[m] = files[m]
    BY <1>2, <1>10, WithoutFacts DEF LaunchDiscard
  <2>3. files'[Self(p)] = files[Self(p)]
    BY <1>2, <2>2
  <2>4. Keeps(p)
    BY <1>5, <1>6, <1>7, <2>1, <2>3 DEF Keeps
  <2>5. Seen(p)' = Seen(p)
    BY <1>1, <1>4, <2>1, <2>3, SeenAt
  <2>6. QED
    BY <1>8, <1>10, <2>2, <2>4, <2>5
<1>11. CASE LaunchPutback /\ FaultStep
  <2>1. job.at = "putback"
    BY <1>11 DEF LaunchPutback
  <2>2. Seen(p) = View(files[Launch(p)])
    BY <1>1, <2>1, SeenAt
  <2>3. CASE files' = Moved(Launch(p), Self(p))
    <3>1. /\ files'[Self(p)] = files[Launch(p)]
          /\ \A m \in Names : m # Self(p) /\ m # Launch(p) => files'[m] = files[m]
      BY <1>2, <2>3, MovedFacts
    <3>2. Keeps(p)
      BY <1>5, <1>6, <3>1 DEF Keeps
    <3>3. Seen(p)' = Seen(p)
      BY <1>4, <2>2, <3>1
    <3>4. QED
      BY <1>8, <1>11, <3>1, <3>2, <3>3
  <2>4. CASE ~CanRename(Launch(p), Self(p)) /\ files' = files
    <3>1. Launch(p) \notin held
      <4>1. held # {} => held = {Self(hbmenu.path)} /\ hbmenu.path \in Paths
        BY Types, NetloaderFacts DEF Full, Base, HeldRight, Busy
      <4>2. QED
        BY <4>1, NameFacts
    <3>2. files[Self(p)] # NoFile
      BY <1>7, <2>4, <3>1 DEF CanRename, Reaches
    <3>3. CASE job.ok
      <4>1. Keeps(p)
        BY <1>5, <1>6, <2>4 DEF Keeps
      <4>2. Seen(p)' = Seen(p)
        BY <1>4, <1>7, <2>2, <2>4, <3>2, <3>3
      <4>3. QED
        BY <1>8, <1>11, <2>4, <4>1, <4>2
    <3>4. CASE ~job.ok
      <4>1. job.faulty
        BY <1>1, <2>1, <3>2, <3>4 DEF Full, PutbackRight
      <4>2. fault
        BY <1>2, <4>1 DEF Full, FaultRight
      <4>3. fault' = TRUE
        BY <1>1, <1>2, <1>11, <4>2, FaultFacts
      <4>4. QED
        BY <1>9, <2>1, <2>4, <4>3
    <3>5. QED
      BY <1>2, <3>3, <3>4
  <2>5. QED
    BY <1>11, <2>3, <2>4 DEF LaunchPutback
<1>12. CASE LaunchPutbackFails /\ fault' = TRUE
  BY <1>9, <1>12 DEF LaunchPutbackFails
<1>13. QED
  BY <1>10, <1>11, <1>12

\* Steps of hbmenu that leave the card alone.
LEMMA HbmenuQuietSettled ==
    ASSUME Full, KeptNext, FaultStep, UNCHANGED <<files, job, answer>>
    PROVE  Settled
<1>1. CASE job = Idle
  BY <1>1, NothingDone
<1>2. CASE job # Idle
  <2>1. FaultRight' /\ PutbackRight' /\ fault' = fault
    BY <1>2, FaultFacts DEF Full, PutbackRight
  <2>2. job.op \in {"put", "launch", "rmdir"}
    BY <1>2, JobFacts, RmdirFacts DEF Full, Base, TypeOK
  <2>3. \A q \in Paths : Complete(files[Self(q)]) => KeptAt(q)
    BY <2>2, WithinCopy DEF KeptAt, Full
  <2>4. \A q \in Paths : Keeps(q)
    <3>1. \A q \in Paths : KeptAt(q)' <=> KeptAt(q)
      BY DEF KeptAt
    <3>2. QED
      BY <2>3, <3>1 DEF Keeps
  <2>5. KeptRight'
    BY <2>4, KeptFrom
  <2>6. SameSeen /\ SeenOp' = SeenOp
    BY DEF SameSeen, Seen, SeenOp
  <2>7. Mapped
    BY <2>1, <2>6, StepSame
  <2>8. QED
    BY <2>1, <2>5, <2>7 DEF Settled
<1>3. QED
  BY <1>1, <1>2

\* hbmenu creates its file, or adds to it, while nro_launch talks to it.
LEMMA HbmenuFileSettled ==
    ASSUME Full, Base', KeptNext, FaultStep, UNCHANGED <<job, answer>>, Connected,
           \A m \in Names : m # Self(job.path) => files'[m] = files[m]
    PROVE  Settled
<1>1. job.op = "launch" /\ job.at \in {"asked", "send", "confirm"}
  BY DEF Connected
<1> PICK p \in Paths : p = job.path
  BY <1>1, LaunchKnown DEF Full
<1>2. job \in Jobs /\ job # Idle /\ Self(p) # Launch(p) /\ Launch(p) \in Names
  BY <1>1, LaunchKnown, JobFacts DEF Full
<1>3. files'[Launch(p)] = files[Launch(p)]
  BY <1>2
<1>4. FaultRight' /\ PutbackRight' /\ fault' = fault
  BY <1>1, <1>2, FaultFacts DEF PutbackRight
<1>5. Keeps(p)
  <2>1. KeptAt(p) => Complete(files[Launch(p)])
    BY <1>1, <1>2 DEF KeptAt
  <2>2. Complete(files'[Self(p)]) => Complete(files'[Launch(p)])
    BY <1>1, WithinCopy
  <2>3. Complete(files'[Launch(p)]) => KeptAt(p)'
    BY <1>1, <1>2 DEF KeptAt
  <2>4. QED
    BY <1>3, <2>1, <2>2, <2>3 DEF Keeps
<1>6. KeptRight' /\ SeenElsewhere(p)
  BY <1>5, LaunchElse
<1>7. SameSeen /\ SeenOp' = SeenOp
  BY <1>1, <1>3, <1>6, SeenAt, SeenFacts DEF SameSeen, SeenElsewhere
<1>8. Mapped
  BY <1>4, <1>7, StepSame
<1>9. QED
  BY <1>4, <1>6, <1>8 DEF Settled

LEMMA HbmenuSettled ==
    ASSUME HbmenuPrompt, Full, Base', KeptNext, FaultStep, HbmenuStep
    PROVE  Settled
<1>1. UNCHANGED <<job, answer>>
  BY DEF HbmenuStep, HbmenuListens, HbmenuAnswers, HbmenuWrites, HbmenuCloses
<1>2. CASE files' = files
  BY <1>1, <1>2, HbmenuQuietSettled
<1>3. CASE /\ Connected /\ Busy
           /\ files' = [files EXCEPT ![Self(hbmenu.path)] = [ver |-> hbmenu.ver, size |-> 0]]
  <2>1. hbmenu.path = job.path /\ files \in Card
    BY <1>3, Types DEF Full, Base, LaunchRight, Connected
  <2>2. \A m \in Names : m # Self(job.path) => files'[m] = files[m]
    BY <1>3, <2>1 DEF Card
  <2>3. QED
    BY <1>1, <1>3, <2>2, HbmenuFileSettled
<1>4. CASE /\ Connected /\ Busy
           /\ files' = [files EXCEPT ![Self(hbmenu.path)].size = @ + 1]
  <2>1. hbmenu.path = job.path /\ files \in Card
    BY <1>4, Types DEF Full, Base, LaunchRight, Connected
  <2>2. \A m \in Names : m # Self(job.path) => files'[m] = files[m]
    BY <1>4, <2>1 DEF Card
  <2>3. QED
    BY <1>1, <1>4, <2>2, HbmenuFileSettled
<1>5. CASE HbmenuAnswers
  BY <1>2, <1>3, <1>5 DEF HbmenuAnswers, Busy
<1>6. CASE HbmenuWrites
  BY <1>2, <1>4, <1>6 DEF HbmenuWrites, Busy
<1>7. QED
  BY <1>2, <1>5, <1>6 DEF HbmenuStep, HbmenuListens, HbmenuCloses

LEMMA PowerLossSettled ==
    ASSUME Full, KeptNext, PowerLoss, fault' = TRUE
    PROVE  Settled
<1>1. job' = Idle /\ files' = files /\ answer' = "none"
  BY DEF PowerLoss
<1>2. CASE job = Idle
  BY <1>1, <1>2, NothingDone
<1>3. FaultRight' /\ PutbackRight' /\ SeenOp' = NoOp
  BY <1>1, IdleFacts, SeenFacts DEF FaultRight, PutbackRight
<1>4. CASE job.op = "put"
  <2> PICK p \in Paths : p = job.path
    BY <1>4, PutKnown
  <2>1. job # Idle /\ (job.at = "rename" => Complete(files[Upload(p)]))
    BY <1>4, PutKnown, FileFacts DEF Complete
  <2>2. Keeps(p)
    BY <1>1, <1>4, <2>1, IdleFacts DEF Keeps, KeptAt
  <2>3. KeptRight'
    BY <1>1, <2>2, KeptElse, KeptFrom
  <2>4. SameSeen
    BY <1>1, <1>4, PlainSeen, IdleFacts
  <2>5. \E gap : SeenOp = PutOp(p, job.ver, gap)
    BY <1>4, SeenFacts
  <2>6. Mapped
    BY <1>1, <1>3, <2>4, <2>5, StepInterruptPut
  <2>7. QED
    BY <1>3, <2>3, <2>6 DEF Settled
<1>5. CASE job.op = "launch"
  <2> PICK p \in Paths : p = job.path
    BY <1>5, LaunchKnown DEF Full
  <2>1. job # Idle
    BY <1>5, IdleFacts
  <2>2. Keeps(p)
    BY <1>1, <1>5, <2>1, IdleFacts DEF Keeps, KeptAt
  <2>3. KeptRight' /\ SeenElsewhere(p)
    BY <1>1, <2>2, LaunchElse
  <2>4. Seen(p)' \in {Seen(p), NoFile, "torn"}
    <3>1. Seen(p)' = View(files[Self(p)])
      BY <1>1, SeenAt, IdleFacts
    <3>2. CASE job.at \in {"clear", "aside", "discard"}
      BY <3>1, <3>2, SeenAt
    <3>3. CASE job.at \notin {"clear", "aside", "discard"}
      BY <1>5, <3>1, <3>3, SeenAt, WithinCopy DEF Full
    <3>4. QED
      BY <3>2, <3>3
  <2>5. Mapped
    BY <1>3, <1>5, <2>3, <2>4, SeenFacts, StepInterruptLaunch
  <2>6. QED
    BY <1>3, <2>3, <2>5 DEF Settled
<1>6. CASE job.op = "rmdir"
  <2>1. KeptRight'
    BY <1>1, <1>6, IdleFacts, KeptElse, KeptFrom
  <2>2. SameSeen /\ SeenOp = NoOp
    BY <1>1, <1>6, PlainSeen, SeenFacts, IdleFacts
  <2>3. Mapped
    BY <1>3, <2>2, StepReply
  <2>4. QED
    BY <1>3, <2>1, <2>3 DEF Settled
<1>7. QED
  BY <1>2, <1>4, <1>5, <1>6, JobFacts, RmdirFacts DEF Full, Base, TypeOK

LEMMA FullNext ==
    ASSUME HbmenuPrompt, Full, [Next]_vars
    PROVE  Full' /\ Mapped
<1>1. Base'
  BY BaseNext DEF Full
<1>2. CASE UNCHANGED vars
  <2>1. FaultRight' /\ PutbackRight' /\ LookRight' /\ KeptRight'
    BY <1>2 DEF vars, Full, FaultRight, PutbackRight, LookRight, Empty, KeptRight, KeptAt
  <2>2. Mapped
    <3>1. SameSeen /\ SeenOp' = SeenOp /\ fault' = fault /\ answer' = answer
      BY <1>2 DEF vars, SameSeen, Seen, SeenOp
    <3>2. QED
      BY <3>1, StepSame
  <2>3. QED
    BY <1>1, <2>1, <2>2 DEF Full
<1>3. CASE Next
  <2>1. KeptNext /\ LookRight'
    BY <1>3, LookNext DEF Next
  <2>2. CASE (FilesStep \/ LauncherStep \/ HbmenuStep) /\ FaultStep
    <3>1. ASSUME FilesStep PROVE Settled
      BY <2>1, <2>2, <3>1, PutOpenSettled, PutBodySettled, PutRemoveSettled, PutRenameSettled,
         WholeSettled, DirectorySettled
         DEF FilesStep, tool_delete_file, tool_move_file, delete_files, Whole
    <3>2. ASSUME LauncherStep PROVE Settled
      BY <1>1, <2>1, <2>2, <3>2, LaunchConnectSettled, LaunchClearSettled, LaunchAsideSettled,
         LaunchTalkSettled, LaunchRestoreSettled, LaunchEndSettled DEF LauncherStep
    <3>3. ASSUME HbmenuStep PROVE Settled
      BY <1>1, <2>1, <2>2, <3>3, HbmenuSettled
    <3>4. Settled
      BY <2>2, <3>1, <3>2, <3>3
    <3>5. QED
      BY <1>1, <2>1, <3>4 DEF Settled, Full
  <2>3. CASE (PowerLoss \/ CardFails) /\ fault' = TRUE
    <3>1. Settled
      BY <2>1, <2>3, PowerLossSettled, PutRenameSettled, LaunchEndSettled DEF CardFails
    <3>2. QED
      BY <1>1, <2>1, <3>1 DEF Settled, Full
  <2>4. QED
    BY <1>3, <2>2, <2>3 DEF Next, FaultStep
<1>4. QED
  BY <1>2, <1>3

LEMMA InitFull == Init => Full
<1> SUFFICES ASSUME Init PROVE Full
  OBVIOUS
<1>1. FaultRight /\ PutbackRight /\ LookRight
  BY InitFacts, IdleFacts DEF FaultRight, PutbackRight, LookRight
<1>2. \A p \in kept : Self(p) \in Names /\ Complete(files[Self(p)])
  BY InitFacts, NameFacts
<1>3. KeptRight
  BY <1>2, InitFacts, IdleFacts DEF KeptRight, KeptAt
<1>4. QED
  BY <1>1, <1>3, InitBase DEF Full

LEMMA FullKeeps == Full => CopySurvives
<1> SUFFICES ASSUME Full, NEW p \in kept
             PROVE  \E n \in {Self(p), Upload(p), Launch(p)} : Complete(files[n])
  BY DEF CopySurvives
<1>1. KeptAt(p)
  BY DEF Full, KeptRight
<1>2. job.op = "put" /\ job.path = p /\ job.at = "rename" => Complete(files[Upload(p)])
  BY PutKnown, FileFacts DEF Complete
<1>3. QED
  BY <1>1, <1>2 DEF KeptAt

\* The inductive invariant: where each file stands at each step of a job, with the
\* whole copy of a kept path when hbmenu lets go in time.
THEOREM StorageInvariant == HbmenuPrompt => (Spec => []IInv)
<1>1. Full => IInv
  BY DEF Full, Base, IInv
<1>2. QED
  <2>1. SUFFICES ASSUME HbmenuPrompt PROVE Spec => []IInv
    OBVIOUS
  <2>2. Full /\ [Next]_vars => Full'
    BY <2>1, FullNext
  <2>3. QED
    BY <1>1, <2>2, InitFull, PTL DEF Spec

\* However an upload or a launch is interrupted, one whole copy of a file that
\* was whole before is on the card.
THEOREM CopiesSurvive == HbmenuPrompt => (Spec => []CopySurvives)
<1>1. SUFFICES ASSUME HbmenuPrompt PROVE Spec => []CopySurvives
  OBVIOUS
<1>2. Full /\ [Next]_vars => Full'
  BY <1>1, FullNext
<1>3. QED
  BY <1>2, FullKeeps, InitFull, PTL DEF Spec

\* A directory that opened when files_delete_path looked takes no file with it,
\* though hbmenu runs on between the look and the rmdir.
THEOREM DirectoriesTakeNoFile == HbmenuPrompt => (Spec => NoFileLostWithDirectory)
<1>1. SUFFICES ASSUME HbmenuPrompt PROVE Spec => NoFileLostWithDirectory
  OBVIOUS
<1>2. Full /\ [Next]_vars => Full'
  BY <1>1, FullNext
<1>3. Full /\ [Next]_vars => [dir /\ ~dir' /\ ~job.faulty => Empty]_vars
  <2>1. SUFFICES ASSUME Full, Next, dir, ~dir', ~job.faulty PROVE Empty
    OBVIOUS
  <2>2. Base /\ \A p \in Paths : ~Enters(p)
    BY <2>1, EntersFacts DEF Full
  <2>3. job.op = "rmdir"
    BY <2>1, <2>2
       DEF Next, FilesStep, PutOpen, PutBody, PutRemove, PutRename, delete_files, post_move,
           tool_delete_file, tool_move_file, RefusePath, files_delete_path, files_move_path,
           DeleteLook, DeleteDirectory, get_files, LauncherStep, LaunchConnect, LaunchClear,
           LaunchAside, LaunchAsk, LaunchAnswered, LaunchSend, LaunchConfirm, LaunchSettle,
           LaunchDiscard, LaunchRestore, LaunchPutback, HbmenuStep, HbmenuListens, HbmenuAnswers,
           HbmenuWrites, HbmenuCloses, PowerLoss, CardFails, PutRenameFails, LaunchPutbackFails
  <2>4. QED
    BY <1>1, <2>1, <2>3 DEF Full, LookRight
<1>4. QED
  BY <1>2, <1>3, InitFull, PTL DEF Spec, NoFileLostWithDirectory

LEMMA InitAtomic == Init => Atomic!Init
<1> SUFFICES ASSUME Init PROVE Atomic!Init
  OBVIOUS
<1>1. job.op = "idle" /\ fault = FALSE /\ answer = "none" /\ files \in Card
  BY InitFacts, IdleFacts
<1>2. SeenOp = NoOp
  BY <1>1, SeenFacts
<1>3. \A p \in Paths : Seen(p) \in Versions \cup {NoFile}
  <2>1. TAKE p \in Paths
  <2>2. Self(p) \in Names /\ Seen(p) = View(files[Self(p)])
    BY <1>1, NameFacts, SeenAt
  <2>3. files[Self(p)] # NoFile => files[Self(p)] \in File /\ Complete(files[Self(p)])
    BY <1>1, <2>2, InitFacts DEF Card
  <2>4. QED
    BY <2>2, <2>3, FileFacts DEF View, Complete
<1>4. [p \in Paths |-> Seen(p)] \in [Paths -> Versions \cup {NoFile}]
  BY <1>3
<1>5. (answer = "ok") = FALSE
  BY <1>1
<1>6. QED
  BY <1>1, <1>2, <1>4, <1>5 DEF Atomic!Init, Atomic!None, NoOp

\* Uploads, deletions, moves and launches implement AtomicFiles: every step is
\* one of its steps, or changes nothing a client sees.
THEOREM StorageImplementsAtomicFiles == HbmenuPrompt => (Spec => ImplementsAtomicFiles)
<1>1. SUFFICES ASSUME HbmenuPrompt PROVE Spec => ImplementsAtomicFiles
  OBVIOUS
<1>2. Full /\ [Next]_vars => Full' /\ [Atomic!Next]_(Atomic!vars)
  BY <1>1, FullNext DEF Mapped
<1>3. QED
  BY <1>2, InitFull, InitAtomic, PTL DEF Spec, ImplementsAtomicFiles, Atomic!Spec
=============================================================================

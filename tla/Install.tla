------------------------------- MODULE Install -------------------------------
(***************************************************************************)
(* features/install/install.c: a container streamed in the body of one     *)
(* request is read forward only, its files are written into NCM content    *)
(* storage, and the title is entered in the content-meta database and the  *)
(* application records.  ncm, ns, es and fs are external: their calls      *)
(* succeed or fail.  Positions and sizes are in units of the stream; a     *)
(* file's bytes are right when it was written from its own offset on.      *)
(***************************************************************************)
EXTENDS Integers, Sequences, SequencesExt, FiniteSets

CONSTANTS
    Containers,   \* what clients stream: see Container
    Ids,          \* content ids
    PrefixSize    \* stands for the 0x1104 bytes install_stream peeks

(* kind is what container_detect tells from PrefixSize bytes; tables the   *)
(* PFS0 header, or the HFS0 headers of the root and the secure partition;  *)
(* a table has its offset, its size and whether it parses; a file has its  *)
(* absolute offset, and intact says that it hashes to its id.              *)
Table == [at : Nat, size : Nat, parses : BOOLEAN]
FileEntry ==
    [id : Ids, type : {"nca", "cnmt", "tik", "other"}, offset : Nat, size : Nat,
     intact : BOOLEAN]
Container ==
    [kind : {"nsp", "xci", "unknown"},
     tables : Seq(Table),
     files : Seq(FileEntry),
     length : Nat]

ASSUME InstallAssumption ==
    /\ Containers \subseteq Container
    /\ \A c \in Containers : c.kind # "unknown" => c.tables # <<>>
    /\ PrefixSize \in Nat \ {0}

VARIABLES
    stream,       \* the container being received
    pos,          \* bytes of it that read_fn has handed over
    prefix_len,   \* peeked bytes not yet used
    consumed,     \* how far the installer believes it has read
    pc,           \* the step of install_stream
    goal,         \* the value of consumed that skip_to or read_exact works for
    table,        \* the table being read
    entry,        \* the file being installed
    entries,      \* the files, in the order install_entries takes them
    from,         \* history: stream position of the entry's first byte
    placed,       \* bytes in the placeholder, -1 when there is none
    registered,   \* external: content id -> "none", "old", "new" or "wrong"
    written,      \* ids registered by this request, for the rollback
    title,        \* external: content-meta database and application record
    result        \* "none", "ok", "failed"; "left": failed, and a delete of the rollback too

readVars == <<stream, pos, prefix_len, consumed, goal>>
ncmVars == <<placed, registered, written, title>>
vars == <<stream, pos, prefix_len, consumed, pc, goal, table, entry, entries, from,
          placed, registered, written, title, result>>

Init ==
    /\ stream \in Containers
    /\ pos = 0 /\ prefix_len = 0 /\ consumed = 0
    /\ pc = "peek"
    /\ goal = 0 /\ table = 1 /\ entry = 1 /\ entries = <<>> /\ from = 0
    /\ placed = -1
    /\ registered \in [Ids -> {"none", "old"}]
    /\ written = <<>>
    /\ title \in {[db |-> t, record |-> t] : t \in {"none", "old"}}
    /\ result = "none"

Min2(a, b) == IF a < b THEN a ELSE b
Current == entries[entry]

(* read_fn: any part of what is asked for, up to the end of the stream.    *)
Receives(want) == 1..Min2(want, stream.length - pos)

(* ---- install_stream: the peek and the detection ---- *)

Peek ==
    /\ pc = "peek"
    /\ \/ \E n \in Receives(PrefixSize - prefix_len) :
             /\ prefix_len' = prefix_len + n
             /\ pos' = pos + n
             /\ pc' = IF prefix_len' = PrefixSize THEN "detect" ELSE "peek"
       \/ pc' = "detect" /\ UNCHANGED <<prefix_len, pos>>   \* the stream ended
    /\ UNCHANGED <<stream, consumed, goal, table, entry, entries, from, ncmVars, result>>

(* A refusal before anything was written.                                  *)
Refuse ==
    /\ pc' = "done" /\ result' = "failed"
    /\ UNCHANGED <<readVars, table, entry, entries, from, ncmVars>>

container_detect ==
    /\ pc = "detect"
    /\ IF prefix_len = 0 \/ stream.kind = "unknown" \/ (stream.kind = "xci" /\ prefix_len < PrefixSize)
         THEN Refuse
         ELSE /\ pc' = "to_table"
              /\ goal' = stream.tables[1].at
              /\ UNCHANGED <<stream, pos, prefix_len, consumed, table, entry, entries, from,
                             ncmVars, result>>

(* ---- skip_to and read_exact ---- *)

(* The front-ends pass the prefix, install_entries none.                   *)
HasPrefix == pc \in {"to_table", "in_table"} /\ prefix_len > 0
Moving == pc \in {"to_table", "in_table", "to_entry", "in_entry", "over_entry"}

(* Bug: the bytes of the prefix are dropped without being counted.         *)
FromPrefix_uncounted ==
    /\ Moving /\ consumed < goal /\ HasPrefix
    /\ LET take == Min2(prefix_len, goal - consumed) IN
       /\ prefix_len' = prefix_len - take
       /\ consumed' = consumed + (IF pc = "to_table" THEN 0 ELSE take)
    /\ UNCHANGED <<stream, pos, pc, goal, table, entry, entries, from, ncmVars, result>>

FromPrefix ==
    /\ Moving /\ consumed < goal /\ HasPrefix
    /\ LET take == Min2(prefix_len, goal - consumed) IN
       /\ prefix_len' = prefix_len - take
       /\ consumed' = consumed + take
    /\ UNCHANGED <<stream, pos, pc, goal, table, entry, entries, from, ncmVars, result>>

FromStream ==
    /\ Moving /\ consumed < goal /\ ~HasPrefix
    /\ \E n \in Receives(goal - consumed) :
          pos' = pos + n /\ consumed' = consumed + n
    /\ UNCHANGED <<stream, prefix_len, pc, goal, table, entry, entries, from, ncmVars, result>>

(* The body ended or the connection was lost before the goal.              *)
StreamEnds ==
    /\ Moving /\ consumed < goal /\ ~HasPrefix
    /\ pc' = IF pc \in {"to_table", "in_table"} THEN "done" ELSE "rollback"
    /\ result' = "failed"
    /\ UNCHANGED <<readVars, table, entry, entries, from, ncmVars>>

(* ---- read_fs_table, install_nsp, install_xci ---- *)

TableReached ==
    /\ pc = "to_table" /\ consumed >= goal
    /\ pc' = "in_table"
    /\ goal' = consumed + stream.tables[table].size
    /\ UNCHANGED <<stream, pos, prefix_len, consumed, table, entry, entries, from, ncmVars, result>>

(* The entries of an XCI are sorted by their offset, equal ones left as    *)
(* they are; those of an NSP are taken as they come.                       *)
Before(a, b) ==
    LET oa == stream.files[a].offset
        ob == stream.files[b].offset
    IN  IF stream.kind = "xci" THEN oa < ob \/ (oa = ob /\ a < b) ELSE a < b
Orders ==
    LET D == DOMAIN stream.files IN
    {p \in [D -> D] : /\ \A i \in D : \E j \in D : p[j] = i
                      /\ \A i, j \in D : i < j => Before(p[i], p[j])}

(* fs_parse_header; an XCI goes on to its secure partition, if it has one. *)
(* The last table leads to install_entries, which opens content storage.   *)
TableRead ==
    /\ pc = "in_table" /\ consumed >= goal
    /\ LET last == IF stream.kind = "xci" THEN 2 ELSE 1 IN
       \/ Refuse      \* does not parse, no secure partition, ncm refuses
       \/ /\ stream.tables[table].parses /\ table < last /\ table < Len(stream.tables)
          /\ table' = table + 1
          /\ pc' = "to_table"
          /\ goal' = stream.tables[table'].at
          /\ UNCHANGED <<stream, pos, prefix_len, consumed, entry, entries, from, ncmVars, result>>
       \/ /\ stream.tables[table].parses /\ table = last
          /\ \E p \in Orders : entries' = [i \in DOMAIN p |-> stream.files[p[i]]]
          /\ pc' = "next"
          /\ UNCHANGED <<readVars, table, entry, from, ncmVars, result>>

(* ---- install_entries ---- *)

NextEntry ==
    /\ pc = "next"
    /\ IF entry <= Len(entries)
         THEN pc' = "to_entry" /\ goal' = Current.offset
         ELSE pc' = "title" /\ UNCHANGED goal
    /\ UNCHANGED <<stream, pos, prefix_len, consumed, table, entry, entries, from, ncmVars, result>>

EntryReached ==
    /\ pc = "to_entry" /\ consumed >= goal
    /\ from' = pos
    /\ pc' = CASE Current.type = "nca" -> "create"
               [] Current.type \in {"cnmt", "tik"} -> "in_entry"
               [] OTHER -> "over_entry"
    /\ goal' = IF Current.type = "nca" THEN goal ELSE consumed + Current.size
    /\ UNCHANGED <<stream, pos, prefix_len, consumed, table, entry, entries, ncmVars, result>>

(* A file too large for its buffer, or whose name is no content id.        *)
EntryRefused ==
    /\ pc \in {"in_entry", "create"}
    /\ pc' = "rollback" /\ result' = "failed"
    /\ UNCHANGED <<readVars, table, entry, entries, from, ncmVars>>

SmallEntryRead ==
    /\ pc \in {"in_entry", "over_entry"} /\ consumed >= goal
    /\ IF Current.type = "cnmt" THEN pc' = "create" /\ UNCHANGED entry
       ELSE pc' = "next" /\ entry' = entry + 1
    /\ UNCHANGED <<readVars, table, entries, from, ncmVars, result>>

(* ---- write_content ---- *)

CreatePlaceHolder ==
    /\ pc = "create"
    /\ placed' = IF Current.type = "cnmt" THEN Current.size ELSE 0   \* prebuf
    /\ pc' = "write"
    /\ UNCHANGED <<readVars, table, entry, entries, from, registered, written, title, result>>

WritePlaceHolder ==
    /\ pc = "write" /\ placed < Current.size
    /\ \E n \in Receives(Current.size - placed) :
          pos' = pos + n /\ placed' = placed + n
    /\ UNCHANGED <<stream, prefix_len, consumed, pc, goal, table, entry, entries, from,
                   registered, written, title, result>>

(* The stream ends, a write fails, or the hash is not the content id: the  *)
(* placeholder goes.                                                       *)
WriteFails ==
    /\ pc = "write"
    /\ placed' = -1
    /\ pc' = "rollback" /\ result' = "failed"
    /\ UNCHANGED <<readVars, table, entry, entries, from, registered, written, title>>

Right == from = Current.offset /\ Current.intact
Verified == stream.kind = "nsp" \/ Current.type = "cnmt"

(* Bug: a meta NCA that cannot be registered is written again.             *)
Register_retried ==
    /\ pc = "write" /\ placed = Current.size
    /\ Verified => Right
    /\ placed' = -1
    /\ \/ /\ registered' = [registered EXCEPT ![Current.id] = IF Right THEN "new" ELSE "wrong"]
          /\ written' = Append(written, Current.id)
          /\ consumed' = IF Current.type = "nca" THEN consumed + Current.size ELSE consumed
          /\ entry' = entry + 1
          /\ pc' = "next"
       \/ /\ Current.type = "cnmt" /\ pc' = "create"
          /\ UNCHANGED <<registered, written, consumed, entry>>
    /\ UNCHANGED <<stream, pos, prefix_len, goal, table, entries, from, title, result>>

(* The old copy is deleted and the placeholder registered, or that fails;  *)
(* the placeholder goes either way.                                        *)
Register ==
    /\ pc = "write" /\ placed = Current.size
    /\ Verified => Right
    /\ placed' = -1
    /\ \/ /\ registered' = [registered EXCEPT ![Current.id] = IF Right THEN "new" ELSE "wrong"]
          /\ written' = Append(written, Current.id)
          /\ consumed' = IF Current.type = "nca" THEN consumed + Current.size ELSE consumed
          /\ entry' = entry + 1
          /\ pc' = "next"
          /\ UNCHANGED result
       \/ /\ registered' = [registered EXCEPT ![Current.id] = "none"]
          /\ pc' = "rollback" /\ result' = "failed"
          /\ UNCHANGED <<written, consumed, entry>>
    /\ UNCHANGED <<stream, pos, prefix_len, goal, table, entries, from, title>>

(* ---- the title ---- *)

HasCnmt == \E i \in DOMAIN entries : entries[i].type = "cnmt"

(* read_cnmt, the ticket (best effort), the content-meta entry.            *)
SetContentMeta ==
    /\ pc = "title"
    /\ \/ /\ HasCnmt
          /\ title' = [title EXCEPT !.db = "new"]
          /\ pc' = "record"
          /\ UNCHANGED result
       \/ pc' = "rollback" /\ result' = "failed" /\ UNCHANGED title
    /\ UNCHANGED <<readVars, table, entry, entries, from, placed, registered, written>>

(* The application record is deleted and pushed again with the new entry.  *)
PushRecord ==
    /\ pc = "record"
    /\ \/ title' = [title EXCEPT !.record = "new"] /\ pc' = "done" /\ result' = "ok"
       \/ title' = [title EXCEPT !.record = "none"] /\ pc' = "rollback" /\ result' = "failed"
    /\ UNCHANGED <<readVars, table, entry, entries, from, placed, registered, written>>

(* Bug: the last content written is not removed.                           *)
Rollback_off_by_one ==
    /\ pc = "rollback"
    /\ registered' = [id \in Ids |->
                        IF \E i \in 1..(Len(written) - 1) : written[i] = id
                          THEN "none" ELSE registered[id]]
    /\ pc' = "done"
    /\ UNCHANGED <<readVars, table, entry, entries, from, placed, written, title, result>>

(* The contents registered by this request are deleted one by one.  When   *)
(* content storage does not open none is, and a delete that fails is not   *)
(* noticed: then something is left.                                        *)
Rollback ==
    /\ pc = "rollback"
    /\ LET mine == {id \in Ids : Contains(written, id)} IN
       \E gone \in SUBSET mine :
          /\ registered' = [id \in Ids |-> IF id \in gone THEN "none" ELSE registered[id]]
          /\ result' = IF gone = mine THEN result ELSE "left"
    /\ pc' = "done"
    /\ UNCHANGED <<readVars, table, entry, entries, from, placed, written, title>>

Installing ==
    \/ Peek \/ container_detect \/ FromPrefix \/ FromStream \/ StreamEnds
    \/ TableReached \/ TableRead \/ NextEntry \/ EntryReached \/ EntryRefused
    \/ SmallEntryRead \/ CreatePlaceHolder \/ WritePlaceHolder \/ WriteFails \/ Register
    \/ SetContentMeta \/ PushRecord \/ Rollback

Aged(what) == IF what = "none" THEN "none" ELSE "old"

(* handle_install answers and waits for the next stream.                   *)
NextInstall ==
    /\ pc = "done"
    /\ stream' \in Containers
    /\ pos' = 0 /\ prefix_len' = 0 /\ consumed' = 0 /\ pc' = "peek"
    /\ goal' = 0 /\ table' = 1 /\ entry' = 1 /\ entries' = <<>> /\ from' = 0
    /\ written' = <<>> /\ result' = "none" /\ placed' = placed
    /\ registered' = [id \in Ids |-> Aged(registered[id])]
    /\ title' = [db |-> Aged(title.db), record |-> Aged(title.record)]

Next == Installing \/ NextInstall

Spec == Init /\ [][Next]_vars /\ WF_vars(Installing)

(* ---- what the properties rest on ---- *)

Early == pc \in {"peek", "detect", "to_table", "in_table"}
InEntry == pc \in {"to_entry", "in_entry", "over_entry", "create", "write"}
Content == {"nca", "cnmt"}
Stored(f) == registered[f.id] \in {"new", "wrong"}

TypeOK ==
    /\ stream \in Containers
    /\ pc \in {"peek", "detect", "to_table", "in_table", "next", "to_entry", "in_entry",
               "over_entry", "create", "write", "title", "record", "rollback", "done"}
    /\ pos \in Nat /\ prefix_len \in Nat /\ consumed \in Nat /\ from \in Nat
    /\ goal \in Nat /\ entry \in Nat \ {0} /\ table \in Nat \ {0}
    /\ entries \in Seq(FileEntry)
    /\ written \in Seq(Ids)
    /\ registered \in [Ids -> {"none", "old", "new", "wrong"}]
    /\ title \in [db : {"none", "old", "new"}, record : {"none", "old", "new"}]

(* Where install_stream stands, and with what result.                      *)
Standing ==
    /\ pc \notin {"rollback", "done"} => result = "none"
    /\ pc = "rollback" => result = "failed"
    /\ pc = "done" => result \in {"ok", "failed", "left"}
    /\ IF pc = "write" THEN placed \in Nat ELSE placed = -1
    /\ pc \in {"peek", "detect"} => table = 1
    /\ pc \in {"peek", "detect", "to_table", "in_table"} => entry = 1
    /\ pc \notin {"peek", "detect", "done"} => stream.kind # "unknown"
    /\ pc \in {"to_table", "in_table"} => table <= Len(stream.tables)
    /\ InEntry => entry <= Len(entries)
    /\ pc \in {"in_entry", "over_entry"} => Current.type # "nca"
    /\ pc \in {"title", "record"} => entry > Len(entries)
    /\ pc = "record" => title.db = "new"
    /\ result = "ok" => entry > Len(entries) /\ title.db = "new" /\ title.record = "new"

(* The list for the rollback names every content that is new, and the      *)
(* files already passed are stored.                                        *)
Accounted ==
    /\ Early => written = <<>>
    /\ \A id \in Ids : registered[id] \in {"new", "wrong"} => Contains(written, id)
    /\ pc = "done" /\ result = "failed" => \A id \in Ids : registered[id] \notin {"new", "wrong"}
    /\ result \in {"none", "ok"} =>
          \A i \in 1..Len(entries) : i < entry /\ entries[i].type \in Content => Stored(entries[i])
    /\ ~Early /\ result \in {"none", "ok"} =>
          \A i \in DOMAIN stream.files : \E j \in 1..Len(entries) : entries[j] = stream.files[i]
    /\ \A j \in 1..Len(entries) : \E i \in DOMAIN stream.files : entries[j] = stream.files[i]

(* An XCI as it is laid out: the secure partition after the root, past the *)
(* prefix; its files behind its table, none empty, none overlapping; and   *)
(* files named by one id all hash to it or none does.                      *)
Laid(c) ==
    c.kind = "xci" /\ Len(c.tables) >= 2 =>
        LET data == c.tables[2].at + c.tables[2].size IN
        /\ c.tables[1].at + c.tables[1].size <= c.tables[2].at
        /\ PrefixSize <= data
        /\ \A i, j \in DOMAIN c.files :
              /\ data <= c.files[i].offset /\ c.files[i].size > 0
              /\ \/ i = j
                 \/ c.files[i].offset + c.files[i].size <= c.files[j].offset
                 \/ c.files[j].offset + c.files[j].size <= c.files[i].offset
              /\ c.files[i].id = c.files[j].id => c.files[i].intact = c.files[j].intact

(* The bytes of an XCI are counted right: the prefix and what was consumed *)
(* make up the position, the prefix is used up before the first file, and  *)
(* the next file still lies ahead.                                         *)
Counted ==
    stream.kind = "xci" /\ pc \notin {"rollback", "done", "title", "record"} =>
        /\ prefix_len > 0 => pos <= PrefixSize
        /\ pc # "write" \/ Current.type = "cnmt" => consumed + prefix_len = pos
        /\ pc \in {"peek", "detect"} => consumed = 0
        /\ pc \in {"to_table", "in_table"} => table \in {1, 2} /\ consumed <= goal
        /\ pc = "to_table" => goal = stream.tables[table].at
        /\ pc = "in_table" => goal = stream.tables[table].at + stream.tables[table].size
        /\ ~Early => /\ Len(stream.tables) >= 2 /\ prefix_len = 0
                     /\ \A i, j \in 1..Len(entries) :
                           i < j => entries[i].offset + entries[i].size <= entries[j].offset
        /\ pc = "next" => \A i \in 1..Len(entries) : entry <= i => consumed <= entries[i].offset
        /\ pc = "to_entry" => goal = Current.offset /\ consumed <= goal
        /\ pc \in {"in_entry", "over_entry", "create", "write"} => from = Current.offset
        /\ pc \in {"in_entry", "over_entry"} =>
              goal = Current.offset + Current.size /\ consumed <= goal
        /\ pc \in {"create", "write"} /\ Current.type = "cnmt" =>
              consumed = Current.offset + Current.size
        /\ pc \in {"create", "write"} /\ Current.type # "cnmt" =>
              Current.type = "nca" /\ consumed = Current.offset
        /\ pc = "write" /\ Current.type # "cnmt" => consumed + placed = pos
        /\ pc = "write" /\ Current.type = "cnmt" => placed = Current.size

(* What is wrong was registered from a file that does not hash to its id.  *)
WrongRight ==
    \A id \in Ids : registered[id] = "wrong" =>
        /\ stream.kind = "xci" /\ Len(stream.tables) >= 2
        /\ \E i \in DOMAIN stream.files : stream.files[i].id = id /\ ~stream.files[i].intact

IInv == TypeOK /\ Standing /\ Accounted /\ (Laid(stream) => Counted /\ WrongRight)

(* No content is ever registered under an id whose bytes it does not hold: *)
(* the hash guarantees it for an NSP, and for an XCI, whose contents are   *)
(* not verified (install.c:442-444), the counting of the bytes does.       *)
RegisteredBytesRight ==
    \A i \in DOMAIN stream.files :
        stream.files[i].intact => registered[stream.files[i].id] # "wrong"

(* install.h:99-100 "Performs rollback of partially-written content on     *)
(* failure": no placeholder is in use any more, and no content this        *)
(* request registered is left unless ncm refused one of the rollback's own *)
(* calls.  (The meta entry is not undone when only the application record  *)
(* fails.)                                                                 *)
RolledBack ==
    /\ pc = "done" => placed = -1
    /\ pc = "done" /\ result = "failed" => \A id \in Ids : registered[id] \notin {"new", "wrong"}

(* A title is announced only with every content of its container in        *)
(* storage and its meta entry committed.                                   *)
SuccessIsComplete ==
    result = "ok" =>
        /\ title = [db |-> "new", record |-> "new"]
        /\ \A i \in DOMAIN stream.files :
              stream.files[i].type \in {"nca", "cnmt"} =>
                  registered[stream.files[i].id] \in {"new", "wrong"}

(* A streamed install leaves a whole title or none of its contents.        *)
AllOrNothing == RolledBack /\ SuccessIsComplete

(* install.c:463 "`consumed` tracks how many bytes of the stream we've     *)
(* read", with what is left of the peeked prefix still to be used.         *)
ConsumedIsPosition == pc \in {"to_entry", "in_entry", "over_entry", "next"} => consumed = pos

(* Every streamed install is answered, whatever fails.                     *)
InstallEnds == (pc # "done") ~> (pc = "done")
=============================================================================

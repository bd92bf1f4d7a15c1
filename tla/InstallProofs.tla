---------------------------- MODULE InstallProofs ----------------------------
(***************************************************************************)
(* Theorems about streamed installation, for every set of containers, any  *)
(* content ids and any size of the peeked prefix.                          *)
(***************************************************************************)
EXTENDS Install, TLAPS

-----------------------------------------------------------------------------
(* Containers, files and the position in the stream. *)

LEMMA ContainerFacts ==
    ASSUME NEW c \in Containers
    PROVE  /\ c.kind \in {"nsp", "xci", "unknown"} /\ c.length \in Nat
           /\ c.tables \in Seq(Table) /\ Len(c.tables) \in Nat
           /\ c.kind # "unknown" => 1 \in 1..Len(c.tables)
           /\ \A i \in 1..Len(c.tables) : c.tables[i].at \in Nat /\ c.tables[i].size \in Nat
           /\ c.files \in Seq(FileEntry) /\ DOMAIN c.files = 1..Len(c.files)
           /\ Len(c.files) \in Nat /\ \A i \in 1..Len(c.files) : c.files[i] \in FileEntry
<1>1. c \in Container /\ (c.kind # "unknown" => c.tables # <<>>)
  BY InstallAssumption
<1>2. /\ c.kind \in {"nsp", "xci", "unknown"} /\ c.length \in Nat
      /\ c.tables \in Seq(Table) /\ c.files \in Seq(FileEntry)
  BY <1>1 DEF Container
<1>3. \A i \in 1..Len(c.tables) : c.tables[i] \in Table
  BY <1>2
<1>4. c.kind # "unknown" => 1 \in 1..Len(c.tables)
  BY <1>1, <1>2
<1>5. QED
  BY <1>2, <1>3, <1>4 DEF Table

LEMMA FileFacts ==
    ASSUME NEW f \in FileEntry
    PROVE  /\ f.id \in Ids /\ f.type \in {"nca", "cnmt", "tik", "other"}
           /\ f.offset \in Nat /\ f.size \in Nat /\ f.intact \in BOOLEAN
BY DEF FileEntry

LEMMA CurrentFacts ==
    ASSUME TypeOK, entry <= Len(entries)
    PROVE  /\ entry \in 1..Len(entries) /\ Current \in FileEntry
           /\ Current.id \in Ids /\ Current.type \in {"nca", "cnmt", "tik", "other"}
           /\ Current.offset \in Nat /\ Current.size \in Nat /\ Current.intact \in BOOLEAN
<1>1. entry \in 1..Len(entries) /\ entries \in Seq(FileEntry)
  BY DEF TypeOK
<1>2. Current \in FileEntry
  BY <1>1 DEF Current
<1>3. QED
  BY <1>1, <1>2, FileFacts

LEMMA ReceivesFacts ==
    ASSUME TypeOK, NEW want \in Int, NEW n \in Receives(want)
    PROVE  n \in Nat /\ n > 0 /\ n <= want
<1>1. stream.length \in Nat /\ pos \in Nat
  BY ContainerFacts DEF TypeOK
<1>2. stream.length - pos \in Int
  BY <1>1
<1>3. Min2(want, stream.length - pos) \in Int /\ Min2(want, stream.length - pos) <= want
  BY <1>2 DEF Min2
<1>4. QED
  BY <1>3 DEF Receives

LEMMA OrderFacts ==
    ASSUME TypeOK, NEW p \in Orders, entries' = [i \in DOMAIN p |-> stream.files[p[i]]]
    PROVE  /\ entries' \in Seq(FileEntry) /\ Len(entries') = Len(stream.files)
           /\ p \in [1..Len(stream.files) -> 1..Len(stream.files)]
           /\ \A i \in 1..Len(stream.files) : entries'[i] = stream.files[p[i]]
           /\ \A i \in 1..Len(stream.files) : \E j \in 1..Len(stream.files) : p[j] = i
           /\ \A i, j \in 1..Len(stream.files) : i < j => Before(p[i], p[j])
<1> DEFINE n == Len(stream.files)
<1>1. n \in Nat /\ DOMAIN stream.files = 1..n /\ \A i \in 1..n : stream.files[i] \in FileEntry
  BY ContainerFacts DEF TypeOK
<1>2. /\ p \in [1..n -> 1..n] /\ \A i \in 1..n : \E j \in 1..n : p[j] = i
      /\ \A i, j \in 1..n : i < j => Before(p[i], p[j])
  BY <1>1 DEF Orders
<1>3. entries' = [i \in 1..n |-> stream.files[p[i]]]
  BY <1>2
<1> HIDE DEF n
<1>4. entries' \in Seq(FileEntry) /\ Len(entries') = n /\ \A i \in 1..n : entries'[i] = stream.files[p[i]]
  BY <1>1, <1>2, <1>3
<1>5. QED
  BY <1>2, <1>4 DEF n

Pcs == {"peek", "detect", "to_table", "in_table", "next", "to_entry", "in_entry",
        "over_entry", "create", "write", "title", "record", "rollback", "done"}
Titles == [db : {"none", "old", "new"}, record : {"none", "old", "new"}]
Registry == [Ids -> {"none", "old", "new", "wrong"}]

LEMMA Types ==
    ASSUME TypeOK
    PROVE  /\ stream \in Containers /\ pc \in Pcs
           /\ pos \in Nat /\ prefix_len \in Nat /\ consumed \in Nat /\ from \in Nat
           /\ goal \in Nat /\ entry \in Nat \ {0} /\ table \in Nat \ {0}
           /\ entries \in Seq(FileEntry) /\ Len(entries) \in Nat
           /\ written \in Seq(Ids) /\ registered \in Registry /\ title \in Titles
           /\ PrefixSize \in Nat \ {0}
BY InstallAssumption DEF TypeOK, Pcs, Registry, Titles

\* Steps that leave the files, what was written and the title alone.
LEMMA TypeQuiet ==
    ASSUME TypeOK, UNCHANGED <<stream, entries, written, registered, title>>, pc' \in Pcs,
           pos' \in Nat, prefix_len' \in Nat, consumed' \in Nat, from' \in Nat, goal' \in Nat,
           entry' \in Nat \ {0}, table' \in Nat \ {0}
    PROVE  TypeOK'
BY DEF TypeOK, Pcs

-----------------------------------------------------------------------------
(* The types, and where install_stream stands. *)

Control == TypeOK /\ Standing

LEMMA PeekControl == Control /\ Peek => Control'
<1> SUFFICES ASSUME Control, Peek PROVE Control'
  OBVIOUS
<1>1. /\ pc = "peek" /\ pc' \in {"peek", "detect"}
      /\ UNCHANGED <<stream, consumed, goal, table, entry, entries, from, placed, registered,
                     written, title, result>>
  BY DEF Peek, ncmVars
<1>2. pos' \in Nat /\ prefix_len' \in Nat
  <2>1. PrefixSize - prefix_len \in Int /\ pos \in Nat /\ prefix_len \in Nat
    BY Types DEF Control
  <2>2. \A n \in Receives(PrefixSize - prefix_len) : n \in Nat
    BY <2>1, ReceivesFacts DEF Control
  <2>3. QED
    BY <2>1, <2>2 DEF Peek
<1>3. TypeOK'
  BY <1>1, <1>2, Types, TypeQuiet DEF Control, Pcs
<1>4. Standing'
  BY <1>1 DEF Control, Standing, InEntry, Current
<1>5. QED
  BY <1>3, <1>4 DEF Control

LEMMA RefuseControl ==
    ASSUME Control, Refuse, pc \in {"detect", "in_table"}
    PROVE  Control'
<1>1. /\ pc' = "done" /\ result' = "failed"
      /\ UNCHANGED <<stream, pos, prefix_len, consumed, goal, table, entry, entries, from, placed,
                     registered, written, title>>
  BY DEF Refuse, ncmVars, readVars
<1>2. TypeOK'
  BY <1>1, Types, TypeQuiet DEF Control, Pcs
<1>3. Standing'
  BY <1>1 DEF Control, Standing, InEntry, Current
<1>4. QED
  BY <1>2, <1>3 DEF Control

LEMMA DetectControl == Control /\ container_detect => Control'
<1> SUFFICES ASSUME Control, container_detect PROVE Control'
  OBVIOUS
<1>1. pc = "detect" /\ table = 1 /\ stream \in Containers
  BY DEF container_detect, Control, Standing, TypeOK
<1>2. CASE Refuse
  BY <1>1, <1>2, RefuseControl
<1>3. CASE /\ stream.kind # "unknown" /\ pc' = "to_table" /\ goal' = stream.tables[1].at
           /\ UNCHANGED <<stream, pos, prefix_len, consumed, table, entry, entries, from,
                          ncmVars, result>>
  <2>1. UNCHANGED <<placed, registered, written, title>>
    BY <1>3 DEF ncmVars
  <2>2. goal' \in Nat /\ 1 <= Len(stream.tables)
    BY <1>1, <1>3, ContainerFacts
  <2>3. TypeOK'
    BY <1>3, <2>1, <2>2, Types, TypeQuiet DEF Control, Pcs
  <2>4. Standing'
    BY <1>1, <1>3, <2>1, <2>2 DEF Control, Standing, InEntry, Current
  <2>5. QED
    BY <2>3, <2>4 DEF Control
<1>4. QED
  BY <1>2, <1>3 DEF container_detect

\* Moving forward in the stream: the step stays where it is.
LEMMA MoveControl == Control /\ (FromPrefix \/ FromStream) => Control'
<1> SUFFICES ASSUME Control, FromPrefix \/ FromStream PROVE Control'
  OBVIOUS
<1>1. UNCHANGED <<stream, pc, goal, table, entry, entries, from, placed, registered, written,
                  title, result>>
  BY DEF FromPrefix, FromStream, ncmVars
<1>2. pos \in Nat /\ prefix_len \in Nat /\ consumed \in Nat /\ goal \in Nat /\ goal - consumed \in Int
  BY Types DEF Control
<1>3. pos' \in Nat /\ prefix_len' \in Nat /\ consumed' \in Nat
  <2>1. CASE FromPrefix
    <3>1. /\ pos' = pos /\ consumed < goal
          /\ prefix_len' = prefix_len - Min2(prefix_len, goal - consumed)
          /\ consumed' = consumed + Min2(prefix_len, goal - consumed)
      BY <2>1 DEF FromPrefix
    <3>2. QED
      BY <1>2, <3>1 DEF Min2
  <2>2. CASE FromStream
    <3>1. PICK n \in Receives(goal - consumed) : pos' = pos + n /\ consumed' = consumed + n
      BY <2>2 DEF FromStream
    <3>2. n \in Nat /\ prefix_len' = prefix_len
      BY <1>2, <2>2, ReceivesFacts DEF Control, FromStream
    <3>3. QED
      BY <1>2, <3>1, <3>2
  <2>3. QED
    BY <2>1, <2>2
<1>4. TypeOK'
  BY <1>1, <1>3, Types, TypeQuiet DEF Control
<1>5. Standing'
  BY <1>1 DEF Control, Standing, InEntry, Current
<1>6. QED
  BY <1>4, <1>5 DEF Control

LEMMA StreamEndsControl == Control /\ StreamEnds => Control'
<1> SUFFICES ASSUME Control, StreamEnds PROVE Control'
  OBVIOUS
<1>1. /\ Moving /\ pc' \in {"done", "rollback"} /\ result' = "failed"
      /\ UNCHANGED <<stream, pos, prefix_len, consumed, goal, table, entry, entries, from, placed,
                     registered, written, title>>
  BY DEF StreamEnds, ncmVars, readVars
<1>2. TypeOK'
  BY <1>1, Types, TypeQuiet DEF Control, Pcs
<1>3. Standing'
  BY <1>1 DEF Control, Standing, InEntry, Current, Moving
<1>4. QED
  BY <1>2, <1>3 DEF Control

LEMMA TableReachedControl == Control /\ TableReached => Control'
<1> SUFFICES ASSUME Control, TableReached PROVE Control'
  OBVIOUS
<1>1. /\ pc = "to_table" /\ pc' = "in_table" /\ goal' = consumed + stream.tables[table].size
      /\ UNCHANGED <<stream, pos, prefix_len, consumed, table, entry, entries, from, placed,
                     registered, written, title, result>>
  BY DEF TableReached, ncmVars
<1>2. goal' \in Nat
  <2>1. table \in 1..Len(stream.tables) /\ consumed \in Nat
    BY <1>1, Types, ContainerFacts DEF Control, Standing
  <2>2. stream.tables[table].size \in Nat
    BY <2>1, Types, ContainerFacts DEF Control
  <2>3. QED
    BY <1>1, <2>1, <2>2
<1>3. TypeOK'
  BY <1>1, <1>2, Types, TypeQuiet DEF Control, Pcs
<1>4. Standing'
  BY <1>1 DEF Control, Standing, InEntry, Current
<1>5. QED
  BY <1>3, <1>4 DEF Control

LEMMA TableReadControl == Control /\ TableRead => Control'
<1> SUFFICES ASSUME Control, TableRead PROVE Control'
  OBVIOUS
<1>1. pc = "in_table"
  BY DEF TableRead
<1>2. CASE Refuse
  BY <1>1, <1>2, RefuseControl
<1>3. CASE /\ table < Len(stream.tables) /\ table' = table + 1 /\ pc' = "to_table"
           /\ goal' = stream.tables[table'].at
           /\ UNCHANGED <<stream, pos, prefix_len, consumed, entry, entries, from, ncmVars, result>>
  <2>1. UNCHANGED <<placed, registered, written, title>>
    BY <1>3 DEF ncmVars
  <2>2. table' \in Nat \ {0} /\ table' \in 1..Len(stream.tables)
    BY <1>3, Types, ContainerFacts DEF Control
  <2>3. goal' \in Nat
    BY <1>3, <2>2, Types, ContainerFacts DEF Control
  <2>4. TypeOK'
    BY <1>3, <2>1, <2>2, <2>3, Types, TypeQuiet DEF Control, Pcs
  <2>5. Standing'
    BY <1>1, <1>3, <2>1, <2>2 DEF Control, Standing, InEntry, Current
  <2>6. QED
    BY <2>4, <2>5 DEF Control
<1>4. CASE /\ \E p \in Orders : entries' = [i \in DOMAIN p |-> stream.files[p[i]]]
           /\ pc' = "next"
           /\ UNCHANGED <<readVars, table, entry, from, ncmVars, result>>
  <2>1. UNCHANGED <<stream, pos, prefix_len, consumed, goal, placed, registered, written, title>>
    BY <1>4 DEF ncmVars, readVars
  <2>2. entries' \in Seq(FileEntry)
    BY <1>4, OrderFacts DEF Control
  <2>3. TypeOK'
    BY <1>4, <2>1, <2>2 DEF Control, TypeOK
  <2>4. Standing'
    BY <1>1, <1>4, <2>1 DEF Control, Standing, InEntry
  <2>5. QED
    BY <2>3, <2>4 DEF Control
<1>5. QED
  BY <1>2, <1>3, <1>4 DEF TableRead

LEMMA NextEntryControl == Control /\ NextEntry => Control'
<1> SUFFICES ASSUME Control, NextEntry PROVE Control'
  OBVIOUS
<1>1. /\ pc = "next"
      /\ UNCHANGED <<stream, pos, prefix_len, consumed, table, entry, entries, from, placed,
                     registered, written, title, result>>
      /\ \/ entry <= Len(entries) /\ pc' = "to_entry" /\ goal' = Current.offset
         \/ ~(entry <= Len(entries)) /\ pc' = "title" /\ goal' = goal
  BY DEF NextEntry, ncmVars
<1>2. goal' \in Nat
  BY <1>1, CurrentFacts, Types DEF Control
<1>3. TypeOK'
  BY <1>1, <1>2, Types, TypeQuiet DEF Control, Pcs
<1>4. Standing'
  BY <1>1, Types DEF Control, Standing, InEntry, Current
<1>5. QED
  BY <1>3, <1>4 DEF Control

LEMMA EntryReachedControl == Control /\ EntryReached => Control'
<1> SUFFICES ASSUME Control, EntryReached PROVE Control'
  OBVIOUS
<1>1. /\ pc = "to_entry" /\ from' = pos
      /\ UNCHANGED <<stream, pos, prefix_len, consumed, table, entry, entries, placed,
                     registered, written, title, result>>
      /\ \/ Current.type = "nca" /\ pc' = "create" /\ goal' = goal
         \/ /\ Current.type # "nca" /\ pc' \in {"in_entry", "over_entry"}
            /\ goal' = consumed + Current.size
  BY DEF EntryReached, ncmVars
<1>2. entry <= Len(entries)
  BY <1>1 DEF Control, Standing, InEntry
<1>3. goal' \in Nat /\ from' \in Nat
  BY <1>1, <1>2, CurrentFacts, Types DEF Control
<1>4. TypeOK'
  BY <1>1, <1>3, Types, TypeQuiet DEF Control, Pcs
<1>5. Standing'
  BY <1>1, <1>2 DEF Control, Standing, InEntry, Current
<1>6. QED
  BY <1>4, <1>5 DEF Control

LEMMA EntryRefusedControl == Control /\ EntryRefused => Control'
<1> SUFFICES ASSUME Control, EntryRefused PROVE Control'
  OBVIOUS
<1>1. /\ pc \in {"in_entry", "create"} /\ pc' = "rollback" /\ result' = "failed"
      /\ UNCHANGED <<stream, pos, prefix_len, consumed, goal, table, entry, entries, from, placed,
                     registered, written, title>>
  BY DEF EntryRefused, ncmVars, readVars
<1>2. TypeOK'
  BY <1>1, Types, TypeQuiet DEF Control, Pcs
<1>3. Standing'
  BY <1>1 DEF Control, Standing, InEntry, Current
<1>4. QED
  BY <1>2, <1>3 DEF Control

LEMMA SmallEntryReadControl == Control /\ SmallEntryRead => Control'
<1> SUFFICES ASSUME Control, SmallEntryRead PROVE Control'
  OBVIOUS
<1>1. /\ pc \in {"in_entry", "over_entry"}
      /\ UNCHANGED <<stream, pos, prefix_len, consumed, goal, table, entries, from, placed,
                     registered, written, title, result>>
      /\ \/ pc' = "create" /\ entry' = entry
         \/ pc' = "next" /\ entry' = entry + 1
  BY DEF SmallEntryRead, ncmVars, readVars
<1>2. entry' \in Nat \ {0}
  BY <1>1, Types DEF Control
<1>3. TypeOK'
  BY <1>1, <1>2, Types, TypeQuiet DEF Control, Pcs
<1>4. Standing'
  BY <1>1 DEF Control, Standing, InEntry, Current
<1>5. QED
  BY <1>3, <1>4 DEF Control

LEMMA CreateControl == Control /\ CreatePlaceHolder => Control'
<1> SUFFICES ASSUME Control, CreatePlaceHolder PROVE Control'
  OBVIOUS
<1>1. /\ pc = "create" /\ pc' = "write" /\ placed' \in {Current.size, 0}
      /\ UNCHANGED <<stream, pos, prefix_len, consumed, goal, table, entry, entries, from,
                     registered, written, title, result>>
  BY DEF CreatePlaceHolder, readVars
<1>2. entry <= Len(entries)
  BY <1>1 DEF Control, Standing, InEntry
<1>3. placed' \in Nat
  BY <1>1, <1>2, CurrentFacts DEF Control
<1>4. TypeOK'
  BY <1>1, Types, TypeQuiet DEF Control, Pcs
<1>5. Standing'
  BY <1>1, <1>2, <1>3 DEF Control, Standing, InEntry, Current
<1>6. QED
  BY <1>4, <1>5 DEF Control

LEMMA WriteControl == Control /\ WritePlaceHolder => Control'
<1> SUFFICES ASSUME Control, WritePlaceHolder PROVE Control'
  OBVIOUS
<1>1. /\ pc = "write"
      /\ UNCHANGED <<stream, prefix_len, consumed, pc, goal, table, entry, entries, from,
                     registered, written, title, result>>
      /\ \E n \in Receives(Current.size - placed) : pos' = pos + n /\ placed' = placed + n
  BY DEF WritePlaceHolder
<1>2. entry <= Len(entries) /\ placed \in Nat
  BY <1>1 DEF Control, Standing, InEntry
<1>3. Current.size - placed \in Int
  BY <1>2, CurrentFacts DEF Control
<1>4. pos' \in Nat /\ placed' \in Nat
  <2>1. PICK n \in Receives(Current.size - placed) : pos' = pos + n /\ placed' = placed + n
    BY <1>1
  <2>2. n \in Nat /\ pos \in Nat
    BY <1>3, ReceivesFacts, Types DEF Control
  <2>3. QED
    BY <1>2, <2>1, <2>2
<1>5. TypeOK'
  BY <1>1, <1>4, Types, TypeQuiet DEF Control, Pcs
<1>6. Standing'
  BY <1>1, <1>4 DEF Control, Standing, InEntry, Current
<1>7. QED
  BY <1>5, <1>6 DEF Control

LEMMA WriteFailsControl == Control /\ WriteFails => Control'
<1> SUFFICES ASSUME Control, WriteFails PROVE Control'
  OBVIOUS
<1>1. /\ pc = "write" /\ placed' = -1 /\ pc' = "rollback" /\ result' = "failed"
      /\ UNCHANGED <<stream, pos, prefix_len, consumed, goal, table, entry, entries, from,
                     registered, written, title>>
  BY DEF WriteFails, readVars
<1>2. TypeOK'
  BY <1>1, Types, TypeQuiet DEF Control, Pcs
<1>3. Standing'
  BY <1>1 DEF Control, Standing, InEntry, Current
<1>4. QED
  BY <1>2, <1>3 DEF Control

\* What registering does: the content is new, or neither old nor new.
LEMMA RegisterFacts ==
    ASSUME Control, Register
    PROVE  /\ pc = "write" /\ placed' = -1 /\ entry <= Len(entries)
           /\ UNCHANGED <<stream, pos, prefix_len, goal, table, entries, from, title>>
           /\ \/ /\ registered' = [registered EXCEPT ![Current.id] = IF Right THEN "new" ELSE "wrong"]
                 /\ written' = Append(written, Current.id) /\ entry' = entry + 1
                 /\ consumed' = (IF Current.type = "nca" THEN consumed + Current.size ELSE consumed)
                 /\ pc' = "next" /\ result' = result
              \/ /\ registered' = [registered EXCEPT ![Current.id] = "none"]
                 /\ UNCHANGED <<written, consumed, entry>>
                 /\ pc' = "rollback" /\ result' = "failed"
BY DEF Register, Control, Standing, InEntry

LEMMA RegisterControl == Control /\ Register => Control'
<1> SUFFICES ASSUME Control, Register PROVE Control'
  OBVIOUS
<1> DEFINE what == IF Right THEN "new" ELSE "wrong"
<1>1. Current.id \in Ids /\ Current.size \in Nat /\ what \in {"new", "wrong"}
  BY RegisterFacts, CurrentFacts DEF Control
<1>2. registered' \in Registry
  <2>1. \A x \in {"new", "wrong", "none"} : [registered EXCEPT ![Current.id] = x] \in Registry
    BY Types DEF Registry, Control
  <2>2. QED
    BY <1>1, <2>1, RegisterFacts
<1>3. written' \in Seq(Ids) /\ consumed' \in Nat /\ entry' \in Nat \ {0}
  <2>1. written \in Seq(Ids) /\ consumed \in Nat /\ entry \in Nat \ {0}
    BY Types DEF Control
  <2>2. /\ written' \in {written, Append(written, Current.id)}
        /\ consumed' \in {consumed, consumed + Current.size} /\ entry' \in {entry, entry + 1}
    BY RegisterFacts
  <2> HIDE DEF what
  <2>3. Append(written, Current.id) \in Seq(Ids)
    BY <1>1, <2>1
  <2>4. written' \in Seq(Ids)
    BY <2>1, <2>2, <2>3
  <2>5. consumed' \in Nat
    <3>1. consumed + Current.size \in Nat
      BY <1>1, <2>1
    <3>2. QED
      BY <2>1, <2>2, <3>1
  <2>6. entry' \in Nat \ {0}
    BY <2>1, <2>2
  <2>7. QED
    BY <2>4, <2>5, <2>6
<1>4. TypeOK'
  BY <1>2, <1>3, RegisterFacts, Types DEF Control, TypeOK, Registry
<1>5. Standing'
  BY RegisterFacts DEF Control, Standing, InEntry, Current
<1>6. QED
  BY <1>4, <1>5 DEF Control

LEMMA TitleFacts ==
    ASSUME NEW t \in Titles, NEW x \in {"none", "old", "new"}
    PROVE  /\ [t EXCEPT !.db = x] \in Titles /\ [t EXCEPT !.record = x] \in Titles
           /\ [t EXCEPT !.db = x].db = x /\ [t EXCEPT !.db = x].record = t.record
           /\ [t EXCEPT !.record = x].db = t.db /\ [t EXCEPT !.record = x].record = x
BY DEF Titles

LEMMA TitleControl == Control /\ (SetContentMeta \/ PushRecord) => Control'
<1> SUFFICES ASSUME Control, SetContentMeta \/ PushRecord PROVE Control'
  OBVIOUS
<1>1. UNCHANGED <<stream, pos, prefix_len, consumed, goal, table, entry, entries, from, placed,
                  registered, written>>
  BY DEF SetContentMeta, PushRecord, readVars
<1>2. title \in Titles
  BY Types DEF Control
<1>3. \/ /\ pc = "title" /\ pc' = "record" /\ result' = result
         /\ title' = [title EXCEPT !.db = "new"]
      \/ pc = "title" /\ pc' = "rollback" /\ result' = "failed" /\ title' = title
      \/ /\ pc = "record" /\ pc' = "done" /\ result' = "ok"
         /\ title' = [title EXCEPT !.record = "new"]
      \/ /\ pc = "record" /\ pc' = "rollback" /\ result' = "failed"
         /\ title' = [title EXCEPT !.record = "none"]
  BY DEF SetContentMeta, PushRecord
<1>4. /\ title' \in Titles
      /\ pc' = "record" => title'.db = "new"
      /\ pc = "record" => title'.db = title.db
      /\ result' = "ok" /\ pc = "record" => title'.record = "new"
  <2>1. [title EXCEPT !.db = "new"] \in Titles /\ [title EXCEPT !.db = "new"].db = "new"
    BY <1>2, TitleFacts
  <2>2. /\ [title EXCEPT !.record = "new"] \in Titles /\ [title EXCEPT !.record = "new"].record = "new"
        /\ [title EXCEPT !.record = "new"].db = title.db
    BY <1>2, TitleFacts
  <2>3. /\ [title EXCEPT !.record = "none"] \in Titles
        /\ [title EXCEPT !.record = "none"].db = title.db
    BY <1>2, TitleFacts
  <2>4. QED
    BY <1>2, <1>3, <2>1, <2>2, <2>3
<1>5. TypeOK'
  BY <1>1, <1>3, <1>4 DEF Control, TypeOK, Titles
<1>6. Standing'
  BY <1>1, <1>3, <1>4 DEF Control, Standing, InEntry, Current
<1>7. QED
  BY <1>5, <1>6 DEF Control

LEMMA RollbackFacts ==
    ASSUME Control, Rollback
    PROVE  /\ pc = "rollback" /\ pc' = "done"
           /\ UNCHANGED <<stream, pos, prefix_len, consumed, goal, table, entry, entries, from,
                          placed, written, title>>
           /\ registered' = [id \in Ids |-> registered'[id]]
           /\ \A id \in Ids : registered'[id] \in {"none", registered[id]}
           /\ \/ result' = "left"
              \/ /\ result' = result
                 /\ \A id \in Ids : Contains(written, id) => registered'[id] = "none"
<1> DEFINE mine == {id \in Ids : Contains(written, id)}
<1>1. PICK gone \in SUBSET mine :
        /\ registered' = [id \in Ids |-> IF id \in gone THEN "none" ELSE registered[id]]
        /\ result' = IF gone = mine THEN result ELSE "left"
  BY DEF Rollback
<1>2. \A id \in Ids : registered'[id] = IF id \in gone THEN "none" ELSE registered[id]
  BY <1>1
<1>3. registered' = [id \in Ids |-> registered'[id]]
  BY <1>1
<1>4. \/ result' = "left"
      \/ result' = result /\ \A id \in Ids : Contains(written, id) => registered'[id] = "none"
  BY <1>1, <1>2
<1>5. QED
  BY <1>2, <1>3, <1>4 DEF Rollback, readVars

LEMMA RollbackControl == Control /\ Rollback => Control'
<1> SUFFICES ASSUME Control, Rollback PROVE Control'
  OBVIOUS
<1>1. registered' \in Registry
  BY RollbackFacts, Types DEF Registry, Control
<1>2. TypeOK'
  BY <1>1, RollbackFacts DEF Control, TypeOK, Registry
<1>3. Standing'
  BY RollbackFacts DEF Control, Standing, InEntry, Current
<1>4. QED
  BY <1>2, <1>3 DEF Control

LEMMA NextInstallFacts ==
    ASSUME Control, NextInstall
    PROVE  /\ stream' \in Containers /\ pos' = 0 /\ prefix_len' = 0 /\ consumed' = 0
           /\ pc' = "peek" /\ goal' = 0 /\ table' = 1 /\ entry' = 1 /\ entries' = <<>> /\ from' = 0
           /\ written' = <<>> /\ result' = "none" /\ placed' = -1
           /\ registered' \in Registry
           /\ \A id \in Ids : registered'[id] \in {"none", "old"}
           /\ title' \in Titles
<1>1. \A x : Aged(x) \in {"none", "old"}
  BY DEF Aged
<1>2. registered' = [id \in Ids |-> Aged(registered[id])]
  BY DEF NextInstall
<1>3. registered' \in Registry /\ \A id \in Ids : registered'[id] \in {"none", "old"}
  BY <1>1, <1>2 DEF Registry
<1>4. title' \in Titles
  BY <1>1 DEF NextInstall, Titles
<1>5. placed = -1
  BY DEF Control, Standing, NextInstall
<1>6. QED
  BY <1>3, <1>4, <1>5 DEF NextInstall

LEMMA NextInstallControl == Control /\ NextInstall => Control'
<1> SUFFICES ASSUME Control, NextInstall PROVE Control'
  OBVIOUS
<1>1. TypeOK'
  BY NextInstallFacts DEF TypeOK, Registry, Titles
<1>2. Standing'
  BY NextInstallFacts DEF Standing, InEntry
<1>3. QED
  BY <1>1, <1>2 DEF Control

LEMMA InitFacts ==
    ASSUME Init
    PROVE  /\ registered \in Registry /\ title \in Titles
           /\ \A id \in Ids : registered[id] \in {"none", "old"}
BY DEF Init, Registry, Titles

LEMMA InitControl == Init => Control
<1> SUFFICES ASSUME Init PROVE Control
  OBVIOUS
<1>1. TypeOK
  BY InitFacts DEF Init, TypeOK, Registry, Titles
<1>2. Standing
  BY DEF Init, Standing, InEntry
<1>3. QED
  BY <1>1, <1>2 DEF Control

LEMMA ControlNext == Control /\ [Next]_vars => Control'
<1> SUFFICES ASSUME Control, [Next]_vars PROVE Control'
  OBVIOUS
<1>1. CASE UNCHANGED vars
  BY <1>1 DEF vars, Control, TypeOK, Standing, InEntry, Current
<1>2. CASE Next
  BY <1>2, PeekControl, DetectControl, MoveControl, StreamEndsControl, TableReachedControl,
     TableReadControl, NextEntryControl, EntryReachedControl, EntryRefusedControl,
     SmallEntryReadControl, CreateControl, WriteControl, WriteFailsControl, RegisterControl,
     TitleControl, RollbackControl, NextInstallControl DEF Next, Installing
<1>3. QED
  BY <1>1, <1>2

-----------------------------------------------------------------------------
(* The list for the rollback, and the files that are stored. *)

LEMMA NothingInEmpty == \A id : ~Contains(<<>>, id)
BY DEF Contains

LEMMA EmptyListNothingNew ==
    ASSUME Accounted, written = <<>>
    PROVE  \A id \in Ids : registered[id] \notin {"new", "wrong"}
BY NothingInEmpty DEF Accounted

\* Steps that touch neither the files, nor the list, nor what is stored.
LEMMA AccountedSame ==
    ASSUME Accounted, UNCHANGED <<stream, entries, entry, written, registered>>,
           Early' => Early,
           result' \in {"none", "ok"} => result \in {"none", "ok"} /\ (Early => Early'),
           pc' = "done" /\ result' = "failed" => written = <<>>
    PROVE  Accounted'
<1>1. pc' = "done" /\ result' = "failed" => \A id \in Ids : registered'[id] \notin {"new", "wrong"}
  BY EmptyListNothingNew
<1>2. QED
  BY <1>1 DEF Accounted, Stored

LEMMA QuietAccounted ==
    ASSUME Control, Accounted,
           Peek \/ container_detect \/ FromPrefix \/ FromStream \/ StreamEnds \/ TableReached
             \/ NextEntry \/ EntryReached \/ EntryRefused \/ CreatePlaceHolder \/ WritePlaceHolder
             \/ WriteFails \/ SetContentMeta \/ PushRecord
    PROVE  Accounted'
<1>0. Early => written = <<>>
  BY DEF Accounted
<1>1. CASE Peek
  BY <1>1, AccountedSame DEF Peek, ncmVars, Early
<1>2. CASE container_detect
  BY <1>0, <1>2, AccountedSame DEF container_detect, Refuse, ncmVars, readVars, Early
<1>3. CASE FromPrefix
  BY <1>3, AccountedSame DEF FromPrefix, Moving, ncmVars, Early, Control, Standing
<1>4. CASE FromStream
  BY <1>4, AccountedSame DEF FromStream, Moving, ncmVars, Early, Control, Standing
<1>5. CASE StreamEnds
  BY <1>0, <1>5, AccountedSame DEF StreamEnds, Moving, ncmVars, readVars, Early
<1>6. CASE TableReached
  BY <1>6, AccountedSame DEF TableReached, ncmVars, Early
<1>7. CASE NextEntry
  BY <1>7, AccountedSame DEF NextEntry, ncmVars, Early, Control, Standing
<1>8. CASE EntryReached
  <2>1. pc = "to_entry" /\ pc' \in {"create", "in_entry", "over_entry"}
    BY <1>8 DEF EntryReached
  <2>2. QED
    BY <1>8, <2>1, AccountedSame DEF EntryReached, ncmVars, Early, Control, Standing
<1>9. CASE EntryRefused
  BY <1>9, AccountedSame DEF EntryRefused, ncmVars, readVars, Early
<1>10. CASE CreatePlaceHolder
  BY <1>10, AccountedSame DEF CreatePlaceHolder, readVars, Early, Control, Standing
<1>11. CASE WritePlaceHolder
  BY <1>11, AccountedSame DEF WritePlaceHolder, Early, Control, Standing
<1>12. CASE WriteFails
  BY <1>12, AccountedSame DEF WriteFails, readVars, Early
<1>13. CASE SetContentMeta
  BY <1>13, AccountedSame DEF SetContentMeta, readVars, Early, Control, Standing
<1>14. CASE PushRecord
  BY <1>14, AccountedSame DEF PushRecord, readVars, Early, Control, Standing
<1>15. QED
  BY <1>1, <1>2, <1>3, <1>4, <1>5, <1>6, <1>7, <1>8, <1>9, <1>10, <1>11, <1>12, <1>13, <1>14

LEMMA TableReadAccounted ==
    ASSUME Control, Accounted, TableRead
    PROVE  Accounted'
<1>1. pc = "in_table" /\ written = <<>> /\ Early /\ result = "none" /\ entry = 1
  BY DEF TableRead, Accounted, Early, Control, Standing
<1>2. CASE Refuse
  BY <1>1, <1>2, AccountedSame DEF Refuse, ncmVars, readVars, Early
<1>3. CASE /\ pc' = "to_table"
           /\ UNCHANGED <<stream, pos, prefix_len, consumed, entry, entries, from, ncmVars, result>>
  BY <1>1, <1>3, AccountedSame DEF ncmVars, Early
<1>4. CASE /\ \E p \in Orders : entries' = [i \in DOMAIN p |-> stream.files[p[i]]]
           /\ pc' = "next"
           /\ UNCHANGED <<readVars, table, entry, from, ncmVars, result>>
  <2>1. UNCHANGED <<stream, entry, registered, written, result>>
    BY <1>4 DEF ncmVars, readVars
  <2> DEFINE n == Len(stream.files)
  <2>2. PICK p \in Orders : entries' = [i \in DOMAIN p |-> stream.files[p[i]]]
    BY <1>4
  <2>3. /\ Len(entries') = n /\ DOMAIN stream.files = 1..n /\ \A i \in 1..n : p[i] \in 1..n
        /\ \A i \in 1..n : entries'[i] = stream.files[p[i]]
        /\ \A i \in 1..n : \E j \in 1..n : p[j] = i
    BY <2>2, OrderFacts, ContainerFacts, Types DEF Control
  <2> HIDE DEF n
  <2>4. \A i \in DOMAIN stream.files : \E j \in 1..Len(entries') : entries'[j] = stream.files[i]
    <3> TAKE i \in DOMAIN stream.files
    <3>1. PICK j \in 1..n : p[j] = i
      BY <2>3
    <3>2. entries'[j] = stream.files[i] /\ j \in 1..Len(entries')
      BY <2>3, <3>1
    <3>3. QED
      BY <3>2
  <2>5. \A j \in 1..Len(entries') : \E i \in DOMAIN stream.files : entries'[j] = stream.files[i]
    BY <2>3
  <2>6. QED
    BY <1>1, <1>4, <2>1, <2>4, <2>5 DEF Accounted, Early
<1>5. QED
  BY <1>2, <1>3, <1>4 DEF TableRead

LEMMA SmallEntryReadAccounted ==
    ASSUME Control, Accounted, SmallEntryRead
    PROVE  Accounted'
<1>1. /\ pc \in {"in_entry", "over_entry"} /\ Current.type # "nca" /\ result = "none"
      /\ entry \in Nat /\ entry <= Len(entries)
  BY Types DEF SmallEntryRead, Control, Standing, InEntry
<1>2. UNCHANGED <<stream, entries, registered, written, result>>
  BY DEF SmallEntryRead, readVars, ncmVars
<1>3. CASE pc' = "create" /\ UNCHANGED entry
  BY <1>1, <1>2, <1>3, AccountedSame DEF Early
<1>4. CASE Current.type # "cnmt" /\ pc' = "next" /\ entry' = entry + 1
  <2>1. \A i \in 1..Len(entries) :
            i < entry' /\ entries[i].type \in Content => Stored(entries[i])
    <3>1. SUFFICES ASSUME NEW i \in 1..Len(entries), i < entry', entries[i].type \in Content
                   PROVE  Stored(entries[i])
      OBVIOUS
    <3>2. i # entry
      BY <1>1, <1>4, <3>1 DEF Current, Content
    <3>3. i < entry
      BY <1>1, <1>4, <3>1, <3>2
    <3>4. QED
      BY <1>1, <3>1, <3>3 DEF Accounted
  <2>2. \A f : Stored(f)' <=> Stored(f)
    BY <1>2 DEF Stored
  <2>3. QED
    BY <1>1, <1>2, <1>4, <2>1, <2>2 DEF Accounted, Early, Stored
<1>5. QED
  BY <1>3, <1>4 DEF SmallEntryRead

LEMMA AppendContains ==
    ASSUME NEW S, NEW s \in Seq(S), NEW e \in S
    PROVE  /\ Contains(Append(s, e), e)
           /\ \A x : Contains(s, x) => Contains(Append(s, e), x)
<1>1. /\ Len(Append(s, e)) = Len(s) + 1 /\ Len(s) \in Nat /\ Append(s, e)[Len(s) + 1] = e
      /\ \A i \in 1..Len(s) : Append(s, e)[i] = s[i] /\ i \in 1..Len(s) + 1
  OBVIOUS
<1>2. Len(s) + 1 \in 1..Len(s) + 1
  BY <1>1
<1> DEFINE t == Append(s, e)
<1> HIDE DEF t
<1>3. QED
  BY <1>1, <1>2 DEF Contains

LEMMA RegisterAccounted ==
    ASSUME Control, Accounted, Register
    PROVE  Accounted'
<1> DEFINE what == IF Right THEN "new" ELSE "wrong"
<1>1. /\ what \in {"new", "wrong"} /\ Current.id \in Ids /\ registered \in Registry
      /\ written \in Seq(Ids) /\ entry \in 1..Len(entries) /\ entry \in Nat /\ Len(entries) \in Nat
  BY RegisterFacts, CurrentFacts, Types DEF Control
<1>2. result = "none" /\ pc = "write" /\ UNCHANGED <<stream, entries>>
  BY RegisterFacts DEF Control, Standing
<1>3. CASE /\ registered' = [registered EXCEPT ![Current.id] = what]
           /\ written' = Append(written, Current.id) /\ entry' = entry + 1
           /\ pc' = "next" /\ result' = result
  <2>1. /\ \A id \in Ids : registered'[id] = IF id = Current.id THEN what ELSE registered[id]
    BY <1>1, <1>3 DEF Registry
  <2> HIDE DEF what
  <2>2. \A id \in Ids : registered'[id] \in {"new", "wrong"} => Contains(written', id)
    BY <1>1, <1>3, <2>1, AppendContains DEF Accounted
  <2>3. \A i \in 1..Len(entries) :
            i < entry' /\ entries[i].type \in Content => Stored(entries[i])'
    <3>1. SUFFICES ASSUME NEW i \in 1..Len(entries), i < entry', entries[i].type \in Content
                   PROVE  registered'[entries[i].id] \in {"new", "wrong"}
      BY <1>2 DEF Stored
    <3>2. entries[i].id \in Ids
      BY <1>1, FileFacts, Types DEF Control
    <3>3. CASE i = entry
      BY <1>1, <2>1, <3>2, <3>3 DEF Current
    <3>4. CASE i # entry
      <4>1. i < entry
        BY <1>1, <1>3, <3>1, <3>4
      <4>2. registered[entries[i].id] \in {"new", "wrong"}
        BY <1>2, <3>1, <4>1 DEF Accounted, Stored
      <4>3. QED
        BY <1>1, <2>1, <3>2, <4>2
    <3>5. QED
      BY <3>3, <3>4
  <2>4. QED
    BY <1>2, <1>3, <2>2, <2>3 DEF Accounted, Early
<1>4. CASE /\ registered' = [registered EXCEPT ![Current.id] = "none"]
           /\ UNCHANGED <<written, entry>> /\ pc' = "rollback" /\ result' = "failed"
  <2>1. \A id \in Ids : registered'[id] \in {registered[id], "none"}
    BY <1>1, <1>4 DEF Registry
  <2>2. QED
    BY <1>2, <1>4, <2>1 DEF Accounted, Early
<1>5. QED
  BY <1>3, <1>4, RegisterFacts

LEMMA RollbackAccounted ==
    ASSUME Control, Accounted, Rollback
    PROVE  Accounted'
<1>1. /\ pc = "rollback" /\ pc' = "done" /\ result = "failed"
      /\ UNCHANGED <<stream, entry, entries, written>>
  BY RollbackFacts DEF Control, Standing
<1>2. \A id \in Ids : registered'[id] \in {"new", "wrong"} => registered[id] \in {"new", "wrong"}
  BY RollbackFacts
<1>3. result' = "left" \/ \A id \in Ids : registered'[id] \notin {"new", "wrong"}
  BY <1>2, RollbackFacts DEF Accounted
<1>4. result' \in {"left", "failed"}
  BY <1>1, RollbackFacts
<1>5. QED
  BY <1>1, <1>2, <1>3, <1>4 DEF Accounted, Early

LEMMA NextInstallAccounted ==
    ASSUME Control, Accounted, NextInstall
    PROVE  Accounted'
BY NextInstallFacts DEF Accounted, Early

LEMMA InitAccounted == Init => Accounted
BY InitFacts DEF Init, Accounted, Early

LEMMA AccountedNext == Control /\ Accounted /\ [Next]_vars => Accounted'
<1> SUFFICES ASSUME Control, Accounted, [Next]_vars PROVE Accounted'
  OBVIOUS
<1>1. CASE UNCHANGED vars
  BY <1>1 DEF vars, Accounted, Early, Stored
<1>2. CASE Next
  BY <1>2, QuietAccounted, TableReadAccounted, SmallEntryReadAccounted, RegisterAccounted,
     RollbackAccounted, NextInstallAccounted DEF Next, Installing
<1>3. QED
  BY <1>1, <1>2

LEMMA AccountedThroughout == Spec => [](Control /\ Accounted)
<1>1. Init => Control /\ Accounted
  BY InitControl, InitAccounted
<1>2. Control /\ Accounted /\ [Next]_vars => (Control /\ Accounted)'
  BY ControlNext, AccountedNext
<1>3. QED
  BY <1>1, <1>2, PTL DEF Spec

\* Whatever the containers, and whichever read, write or registration fails:
\* an install that is refused leaves neither a placeholder nor a content of
\* its own, unless content storage cannot be opened for the rollback, and one
\* that is announced has its meta entry, its record and every content of its
\* container in storage.
THEOREM InstallAllOrNothing == Spec => []AllOrNothing
<1>1. Control /\ Accounted => AllOrNothing
  <2> SUFFICES ASSUME Control, Accounted PROVE AllOrNothing
    OBVIOUS
  <2>1. RolledBack
    BY DEF RolledBack, Accounted, Control, Standing
  <2>2. ASSUME result = "ok"
        PROVE  /\ title = [db |-> "new", record |-> "new"]
               /\ \A i \in DOMAIN stream.files :
                     stream.files[i].type \in {"nca", "cnmt"} =>
                         registered[stream.files[i].id] \in {"new", "wrong"}
    <3>1. /\ title.db = "new" /\ title.record = "new" /\ title \in Titles
          /\ entry > Len(entries) /\ pc = "done"
      BY <2>2, Types DEF Control, Standing
    <3>2. title = [db |-> "new", record |-> "new"]
      BY <3>1 DEF Titles
    <3>3. \A i \in DOMAIN stream.files : \E j \in 1..Len(entries) : entries[j] = stream.files[i]
      BY <2>2, <3>1 DEF Accounted, Early
    <3>4. \A j \in 1..Len(entries) : entries[j].type \in Content => Stored(entries[j])
      BY <2>2, <3>1, Types DEF Control, Accounted
    <3>5. QED
      BY <3>2, <3>3, <3>4 DEF Content, Stored
  <2>3. QED
    BY <2>1, <2>2 DEF AllOrNothing, SuccessIsComplete
<1>2. QED
  BY <1>1, AccountedThroughout, PTL

-----------------------------------------------------------------------------
(* The bytes of an XCI are counted right. *)

Secure == stream.tables[2].at + stream.tables[2].size

\* What Laid says of the stream once its secure partition is known to exist.
LEMMA LaidFacts ==
    ASSUME TypeOK, Laid(stream), stream.kind = "xci", Len(stream.tables) >= 2
    PROVE  /\ stream.tables[1].at + stream.tables[1].size <= stream.tables[2].at
           /\ PrefixSize <= Secure /\ Secure \in Nat
           /\ \A i \in 1..Len(stream.files) :
                 Secure <= stream.files[i].offset /\ stream.files[i].size > 0
           /\ \A i, j \in 1..Len(stream.files) :
                 /\ \/ i = j
                    \/ stream.files[i].offset + stream.files[i].size <= stream.files[j].offset
                    \/ stream.files[j].offset + stream.files[j].size <= stream.files[i].offset
                 /\ stream.files[i].id = stream.files[j].id =>
                        stream.files[i].intact = stream.files[j].intact
<1>1. DOMAIN stream.files = 1..Len(stream.files)
  BY ContainerFacts, Types
<1>2. Secure \in Nat
  <2>1. 2 \in 1..Len(stream.tables)
    BY ContainerFacts, Types
  <2>2. stream.tables[2].at \in Nat /\ stream.tables[2].size \in Nat
    BY <2>1, ContainerFacts, Types
  <2>3. QED
    BY <2>2 DEF Secure
<1>3. QED
  BY <1>1, <1>2 DEF Laid, Secure

\* Taken in the order of install_xci, the files come one behind the other.
LEMMA SortedApart ==
    ASSUME TypeOK, Laid(stream), stream.kind = "xci", Len(stream.tables) >= 2,
           NEW p \in Orders, entries' = [i \in DOMAIN p |-> stream.files[p[i]]]
    PROVE  /\ \A i \in 1..Len(entries') : Secure <= entries'[i].offset
           /\ \A i, j \in 1..Len(entries') :
                 i < j => entries'[i].offset + entries'[i].size <= entries'[j].offset
<1> DEFINE n == Len(stream.files)
<1>1. /\ Len(entries') = n /\ \A i \in 1..n : p[i] \in 1..n /\ entries'[i] = stream.files[p[i]]
      /\ \A i, j \in 1..n : i < j => Before(p[i], p[j])
  BY OrderFacts
<1>2. \A a \in 1..n : stream.files[a].offset \in Nat /\ stream.files[a].size \in Nat
  BY ContainerFacts, FileFacts, Types
<1>3. \A a, b \in 1..n :
         Before(a, b) => stream.files[a].offset + stream.files[a].size <= stream.files[b].offset
  <2> SUFFICES ASSUME NEW a \in 1..n, NEW b \in 1..n, Before(a, b)
               PROVE  stream.files[a].offset + stream.files[a].size <= stream.files[b].offset
    OBVIOUS
  <2>1. \/ stream.files[a].offset < stream.files[b].offset
        \/ stream.files[a].offset = stream.files[b].offset /\ a < b
    BY DEF Before
  <2>2. \/ a = b
        \/ stream.files[a].offset + stream.files[a].size <= stream.files[b].offset
        \/ stream.files[b].offset + stream.files[b].size <= stream.files[a].offset
    BY LaidFacts
  <2>3. stream.files[b].size > 0 /\ a \in Int /\ b \in Int
    BY LaidFacts
  <2>4. QED
    BY <1>2, <2>1, <2>2, <2>3
<1>4. \A a \in 1..n : Secure <= stream.files[a].offset
  BY LaidFacts
<1> HIDE DEF n
<1>5. QED
  BY <1>1, <1>3, <1>4

\* The hypotheses under which each step is looked at.
Xci == Control /\ Laid(stream) /\ stream.kind = "xci" /\ Counted

LEMMA PeekCounted ==
    ASSUME Xci, Peek
    PROVE  Counted'
<1>1. /\ pc = "peek" /\ pc' \in {"peek", "detect"} /\ UNCHANGED <<stream, consumed>>
      /\ consumed = 0 /\ prefix_len = pos
  BY Types DEF Peek, Xci, Counted, Control
<1>2. prefix_len' = pos' /\ (prefix_len' > 0 => pos' <= PrefixSize) /\ pos' \in Nat
  <2>1. /\ pos \in Nat /\ PrefixSize \in Nat /\ PrefixSize - prefix_len \in Int
        /\ prefix_len > 0 => pos <= PrefixSize
    BY <1>1, Types DEF Xci, Control, Counted
  <2>2. CASE UNCHANGED <<prefix_len, pos>>
    BY <1>1, <2>1, <2>2
  <2>3. CASE \E m \in Receives(PrefixSize - prefix_len) : prefix_len' = prefix_len + m /\ pos' = pos + m
    <3>1. PICK m \in Receives(PrefixSize - prefix_len) : prefix_len' = prefix_len + m /\ pos' = pos + m
      BY <2>3
    <3>2. m \in Nat /\ m <= PrefixSize - prefix_len
      BY <2>1, ReceivesFacts DEF Xci, Control
    <3>3. QED
      BY <1>1, <2>1, <3>1, <3>2
  <2>4. QED
    BY <2>2, <2>3 DEF Peek
<1>3. consumed' = 0 /\ consumed' + prefix_len' = pos'
  <2>1. consumed' = 0
    BY <1>1
  <2>2. pos' \in Nat
    BY <1>2
  <2>3. \A x \in Nat : 0 + x = x
    OBVIOUS
  <2>4. QED
    BY <1>2, <2>1, <2>2, <2>3
<1>4. QED
  BY <1>1, <1>2, <1>3 DEF Counted, Early

LEMMA DetectCounted ==
    ASSUME Xci, container_detect
    PROVE  Counted'
<1>1. pc = "detect" /\ table = 1 /\ consumed = 0
  BY DEF container_detect, Xci, Counted, Control, Standing
<1>2. CASE Refuse
  BY <1>2 DEF Refuse, Counted
<1>3. CASE /\ pc' = "to_table" /\ goal' = stream.tables[1].at
           /\ UNCHANGED <<stream, pos, prefix_len, consumed, table, entry, entries, from,
                          ncmVars, result>>
  <2>1. goal' \in Nat
    BY <1>3, ContainerFacts, Types DEF Xci, Control
  <2>2. QED
    BY <1>1, <1>3, <2>1 DEF Counted, Early, Xci
<1>4. QED
  BY <1>2, <1>3 DEF container_detect

LEMMA MoveCounted ==
    ASSUME Xci, FromPrefix \/ FromStream
    PROVE  Counted'
<1>1. /\ UNCHANGED <<stream, pc, goal, table, entry, entries, from, placed>>
      /\ Moving /\ consumed < goal
  BY DEF FromPrefix, FromStream, ncmVars
<1>2. /\ pos \in Nat /\ prefix_len \in Nat /\ consumed \in Nat /\ goal \in Nat /\ goal - consumed \in Int
      /\ PrefixSize \in Nat
  BY Types DEF Xci, Control
<1>3. /\ prefix_len > 0 => pos <= PrefixSize
      /\ consumed + prefix_len = pos
      /\ ~Early => prefix_len = 0
  BY <1>1 DEF Xci, Counted, Moving
<1>4. /\ prefix_len' > 0 => pos' <= PrefixSize
      /\ consumed' + prefix_len' = pos' /\ consumed' <= goal
      /\ ~Early => prefix_len' = 0
  <2>1. CASE FromPrefix
    <3>1. /\ pos' = pos /\ prefix_len > 0
          /\ prefix_len' = prefix_len - Min2(prefix_len, goal - consumed)
          /\ consumed' = consumed + Min2(prefix_len, goal - consumed)
      BY <2>1 DEF FromPrefix, HasPrefix
    <3>2. QED
      BY <1>2, <1>3, <3>1 DEF Min2
  <2>2. CASE FromStream
    <3>1. PICK m \in Receives(goal - consumed) : pos' = pos + m /\ consumed' = consumed + m
      BY <2>2 DEF FromStream
    <3>2. m \in Nat /\ m <= goal - consumed
      BY <1>2, ReceivesFacts DEF Xci, Control
    <3>3. prefix_len' = prefix_len /\ prefix_len = 0
      BY <1>1, <1>2, <1>3, <2>2 DEF FromStream, HasPrefix, Early, Moving
    <3>4. QED
      BY <1>2, <1>3, <3>1, <3>2, <3>3
  <2>3. QED
    BY <2>1, <2>2
<1>5. Early' <=> Early
  BY <1>1 DEF Early
<1>6. QED
  BY <1>1, <1>4, <1>5 DEF Xci, Counted, Moving, Current

LEMMA TableReachedCounted ==
    ASSUME Xci, TableReached
    PROVE  Counted'
<1>1. /\ pc = "to_table" /\ pc' = "in_table" /\ consumed >= goal
      /\ goal' = consumed + stream.tables[table].size
      /\ UNCHANGED <<stream, pos, prefix_len, consumed, table, entry, entries, from>>
  BY DEF TableReached
<1>2. consumed \in Nat /\ goal \in Nat /\ stream.tables[table].size \in Nat
  <2>1. table \in 1..Len(stream.tables)
    BY <1>1, Types, ContainerFacts DEF Xci, Control, Standing
  <2>2. QED
    BY <2>1, Types, ContainerFacts DEF Xci, Control
<1>3. consumed = goal /\ goal = stream.tables[table].at /\ table \in {1, 2}
  BY <1>1, <1>2 DEF Xci, Counted
<1>4. QED
  BY <1>1, <1>2, <1>3 DEF Xci, Counted, Early

LEMMA TableReadCounted ==
    ASSUME Xci, TableRead
    PROVE  Counted'
<1>1. /\ pc = "in_table" /\ consumed \in Nat /\ goal \in Nat /\ consumed = goal /\ table \in {1, 2}
      /\ goal = stream.tables[table].at + stream.tables[table].size
      /\ table \in 1..Len(stream.tables) /\ Len(stream.tables) \in Nat
      /\ consumed + prefix_len = pos /\ prefix_len \in Nat /\ (prefix_len > 0 => pos <= PrefixSize)
  <2>1. pc = "in_table" /\ consumed \in Nat /\ goal \in Nat /\ consumed >= goal /\ prefix_len \in Nat
    BY Types DEF TableRead, Xci, Control
  <2>2. table \in 1..Len(stream.tables) /\ Len(stream.tables) \in Nat
    BY <2>1, Types, ContainerFacts DEF Xci, Control, Standing
  <2>3. QED
    BY <2>1, <2>2 DEF Xci, Counted
<1>2. CASE Refuse
  BY <1>2 DEF Refuse, Counted
<1>3. CASE /\ table < 2 /\ table < Len(stream.tables) /\ table' = table + 1 /\ pc' = "to_table"
           /\ goal' = stream.tables[table'].at
           /\ UNCHANGED <<stream, pos, prefix_len, consumed, entry, entries, from, ncmVars, result>>
  <2>1. table = 1 /\ table' = 2 /\ Len(stream.tables) >= 2
    BY <1>1, <1>3
  <2>2. consumed <= goal'
    BY <1>1, <1>3, <2>1, LaidFacts DEF Xci, Control
  <2>3. QED
    BY <1>1, <1>3, <2>1, <2>2 DEF Xci, Counted, Early
<1>4. CASE /\ table = 2
           /\ \E p \in Orders : entries' = [i \in DOMAIN p |-> stream.files[p[i]]]
           /\ pc' = "next"
           /\ UNCHANGED <<readVars, table, entry, from, ncmVars, result>>
  <2>1. UNCHANGED <<stream, pos, prefix_len, consumed, goal>> /\ Len(stream.tables) >= 2
    BY <1>1, <1>4 DEF readVars
  <2>2. consumed = Secure /\ PrefixSize <= Secure /\ PrefixSize \in Nat
    BY <1>1, <1>4, <2>1, LaidFacts, Types DEF Xci, Control, Secure
  <2>3. prefix_len = 0
    BY <1>1, <2>2
  <2>4. PICK p \in Orders : entries' = [i \in DOMAIN p |-> stream.files[p[i]]]
    BY <1>4
  <2>5. /\ \A i \in 1..Len(entries') : Secure <= entries'[i].offset
        /\ \A i, j \in 1..Len(entries') :
              i < j => entries'[i].offset + entries'[i].size <= entries'[j].offset
    BY <2>1, <2>4, SortedApart DEF Xci, Control
  <2>6. QED
    BY <1>1, <1>4, <2>1, <2>2, <2>3, <2>5 DEF Counted, Early
<1>5. QED
  BY <1>2, <1>3, <1>4 DEF TableRead, Xci

\* Between the tables and the end of the last file.
InFiles == pc \in {"next", "to_entry", "in_entry", "over_entry", "create", "write"}

LEMMA FilesFacts ==
    ASSUME Xci, InFiles
    PROVE  /\ ~Early /\ Len(stream.tables) >= 2 /\ prefix_len = 0
           /\ \A i, j \in 1..Len(entries) :
                 i < j => entries[i].offset + entries[i].size <= entries[j].offset
           /\ pos \in Nat /\ consumed \in Nat /\ goal \in Nat /\ from \in Nat
           /\ entry \in Nat \ {0} /\ Len(entries) \in Nat
           /\ pc # "write" \/ Current.type = "cnmt" => consumed = pos
<1>1. /\ pos \in Nat /\ consumed \in Nat /\ goal \in Nat /\ from \in Nat
      /\ entry \in Nat \ {0} /\ Len(entries) \in Nat
  BY Types DEF Xci, Control
<1>2. ~Early
  BY DEF InFiles, Early
<1>3. /\ Len(stream.tables) >= 2 /\ prefix_len = 0
      /\ \A i, j \in 1..Len(entries) :
            i < j => entries[i].offset + entries[i].size <= entries[j].offset
      /\ pc # "write" \/ Current.type = "cnmt" => consumed + prefix_len = pos
  BY <1>2 DEF Xci, Counted, InFiles
<1>4. QED
  BY <1>1, <1>2, <1>3

\* The file's own type and place, while it is being read or written.
LEMMA InEntryFacts ==
    ASSUME Xci, InEntry
    PROVE  /\ InFiles /\ entry \in 1..Len(entries)
           /\ Current.offset \in Nat /\ Current.size \in Nat
           /\ Current.type \in {"nca", "cnmt", "tik", "other"}
           /\ \A i \in 1..Len(entries) :
                 entry + 1 <= i => Current.offset + Current.size <= entries[i].offset
<1>1. InFiles /\ entry <= Len(entries)
  BY DEF InEntry, InFiles, Xci, Control, Standing
<1>2. /\ entry \in 1..Len(entries) /\ Current.offset \in Nat /\ Current.size \in Nat
      /\ Current.type \in {"nca", "cnmt", "tik", "other"}
  BY <1>1, CurrentFacts DEF Xci, Control
<1>3. \A i \in 1..Len(entries) : entry + 1 <= i => entry < i
  BY <1>2
<1>4. QED
  BY <1>1, <1>2, <1>3, FilesFacts DEF Current

LEMMA NextEntryCounted ==
    ASSUME Xci, NextEntry
    PROVE  Counted'
<1>1. /\ pc = "next" /\ InFiles
      /\ UNCHANGED <<stream, pos, prefix_len, consumed, table, entry, entries, from, placed>>
      /\ \/ entry <= Len(entries) /\ pc' = "to_entry" /\ goal' = Current.offset
         \/ pc' = "title"
  BY DEF NextEntry, ncmVars, InFiles
<1>2. CASE pc' = "title"
  BY <1>2 DEF Counted
<1>3. CASE entry <= Len(entries) /\ pc' = "to_entry" /\ goal' = Current.offset
  <2>1. entry \in 1..Len(entries)
    BY <1>1, <1>3, FilesFacts
  <2>2. consumed <= Current.offset
    BY <1>1, <2>1 DEF Xci, Counted, Current
  <2>3. Current' = Current
    BY <1>1 DEF Current
  <2>4. QED
    BY <1>1, <1>3, <2>2, <2>3, FilesFacts DEF Xci, Counted, Early
<1>4. QED
  BY <1>1, <1>2, <1>3

LEMMA EntryReachedCounted ==
    ASSUME Xci, EntryReached
    PROVE  Counted'
<1>1. /\ pc = "to_entry" /\ InEntry /\ consumed >= goal /\ from' = pos
      /\ UNCHANGED <<stream, pos, prefix_len, consumed, table, entry, entries, placed>>
      /\ \/ Current.type = "nca" /\ pc' = "create" /\ goal' = goal
         \/ /\ Current.type # "nca" /\ pc' \in {"in_entry", "over_entry"}
            /\ goal' = consumed + Current.size
  BY DEF EntryReached, ncmVars, InEntry
<1>2. Current' = Current
  BY <1>1 DEF Current
<1>3. goal = Current.offset /\ consumed <= goal
  BY <1>1 DEF Xci, Counted
<1>4. consumed = Current.offset /\ from' = Current.offset
  BY <1>1, <1>3, InEntryFacts, FilesFacts
<1>5. pc' \in {"in_entry", "over_entry"} =>
         goal' = Current.offset + Current.size /\ consumed <= goal'
  BY <1>1, <1>4, InEntryFacts
<1>6. QED
  BY <1>1, <1>2, <1>4, <1>5, InEntryFacts, FilesFacts DEF Xci, Counted, Early

LEMMA SmallEntryReadCounted ==
    ASSUME Xci, SmallEntryRead
    PROVE  Counted'
<1>1. /\ pc \in {"in_entry", "over_entry"} /\ InEntry /\ consumed >= goal
      /\ UNCHANGED <<stream, pos, prefix_len, consumed, goal, table, entries, from, placed>>
      /\ \/ Current.type = "cnmt" /\ pc' = "create" /\ entry' = entry
         \/ pc' = "next" /\ entry' = entry + 1
  BY DEF SmallEntryRead, ncmVars, readVars, InEntry
<1>2. from = Current.offset /\ goal = Current.offset + Current.size /\ consumed <= goal
  BY <1>1 DEF Xci, Counted
<1>3. consumed = Current.offset + Current.size
  BY <1>1, <1>2, InEntryFacts, FilesFacts
<1>4. CASE Current.type = "cnmt" /\ pc' = "create" /\ entry' = entry
  <2>1. Current' = Current
    BY <1>1, <1>4 DEF Current
  <2>2. QED
    BY <1>1, <1>2, <1>3, <1>4, <2>1, InEntryFacts, FilesFacts DEF Xci, Counted, Early
<1>5. CASE pc' = "next" /\ entry' = entry + 1
  <2>1. \A i \in 1..Len(entries) : entry' <= i => consumed <= entries[i].offset
    BY <1>1, <1>3, <1>5, InEntryFacts
  <2>2. QED
    BY <1>1, <1>5, <2>1, InEntryFacts, FilesFacts DEF Xci, Counted, Early
<1>6. QED
  BY <1>1, <1>4, <1>5

LEMMA CreateCounted ==
    ASSUME Xci, CreatePlaceHolder
    PROVE  Counted'
<1>1. /\ pc = "create" /\ InEntry /\ pc' = "write"
      /\ placed' = IF Current.type = "cnmt" THEN Current.size ELSE 0
      /\ UNCHANGED <<stream, pos, prefix_len, consumed, goal, table, entry, entries, from>>
  BY DEF CreatePlaceHolder, readVars, InEntry
<1>2. Current' = Current
  BY <1>1 DEF Current
<1>3. consumed = pos /\ consumed + 0 = pos /\ consumed \in Nat
  BY <1>1, InEntryFacts, FilesFacts
<1>4. QED
  BY <1>1, <1>2, <1>3, InEntryFacts, FilesFacts DEF Xci, Counted, Early

LEMMA WriteCounted ==
    ASSUME Xci, WritePlaceHolder
    PROVE  Counted'
<1>1. /\ pc = "write" /\ InEntry /\ placed < Current.size
      /\ UNCHANGED <<stream, prefix_len, consumed, pc, goal, table, entry, entries, from>>
  BY DEF WritePlaceHolder, InEntry
<1>2. Current' = Current
  BY <1>1 DEF Current
<1>3. Current.size \in Nat /\ placed \in Nat /\ Current.size - placed \in Int
  BY <1>1, InEntryFacts DEF Xci, Control, Standing
<1>4. Current.type # "cnmt"
  BY <1>1, <1>3 DEF Xci, Counted
<1>5. consumed + placed = pos
  BY <1>1, <1>4 DEF Xci, Counted
<1>6. consumed + placed' = pos'
  <2>1. PICK m \in Receives(Current.size - placed) : pos' = pos + m /\ placed' = placed + m
    BY DEF WritePlaceHolder
  <2>2. m \in Nat /\ consumed \in Nat
    BY <1>3, ReceivesFacts, Types DEF Xci, Control
  <2>3. QED
    BY <1>3, <1>5, <2>1, <2>2
<1>7. QED
  BY <1>1, <1>2, <1>4, <1>6, InEntryFacts, FilesFacts DEF Xci, Counted, Early

LEMMA RegisterCounted ==
    ASSUME Xci, Register
    PROVE  Counted'
<1>1. /\ pc = "write" /\ InEntry /\ placed = Current.size
      /\ UNCHANGED <<stream, pos, prefix_len, goal, table, entries, from>>
  BY RegisterFacts DEF Register, InEntry, Xci
<1>2. CASE pc' = "rollback"
  BY <1>2 DEF Counted
<1>3. CASE /\ pc' = "next" /\ entry' = entry + 1
           /\ consumed' = IF Current.type = "nca" THEN consumed + Current.size ELSE consumed
  <2>1. consumed' = Current.offset + Current.size /\ consumed' = pos
    <3>1. CASE Current.type = "cnmt"
      BY <1>1, <1>3, <3>1, InEntryFacts, FilesFacts DEF Xci, Counted
    <3>2. CASE Current.type # "cnmt"
      <4>1. Current.type = "nca" /\ consumed = Current.offset /\ consumed + placed = pos
        BY <1>1, <3>2 DEF Xci, Counted
      <4>2. QED
        BY <1>1, <1>3, <4>1
    <3>3. QED
      BY <3>1, <3>2
  <2>2. \A i \in 1..Len(entries) : entry' <= i => consumed' <= entries[i].offset
    BY <1>1, <1>3, <2>1, InEntryFacts
  <2>3. consumed' + 0 = pos
    BY <1>1, <2>1, InEntryFacts, FilesFacts
  <2>4. QED
    BY <1>1, <1>3, <2>1, <2>2, <2>3, InEntryFacts, FilesFacts DEF Xci, Counted, Early
<1>4. QED
  BY <1>2, <1>3, RegisterFacts DEF Xci

LEMMA StreamSame == Installing => stream' = stream
BY DEF Installing, Peek, container_detect, Refuse, FromPrefix, FromStream, StreamEnds,
   TableReached, TableRead, NextEntry, EntryReached, EntryRefused, SmallEntryRead,
   CreatePlaceHolder, WritePlaceHolder, WriteFails, Register, SetContentMeta, PushRecord,
   Rollback, readVars

LEMMA CountedNext == Control /\ Laid(stream) /\ Counted /\ Installing => Counted'
<1> SUFFICES ASSUME Control, Laid(stream), Counted, Installing PROVE Counted'
  OBVIOUS
<1>1. stream' = stream
  BY StreamSame
<1>2. CASE stream.kind # "xci"
  BY <1>1, <1>2 DEF Counted
<1>3. CASE stream.kind = "xci"
  <2>1. Xci
    BY <1>3 DEF Xci
  <2>2. CASE StreamEnds \/ EntryRefused \/ WriteFails \/ SetContentMeta \/ PushRecord \/ Rollback
    <3>1. pc' \in {"done", "rollback", "record"}
      BY <2>2 DEF StreamEnds, EntryRefused, WriteFails, SetContentMeta, PushRecord, Rollback
    <3>2. QED
      BY <3>1 DEF Counted
  <2>3. QED
    BY <2>1, <2>2, PeekCounted, DetectCounted, MoveCounted, TableReachedCounted,
       TableReadCounted, NextEntryCounted, EntryReachedCounted, SmallEntryReadCounted,
       CreateCounted, WriteCounted, RegisterCounted DEF Installing
<1>4. QED
  BY <1>2, <1>3

-----------------------------------------------------------------------------
(* What is registered holds the bytes of its id. *)

\* Only Register makes a content wrong, and only that of a file of an XCI
\* that does not hash to its id.
LEMMA RegisterWrong ==
    ASSUME Control, Accounted, Laid(stream), Counted, WrongRight, Register
    PROVE  WrongRight'
<1> DEFINE what == IF Right THEN "new" ELSE "wrong"
<1> DEFINE cause(id) == /\ stream.kind = "xci" /\ Len(stream.tables) >= 2
                        /\ \E i \in DOMAIN stream.files :
                               stream.files[i].id = id /\ ~stream.files[i].intact
<1>1. /\ pc = "write" /\ InEntry /\ stream.kind \in {"nsp", "xci"} /\ stream' = stream
      /\ entry \in 1..Len(entries) /\ Current.id \in Ids
      /\ Current.type \in {"nca", "cnmt", "tik", "other"}
      /\ Verified => Right
  <2>1. pc = "write" /\ InEntry /\ stream.kind # "unknown" /\ entry <= Len(entries)
    BY RegisterFacts DEF InEntry, Control, Standing
  <2>2. QED
    BY <2>1, RegisterFacts, CurrentFacts, ContainerFacts, Types DEF Control, Register
<1>2. ~Right => cause(Current.id)
  <2> SUFFICES ASSUME ~Right PROVE cause(Current.id)
    OBVIOUS
  <2>1. stream.kind = "xci" /\ Current.type # "cnmt"
    BY <1>1 DEF Verified
  <2>2. Xci
    BY <2>1 DEF Xci
  <2>3. from = Current.offset
    BY <1>1, <2>1 DEF Counted
  <2>4. ~Current.intact
    BY <2>3 DEF Right
  <2>5. PICK i \in DOMAIN stream.files : Current = stream.files[i]
    BY <1>1 DEF Accounted, Current
  <2>6. stream.files[i].id = Current.id /\ ~stream.files[i].intact
    BY <2>4, <2>5
  <2>7. Len(stream.tables) >= 2
    BY <1>1, <2>2, InEntryFacts, FilesFacts
  <2>8. QED
    BY <2>1, <2>6, <2>7
<1>3. \A id \in Ids : registered'[id] = "wrong" => registered[id] = "wrong" \/ (id = Current.id /\ ~Right)
  <2>1. registered \in Registry
    BY Types DEF Control
  <2>2. \A x : \A id \in Ids : [registered EXCEPT ![Current.id] = x][id] = IF id = Current.id THEN x ELSE registered[id]
    BY <1>1, <2>1 DEF Registry
  <2>3. \/ registered' = [registered EXCEPT ![Current.id] = what]
        \/ registered' = [registered EXCEPT ![Current.id] = "none"]
    BY RegisterFacts
  <2>4. what = "wrong" => ~Right
    OBVIOUS
  <2> HIDE DEF what
  <2>5. SUFFICES ASSUME NEW id \in Ids, registered'[id] = "wrong", registered[id] # "wrong"
                 PROVE  id = Current.id /\ ~Right
    OBVIOUS
  <2>6. CASE registered' = [registered EXCEPT ![Current.id] = what]
    BY <2>2, <2>4, <2>5, <2>6
  <2>7. CASE registered' = [registered EXCEPT ![Current.id] = "none"]
    BY <2>2, <2>5, <2>7
  <2>8. QED
    BY <2>3, <2>6, <2>7
<1>4. \A id \in Ids : registered[id] = "wrong" => cause(id)
  BY DEF WrongRight
<1>5. \A id \in Ids : registered'[id] = "wrong" => cause(id)
  <2> HIDE DEF cause
  <2> QED
    BY <1>2, <1>3, <1>4
<1>6. QED
  BY <1>1, <1>5 DEF WrongRight

LEMMA WrongNext ==
    ASSUME Control, Accounted, Laid(stream), Counted, WrongRight, Installing
    PROVE  WrongRight'
<1>1. CASE Register
  BY <1>1, RegisterWrong
<1>2. CASE Rollback
  <2>1. \A id \in Ids : registered'[id] = "wrong" => registered[id] = "wrong"
    BY <1>2, RollbackFacts
  <2>2. QED
    BY <2>1, StreamSame DEF WrongRight
<1>3. ASSUME ~Register, ~Rollback PROVE registered' = registered
  BY <1>3 DEF Installing, Peek, container_detect, Refuse, FromPrefix, FromStream, StreamEnds,
     TableReached, TableRead, NextEntry, EntryReached, EntryRefused, SmallEntryRead,
     CreatePlaceHolder, WritePlaceHolder, WriteFails, SetContentMeta, PushRecord, ncmVars
<1>4. QED
  BY <1>1, <1>2, <1>3, StreamSame DEF WrongRight

LEMMA NothingWrongYet ==
    ASSUME \A id \in Ids : registered[id] \in {"none", "old"}, pc = "peek", pos = 0,
           prefix_len = 0, consumed = 0
    PROVE  Counted /\ WrongRight
BY DEF Counted, WrongRight, Early

\* The inductive invariant.
THEOREM InstallInvariant == Spec => []IInv
<1>1. Init => IInv
  <2> SUFFICES ASSUME Init PROVE IInv
    OBVIOUS
  <2>1. Counted /\ WrongRight
    BY InitFacts, NothingWrongYet DEF Init
  <2>2. QED
    BY <2>1, InitControl, InitAccounted DEF IInv, Control
<1>2. IInv /\ [Next]_vars => IInv'
  <2> SUFFICES ASSUME IInv, [Next]_vars PROVE IInv'
    OBVIOUS
  <2>1. Control /\ Accounted /\ (Laid(stream) => Counted /\ WrongRight)
    BY DEF IInv, Control
  <2>2. Control' /\ Accounted'
    BY <2>1, ControlNext, AccountedNext
  <2>3. ASSUME Laid(stream)' PROVE (Counted /\ WrongRight)'
    <3>1. CASE Installing
      <4>1. Laid(stream)
        BY <2>3, <3>1, StreamSame DEF Laid
      <4>2. QED
        BY <2>1, <3>1, <4>1, CountedNext, WrongNext
    <3>2. CASE NextInstall
      <4>1. /\ \A id \in Ids : registered'[id] \in {"none", "old"}
            /\ pc' = "peek" /\ pos' = 0 /\ prefix_len' = 0 /\ consumed' = 0
        BY <2>1, <3>2, NextInstallFacts
      <4>2. QED
        BY <4>1 DEF Counted, WrongRight, Early
    <3>3. CASE UNCHANGED vars
      <4>1. Laid(stream)
        BY <2>3, <3>3 DEF Laid, vars
      <4>2. QED
        BY <2>1, <3>3, <4>1 DEF vars, Counted, WrongRight, Early, Current
    <3>4. QED
      BY <3>1, <3>2, <3>3 DEF Next
  <2>4. QED
    BY <2>2, <2>3 DEF IInv, Control
<1>3. QED
  BY <1>1, <1>2, PTL DEF Spec

\* For every NSP, and every XCI laid out as install_xci expects it, nothing is
\* ever registered under the id of an intact file but that file's own bytes,
\* in whatever pieces the stream arrives: the content of an XCI is not hashed
\* (install.c:442-444), so this rests on the counting of the bytes alone.
THEOREM InstalledBytesRight == Spec => [](Laid(stream) => RegisteredBytesRight)
<1>1. IInv /\ Laid(stream) => RegisteredBytesRight
  <2> SUFFICES ASSUME IInv, Laid(stream),
                      NEW i \in DOMAIN stream.files, stream.files[i].intact,
                      registered[stream.files[i].id] = "wrong"
               PROVE  FALSE
    BY DEF RegisteredBytesRight
  <2>1. TypeOK /\ WrongRight
    BY DEF IInv
  <2>2. DOMAIN stream.files = 1..Len(stream.files)
    BY <2>1, ContainerFacts, Types
  <2>3. stream.files[i].id \in Ids
    BY <2>1, <2>2, ContainerFacts, FileFacts, Types
  <2>4. /\ stream.kind = "xci" /\ Len(stream.tables) >= 2
        /\ \E j \in DOMAIN stream.files : stream.files[j].id = stream.files[i].id /\ ~stream.files[j].intact
    BY <2>1, <2>3 DEF WrongRight
  <2>5. PICK j \in DOMAIN stream.files : stream.files[j].id = stream.files[i].id /\ ~stream.files[j].intact
    BY <2>4
  <2>6. stream.files[i].intact = stream.files[j].intact
    BY <2>1, <2>2, <2>4, <2>5, LaidFacts
  <2>7. QED
    BY <2>5, <2>6
<1>2. QED
  BY <1>1, InstallInvariant, PTL
=============================================================================

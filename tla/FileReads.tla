------------------------------ MODULE FileReads ------------------------------
(***************************************************************************)
(* What features/files reads: downloads, ranges, listings, texts and       *)
(* hashes.  The card has the directories DirPaths and one file, FilePath.  *)
(* A path is a sequence of characters, a file one of bytes, a directory    *)
(* one of the lengths of its entries' texts; SHA-256 tells any two         *)
(* contents apart.  A fault fails the call it names; no other program      *)
(* changes the file while it is read (Files and FileWait are about that).  *)
(***************************************************************************)
EXTENDS Integers, Sequences, FiniteSets, SequencesExt, FiniteSetsExt

CONSTANTS
    DirPaths, FilePath,
    AskedPaths,           \* paths clients ask for, strings of "/", "." and "a"
    PathMax,              \* the longest path that fits
    Contents, Ranges,     \* of the file; offsets and lengths asked for
    Listings,             \* of the directory
    NameMax, ListMax,     \* the escape buffer and the request memory left
    IoBuf, ReadMax        \* stand for FILES_IO_BUF_SIZE and READ_FILE_MAX

ASSUME FileReadsAssumption ==
    /\ DirPaths \cup AskedPaths \cup {FilePath} \subseteq Seq(STRING)
    /\ Contents \subseteq Seq(0..255) /\ Ranges \subseteq Int \X Int /\ Listings \subseteq Seq(Nat)
    /\ {PathMax, NameMax, ListMax, ReadMax} \subseteq Nat /\ IoBuf \in Nat \ {0}

VARIABLE shown            \* the last request and its answer

NotShown == [of |-> "none"]
Refused(status) == [is |-> "refusal", code |-> status]
Faults == {"none", "memory", "open", "seek", "read"}

(* ---- paths ---- *)

(* A ".." with a separator or an end on both sides is refused.  strstr     *)
(* goes on after each one it finds: scan is where, 0 once one is refused.  *)
files_resolve(path) ==
    LET IsDots(i) == i < Len(path) /\ path[i] = "." /\ path[i + 1] = "."
        Segment(i) == (i = 1 \/ path[i - 1] = "/") /\ (i + 2 > Len(path) \/ path[i + 2] = "/")
        scan[i \in 0..Len(path)] ==
            IF i = 0 THEN 1
            ELSE IF scan[i - 1] \in 1..i /\ IsDots(i) THEN IF Segment(i) THEN 0 ELSE i + 2
            ELSE scan[i - 1]
    IN  path # <<>> /\ path[1] = "/" /\ scan[Len(path)] # 0 /\ Len(path) <= PathMax

files_trim_slash(path) ==
    IF Len(path) > 1 /\ Last(path) = "/" THEN Front(path) ELSE path

(* ---- downloads ---- *)

(* Bug: a length past the end of the file is taken as it is.               *)
files_clamp_range_trusting(size, offset, length) ==
    LET from == IF offset < 0 THEN Max({0, size + offset}) ELSE Min({offset, size})
    IN  [offset |-> from, length |-> IF length < 0 THEN size - from ELSE length]

files_clamp_range(size, offset, length) ==
    LET from == IF offset < 0 THEN Max({0, size + offset}) ELSE Min({offset, size})
        avail == size - from
    IN  [offset |-> from, length |-> IF length < 0 \/ length > avail THEN avail ELSE length]

(* fread and write, a buffer at a time, to the length, the file's end or a *)
(* read that fails; copy[k] is what the first k buffers held.              *)
Copied(content, from, length, fault) ==
    LET copy[k \in 0..length] ==
          IF k = 0 \/ fault = "read" THEN <<>>
          ELSE LET done == Len(copy[k - 1])
                   n == Min({length - done, IoBuf, Len(content) - from - done})
               IN  copy[k - 1] \o SubSeq(content, from + done + 1, from + done + n)
    IN  copy[length]

send_file(content, offset, length, fault) ==
    LET r == files_clamp_range(Len(content), offset, length)
    IN  IF fault = "memory" THEN Refused(500)
        ELSE IF fault = "open" THEN Refused(404)
        ELSE IF fault = "seek" /\ r.offset > 0 THEN Refused(500)
        ELSE [is |-> "file", code |-> 200, length |-> r.length,
              body |-> Copied(content, r.offset, r.length, fault)]

(* ---- listings ---- *)

(* A name that does not fit the escape buffer is passed over; text that    *)
(* does not fit the memory fails the listing, its head and end included.   *)
files_build_listing(names) ==
    LET appendf(l, n) == IF l.ok /\ l.len + n < ListMax THEN [l EXCEPT !.len = @ + n]
                         ELSE [l EXCEPT !.ok = FALSE]
        entry(l, n) == IF ~l.ok \/ n + 1 > NameMax THEN l
                       ELSE [appendf(l, n) EXCEPT !.names = Append(@, n)]
        head == appendf([ok |-> TRUE, len |-> 0, names |-> <<>>], 1)
        built[i \in 0..Len(names)] == IF i = 0 THEN head ELSE entry(built[i - 1], names[i])
        all == appendf(built[Len(names)], 1)
    IN  IF all.ok THEN [is |-> "listing", code |-> 200, listed |-> all.names] ELSE Refused(500)

get_files(path, content, names, span, fault) ==
    LET trimmed == files_trim_slash(path)
    IN  IF ~files_resolve(path) THEN Refused(400)
        ELSE IF trimmed \in DirPaths
          THEN IF fault = "open" THEN Refused(500) ELSE files_build_listing(names)
        ELSE IF trimmed # FilePath THEN Refused(404)
        ELSE IF trimmed # path THEN Refused(400)
        ELSE send_file(content, span[1], span[2], fault)

tool_list_directory(path, names, fault) ==
    IF files_resolve(path) /\ files_trim_slash(path) \in DirPaths /\ fault # "open"
    THEN files_build_listing(names) ELSE Refused(404)

(* ---- texts ---- *)

Continues(b) == b \in 128..191
Extra(b) == CASE b \in 192..223 -> 1 [] b \in 224..239 -> 2 [] b \in 240..247 -> 3 [] OTHER -> 0

(* clean[i] is the text once byte i was passed: it is as long as what was  *)
(* looked at.                                                              *)
sanitize_utf8(buf) ==
    LET Whole(i) == /\ Extra(buf[i]) > 0 /\ i + Extra(buf[i]) <= Len(buf)
                    /\ \A k \in 1..Extra(buf[i]) : Continues(buf[i + k])
        clean[i \in 0..Len(buf)] ==
            IF i = 0 THEN <<>>
            ELSE IF Len(clean[i - 1]) >= i THEN clean[i - 1]
            ELSE clean[i - 1] \o (IF buf[i] < 128 THEN <<buf[i]>>
                                  ELSE IF Whole(i) THEN SubSeq(buf, i, i + Extra(buf[i]))
                                  ELSE <<63>>)
    IN  clean[Len(buf)]

(* A seek that fails is not looked at: the file is then read from its      *)
(* start.  A read that fails gives an empty text.                          *)
tool_read_file(path, content, span, fault) ==
    IF ~files_resolve(path) \/ path # FilePath \/ fault \in {"memory", "open"} THEN Refused(404)
    ELSE LET r == files_clamp_range(Len(content), span[1], span[2])
             from == IF fault = "seek" THEN 0 ELSE r.offset
             n == IF fault = "read" THEN 0 ELSE Min({r.length, ReadMax})
         IN  [is |-> "text", code |-> 200, body |-> sanitize_utf8(SubSeq(content, from + 1, from + n))]

(* ---- hashes ---- *)

files_hash_sha256(path, content, fault) ==
    IF path \in DirPaths THEN Refused(400)
    ELSE IF path # FilePath THEN Refused(404)
    ELSE IF fault \in {"open", "read"} THEN Refused(500)
    ELSE LET all == Copied(content, 0, Len(content), fault)
         IN  [is |-> "hash", code |-> 200, hash |-> all, size |-> Len(all)]
get_hash(path, content, fault) ==
    IF ~files_resolve(path) THEN Refused(400)
    ELSE IF fault = "memory" THEN Refused(500)
    ELSE files_hash_sha256(path, content, fault)
tool_hash_file(path, content, expected, fault) ==
    LET h == get_hash(path, content, fault)
    IN  IF h.code # 200 THEN h
        ELSE [is |-> "match", code |-> 200, hash |-> h.hash, expected |-> expected,
              matched |-> expected = h.hash]

(* ---- requests ---- *)

ReadsInit == shown = NotShown
AskFor(path, content, names, span) ==
    \E fault \in Faults :
      LET Answer(ans) ==
              shown' = [of |-> "read", ans |-> ans,
                        req |-> [path |-> path, content |-> content, names |-> names,
                                 span |-> span, fault |-> fault]]
      IN  \/ Answer(get_files(path, content, names, span, fault))
          \/ Answer(tool_list_directory(path, names, fault))
          \/ Answer(tool_read_file(path, content, span, fault))
          \/ Answer(get_hash(path, content, fault))
          \/ \E expected \in {<<>>, content} :
                Answer(tool_hash_file(path, content, expected, fault))

ReadsNext ==
    \/ \E path \in AskedPaths : AskFor(path, <<>>, <<>>, <<0, -1>>)
    \/ \E content \in Contents, span \in Ranges : AskFor(FilePath, content, <<>>, span)
    \/ \E dir \in DirPaths, names \in Listings : AskFor(dir, <<>>, names, <<0, -1>>)

(* ---- reference ---- *)

Climbs(path) ==
    \E i \in DOMAIN path, j \in 1..(Len(path) + 1) :
        /\ i + 3 = j /\ SubSeq(path, i, j - 1) = <<"/", ".", ".">>
        /\ j = Len(path) + 1 \/ path[j] = "/"

(* The bytes at the positions asked for: from the end when negative, none  *)
(* past it.                                                                *)
Slice(content, span) ==
    LET first == IF span[1] >= 0 THEN span[1] ELSE Max({0, Len(content) + span[1]})
        asked(i) == i > first /\ (span[2] < 0 \/ i <= first + span[2])
        at == {i \in DOMAIN content : asked(i)}
    IN  IF at = {} THEN <<>> ELSE SubSeq(content, Min(at), Max(at))

(* A byte that stands alone or in a sequence that is all there.            *)
Sound(bytes, i) ==
    \/ bytes[i] < 128
    \/ \E s \in 1..i : LET e == Extra(bytes[s]) IN
          /\ e > 0 /\ i <= s + e /\ s + e <= Len(bytes)
          /\ \A k \in (s + 1)..(s + e) : Continues(bytes[k])

(* While the card reads what it is asked to: a download is the range that  *)
(* was asked for and as long as its header says, over any number of        *)
(* buffers (files_http.c:76-87); a listing has every name that can be      *)
(* written or fails (files.c:73); a text keeps the sound characters and a  *)
(* '?' for every other byte (files_mcp.c:53-74); a hash is of the whole    *)
(* file, whatever fails; and no path climbs.                               *)
AsStored(req, ans) ==
    LET part == Slice(req.content, req.span)
        fits == {i \in DOMAIN req.names : req.names[i] < NameMax}
        bytes == SubSeq(part, 1, Min({Len(part), ReadMax}))
        steady == req.fault \notin {"seek", "read"}
    IN  /\ Climbs(req.path) => ans.code \in {400, 404}
        /\ ans.is = "file" => ans.length = Len(part) /\ (steady => ans.body = part)
        /\ ans.is = "listing" =>
             /\ Len(ans.listed) = Cardinality(fits)
             /\ \A i \in fits : ans.listed[Cardinality({j \in fits : j <= i})] = req.names[i]
        /\ ans.is \in {"hash", "match"} => ans.hash = req.content
        /\ ans.is = "match" => (ans.matched <=> ans.expected = req.content)
        /\ ans.is = "text" /\ steady =>
             /\ Len(ans.body) = Len(bytes)
             /\ \A i \in DOMAIN bytes : ans.body[i] = IF Sound(bytes, i) THEN bytes[i] ELSE 63

(* Every read is answered with what the card holds.                        *)
ReadsAsStored == shown # NotShown => AsStored(shown.req, shown.ans)
=============================================================================

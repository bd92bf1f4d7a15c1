------------------------------ MODULE McpServer ------------------------------
(***************************************************************************)
(* features/mcp/mcp_server.c: POST /mcp.  A JSON-RPC body is scanned in    *)
(* chunks, the content of an upload goes through the decoder to a temp     *)
(* file on the way, and the call is dispatched to a tool: upload_file,     *)
(* the two waits, or one that does not concern this model.  The client     *)
(* writes well-formed JSON, of which it may send only a part.              *)
(***************************************************************************)
EXTENDS Base64, Jstream, FileWait, ScreenWait

CONSTANTS
    MemberNames,  \* the member names the client writes
    MaxContent,   \* bound: characters of a diverted string
    MaxString,    \* bound: characters of another string
    NoTmp,        \* no file at MCP_UPLOAD_TMP
    Stale         \* one that an earlier request left there

ASSUME McpServerAssumption == MemberNames \subseteq Seq(NameChars)

VARIABLES
    at,        \* where handle_post stands
    client,    \* external: how far the client's JSON has come
    js,        \* the scanner
    run,       \* the clean run of the current chunk, not yet given to the sink
    upload,    \* g_upload: opened file, decoder, bytes, failed
    tmp,       \* external: the temp file
    dest,      \* external: the file upload_file writes
    content,   \* history: the content a JSON reader would see
    faulty,    \* history: the calls of the file system that failed, and power
    reply      \* the answer to the request

scanVars == <<client, js, run, content>>
waitVars == <<fileWaitVars, screenWaitVars>>
vars == <<at, scanVars, upload, tmp, dest, faulty, reply, waitVars>>

(* ---- the client: what it may write next ---- *)

NewBody == [stack |-> <<>>, at |-> "value", n |-> 0]
ContentPath == [i \in 1..3 |-> [obj |-> TRUE, key |-> kTarget[i]]]
InContent == client.at \in {"string", "escape"} /\ client.stack = ContentPath

Wrote(w) == [w EXCEPT !.at = IF w.stack = <<>> THEN "done" ELSE "after", !.n = 0]
Push(w, obj) ==
    [w EXCEPT !.stack = Append(@, [obj |-> obj, key |-> <<>>]),
              !.at = IF obj THEN "first_key" ELSE "first_value"]
Close(w) ==
    <<IF Last(w.stack).obj THEN "}" ELSE "]", Wrote([w EXCEPT !.stack = Front(@)])>>
InKey(w, letter) == [w EXCEPT !.stack[Len(w.stack)].key = Append(@, letter), !.at = "key"]

(* The letters a name may go on with; these two are written as escapes, \n *)
(* and \uXXXX, which can spell any letter, one of the target's too.        *)
EscapedLetters == {"newline", "unicode"}
Escapes == {"slash", "n", "quote", "u"}
Following(key) ==
    {m[Len(key) + 1] : m \in {m \in MemberNames : Len(key) < Len(m)
                                                  /\ SubSeq(m, 1, Len(key)) = key}}
Escape(letter) == IF letter = "newline" THEN "n" ELSE "u"

Values(w) ==
    {<<"{", Push(w, TRUE)>>, <<"[", Push(w, FALSE)>>, <<"1", Wrote(w)>>,
     <<"quote", [w EXCEPT !.at = "string"]>>}
StartKey(w) ==
    <<"quote", [w EXCEPT !.stack[Len(w.stack)].key = <<>>, !.at = "key"]>>

Writes(w) ==
    CASE w.at = "value" -> Values(w)
      [] w.at = "first_value" -> Values(w) \cup {Close(w)}
      [] w.at = "first_key" -> {StartKey(w), Close(w)}
      [] w.at = "next_key" -> {StartKey(w)}
      [] w.at = "key" ->
           LET key == Last(w.stack).key
               more == Following(key)
           IN  {<<l, InKey(w, l)>> : l \in more \ EscapedLetters}
               \cup (IF more \cap EscapedLetters = {} THEN {}
                     ELSE {<<"backslash", [w EXCEPT !.at = "key_escape"]>>})
               \cup (IF key \in MemberNames THEN {<<"quote", [w EXCEPT !.at = "colon"]>>} ELSE {})
      [] w.at = "key_escape" ->
           {<<Escape(l), InKey(w, l)>> : l \in Following(Last(w.stack).key) \cap EscapedLetters}
      [] w.at = "colon" -> {<<":", [w EXCEPT !.at = "value"]>>}
      [] w.at = "string" ->
           LET more == [w EXCEPT !.n = @ + 1]
               inContent == w.stack = ContentPath
           IN  {<<"quote", Wrote(w)>>}
               \cup (IF w.n >= (IF inContent THEN MaxContent ELSE MaxString) THEN {}
                     ELSE {<<c, more>> : c \in (IF inContent THEN Text \ {"newline"} ELSE {"c"})}
                          \cup {<<"backslash", [more EXCEPT !.at = "escape"]>>})
      [] w.at = "escape" -> {<<c, [w EXCEPT !.at = "string"]>> : c \in Escapes}
      [] w.at = "after" ->
           {Close(w), <<",", [w EXCEPT !.at = IF Last(w.stack).obj THEN "next_key" ELSE "value"]>>}
      [] OTHER -> {}

(* What a JSON reader makes of c in the content: \uXXXX may be anything.   *)
Read(c) ==
    IF client.at = "string" THEN IF c \in {"quote", "backslash"} THEN {<<>>} ELSE {<<c>>}
    ELSE CASE c = "slash" -> {<<"slash">>}
           [] c = "n" -> {<<"newline">>}
           [] c = "u" -> {<<x>> : x \in Text}
           [] OTHER -> {<<"other">>}

(* ---- the upload sink ---- *)

NoUpload == [f |-> FALSE, dec |-> b64dec_init, bytes |-> 0, failed |-> FALSE]

(* upload_sink: no memory or no file, undecodable text, a write that fails *)
(* or succeeds.  io says that it was not the text's fault.                 *)
upload_sink(u, file, data) ==
    LET d == b64dec_update(u.dec, data)
        opened == IF u.f THEN file ELSE <<>>
        bad == [u EXCEPT !.failed = TRUE]
    IN  IF u.failed \/ data = <<>> THEN {[u |-> u, tmp |-> file, io |-> FALSE]}
        ELSE (IF u.f THEN {} ELSE {[u |-> bad, tmp |-> file, io |-> TRUE]})
             \cup (IF d.err THEN {[u |-> [bad EXCEPT !.f = TRUE], tmp |-> opened, io |-> FALSE]}
                   ELSE {[u |-> [bad EXCEPT !.f = TRUE], tmp |-> opened, io |-> TRUE],
                         [u |-> [u EXCEPT !.f = TRUE, !.dec = [d EXCEPT !.out = <<>>],
                                          !.bytes = @ + Len(d.out)],
                          tmp |-> opened \o d.out, io |-> FALSE]})

Sink(data) ==
    \E r \in upload_sink(upload, tmp, data) :
        /\ upload' = r.u /\ tmp' = r.tmp
        /\ faulty' = IF r.io THEN faulty \cup {"sink"} ELSE faulty

(* ---- handle_post ---- *)

Init ==
    /\ at = "idle"
    /\ client = NewBody /\ js = jstream_init /\ run = <<>> /\ content = <<>>
    /\ upload = NoUpload /\ tmp = NoTmp /\ dest = "old" /\ faulty = {} /\ reply = "none"
    /\ FileWaitInit /\ ScreenWaitInit

(* No Content-Length, or the memory for the body is not there.             *)
PostRefused ==
    /\ at = "idle" /\ reply = "none"
    /\ reply' = "error"
    /\ UNCHANGED <<at, scanVars, upload, tmp, dest, faulty, waitVars>>

PostBegin ==
    /\ at = "idle" /\ reply = "none"
    /\ at' = "reading"
    /\ upload' = NoUpload
    /\ UNCHANGED <<scanVars, tmp, dest, faulty, reply, waitVars>>

Feed ==
    /\ at = "reading" /\ js.err = "none"
    /\ \E step \in Writes(client) :
        LET c == step[1] IN
        /\ client' = step[2]
        /\ js' = jstream_feed(js, c)
        /\ \E seen \in (IF InContent THEN Read(c) ELSE {<<>>}) : content' = content \o seen
        /\ IF InRun(js, c)
             THEN run' = Append(run, c) /\ UNCHANGED <<upload, tmp, faulty>>
             ELSE run' = <<>> /\ Sink(run \o Unescaped(js, c))
    /\ UNCHANGED <<at, dest, reply, waitVars>>

(* The chunk that http_read_body returned ends inside a run.               *)
ChunkEnds ==
    /\ at = "reading" /\ run # <<>>
    /\ run' = <<>> /\ Sink(run)
    /\ UNCHANGED <<at, client, js, content, dest, reply, waitVars>>

(* Bug: only a file that is still open is removed.                         *)
upload_cleanup_if_open(failed) ==
    /\ tmp' = IF upload.f THEN NoTmp ELSE tmp
    /\ faulty' = faulty \cup failed
    /\ upload' = NoUpload

(* failed: the calls that failed before it.  A remove that fails is not    *)
(* noticed.                                                                *)
upload_cleanup(failed) ==
    /\ LET owed == upload.f \/ upload.bytes > 0 \/ upload.failed IN
       \/ tmp' = (IF owed THEN NoTmp ELSE tmp) /\ faulty' = faulty \cup failed
       \/ /\ owed /\ tmp # NoTmp
          /\ tmp' = tmp /\ faulty' = faulty \cup failed \cup {"remove"}
    /\ upload' = NoUpload

(* The answer is sent and the body's state is dead.                        *)
Answer(r) ==
    /\ reply' = r
    /\ at' = "idle"
    /\ client' = NewBody /\ js' = jstream_init /\ run' = <<>>

(* The read fails, the scanner or jstream_finish reports an error.         *)
PostFails ==
    /\ at = "reading" /\ run = <<>>
    /\ upload_cleanup({})
    /\ Answer(IF js.err = "ECONTENT" THEN "bad escape" ELSE "error")
    /\ UNCHANGED <<content, dest, waitVars>>

(* The body ends, its document parses and is an object.                    *)
PostParsed ==
    /\ at = "reading" /\ run = <<>>
    /\ jstream_finish(js) = "none" /\ client.at = "done"
    /\ at' = "dispatch"
    /\ UNCHANGED <<scanVars, upload, tmp, dest, faulty, reply, waitVars>>

(* A missing method, a notification, initialize, ping, tools/list, an      *)
(* unknown method or tool, missing params, a tool outside this model.      *)
Dispatch ==
    /\ at = "dispatch"
    /\ \E r \in {"ok", "error", "accepted"} : Answer(r)
    /\ upload_cleanup({})
    /\ UNCHANGED <<content, dest, waitVars>>

(* tool_upload_file up to mcp_call_streamed_content, which closes the file *)
(* without a look at the result: bytes still buffered may never arrive.    *)
ToolUpload ==
    /\ at = "dispatch"
    /\ IF js.content_found /\ ~upload.failed /\ upload.f /\ b64dec_finish(upload.dec)
         THEN /\ at' = "remove"
              /\ upload' = [upload EXCEPT !.f = FALSE]
              /\ \E n \in 0..Len(tmp) :
                    /\ tmp' = SubSeq(tmp, 1, n)
                    /\ faulty' = IF n = Len(tmp) THEN faulty ELSE faulty \cup {"close"}
              /\ UNCHANGED <<client, js, run, reply>>
         ELSE upload_cleanup({}) /\ Answer(IF js.content_found THEN "bad content" ELSE "error")
    /\ UNCHANGED <<content, dest, waitVars>>

UploadRemove ==
    /\ at = "remove"
    /\ dest' = "none"
    /\ at' = "rename"
    /\ UNCHANGED <<scanVars, upload, tmp, faulty, reply, waitVars>>

(* After the rename upload_cleanup finds nothing at the temp path.         *)
UploadRename ==
    /\ at = "rename"
    /\ dest' = tmp
    /\ tmp' = NoTmp /\ upload' = NoUpload
    /\ Answer("wrote")
    /\ UNCHANGED <<content, faulty, waitVars>>

UploadRenameFails ==
    /\ at = "rename"
    /\ upload_cleanup({"rename"})
    /\ Answer("error")
    /\ UNCHANGED <<content, dest, waitVars>>

(* The waits, called without content.                                      *)
ToolWait ==
    /\ at = "dispatch" /\ ~js.content_found
    /\ at' = "waiting"
    /\ client' = NewBody /\ js' = jstream_init
    /\ \/ /\ \E contains, new_only \in BOOLEAN : WaitBegin(contains, new_only)
          /\ UNCHANGED screenWaitVars
       \/ /\ \E mode \in {"change", "stable"} : ScreenWaitBegin(mode)
          /\ UNCHANGED fileWaitVars
    /\ UNCHANGED <<run, content, upload, tmp, dest, faulty, reply>>

Waiting ==
    /\ at = "waiting"
    /\ \/ (FileWaiting \/ LogAppend \/ LogReplace) /\ UNCHANGED screenWaitVars
       \/ screen_wait /\ UNCHANGED fileWaitVars
    /\ UNCHANGED <<at, scanVars, upload, tmp, dest, faulty, reply>>

WaitAnswered ==
    /\ at = "waiting"
    /\ fw.at = "answered" \/ sw.at \in {"answered", "refused"}
    /\ upload_cleanup({})
    /\ Answer("ok")
    /\ log' = NoLog /\ fw' = NoWait /\ stale' = FALSE
    /\ sw' = NoScreenWait /\ frames' = <<>>
    /\ UNCHANGED <<content, dest>>

(* The next request; the history of the last one is forgotten.             *)
NextPost ==
    /\ at = "idle" /\ reply # "none"
    /\ reply' = "none" /\ content' = <<>> /\ faulty' = {} /\ dest' = "old"
    /\ tmp' = IF tmp = NoTmp THEN NoTmp ELSE Stale
    /\ UNCHANGED <<at, client, js, run, upload, waitVars>>

(* Power is lost while a body is received: the temp file stays.            *)
PowerLost ==
    /\ at \in {"reading", "remove", "rename"}
    /\ upload' = NoUpload /\ faulty' = faulty \cup {"power"}
    /\ Answer("lost")
    /\ UNCHANGED <<content, tmp, dest, waitVars>>

Next ==
    \/ PostRefused \/ PostBegin \/ Feed \/ ChunkEnds \/ PostFails \/ PostParsed
    \/ Dispatch \/ ToolUpload \/ UploadRemove \/ UploadRename \/ UploadRenameFails
    \/ ToolWait \/ Waiting \/ WaitAnswered \/ NextPost \/ PowerLost

Spec == Init /\ [][Next]_vars

(* ---- what the property of the scanner rests on ---- *)

Bodies ==
    [stack : Seq([obj : BOOLEAN, key : Seq(NameChars)]), n : Nat,
     at : {"value", "first_value", "first_key", "next_key", "key", "key_escape", "colon",
           "string", "escape", "after", "done"}]

(* The outermost i containers of a stack lead down to the target.          *)
OnPath(stack, i) ==
    /\ i \in 1..3
    /\ \A j \in 1..i : stack[j].obj
    /\ \A j \in 1..(i - 1) : stack[j].key = kTarget[j]
AtTarget(stack, i) == OnPath(stack, i) /\ stack[i].key = kTarget[i]

(* Where a JSON writer may stand with which containers open.               *)
WellFormed(w) ==
    LET d == Len(w.stack) IN
    /\ w.at \in {"first_key", "next_key", "key", "key_escape", "colon"} => d > 0 /\ w.stack[d].obj
    /\ w.at \in {"first_value", "after"} => d > 0
    /\ w.at = "first_value" => ~w.stack[d].obj

(* The scanner knows of a writer's body what it needs.                     *)
Tracks(s, w) ==
    LET d == Len(w.stack)
        naming == w.at \in {"key", "key_escape"}
    IN  /\ Len(s.levels) = d
        /\ \A i \in 1..d : /\ s.levels[i].is_obj <=> w.stack[i].obj
                           /\ s.levels[i].on_path <=> OnPath(w.stack, i)
        /\ s.in_string <=> naming \/ (w.at \in {"string", "escape"} /\ w.stack # ContentPath)
        /\ s.in_string => (s.is_key <=> naming)
        /\ s.esc <=> w.at \in {"key_escape", "escape"}
        /\ s.divert <=> w.at \in {"string", "escape"} /\ w.stack = ContentPath
        /\ naming /\ ~s.key_overflow => s.key = w.stack[d].key
        /\ naming /\ s.key_overflow =>
              w.stack[d].key # <<>> /\ \A i \in 1..3 : w.stack[d].key # kTarget[i]
        /\ s.on_path_next <=> w.at \in {"colon", "value"} /\ d \in 1..2 /\ AtTarget(w.stack, d)
        /\ s.content_next <=> w.at \in {"colon", "value"} /\ d = 3 /\ AtTarget(w.stack, d)
        /\ w.at \in {"first_key", "next_key"} => s.next_is_key
        /\ w.at = "value" /\ d > 0 => ~(w.stack[d].obj /\ s.next_is_key)

ScanRight ==
    /\ js \in Jstreams /\ client \in Bodies
    /\ at \in {"idle", "waiting"} => client = NewBody /\ js = jstream_init
    /\ at = "reading" /\ js.err = "none" => WellFormed(client) /\ Tracks(js, client)

(* jstream.h:8-12: the string at $.params.arguments.content is diverted    *)
(* and nothing else is, whatever surrounds it: arrays, other members of    *)
(* the same name elsewhere, names that are empty, longer or escaped,       *)
(* escaped quotes, nested objects.  The path is meant as it is written: a  *)
(* name spelled with an escape never matches (jstream.c:93).               *)
DivertsExactlyContent ==
    at = "reading" /\ js.err = "none" => (js.divert <=> InContent)

(* upload_file confirms a file that is what the content stands for, or a   *)
(* beginning of it when the close lost the rest (mcp_server.c:119); with   *)
(* no call failing it refuses only text that is not base64 or empty; and a *)
(* refusal costs no file unless the rename failed.  How the body was cut   *)
(* into chunks makes no difference.                                        *)
UploadedAsSent ==
    /\ reply = "wrote" =>
          /\ Valid(content)
          /\ \E n \in 0..Len(Meaning(content)) :
                /\ dest = SubSeq(Meaning(content), 1, n)
                /\ n < Len(Meaning(content)) => "close" \in faulty
    /\ reply = "bad content" /\ faulty = {} => ~Valid(content) \/ content = <<>>
    /\ at = "idle" /\ reply \notin {"wrote", "lost"} /\ "rename" \notin faulty => dest = "old"

(* files_mcp.c:133 "wrote %zu bytes to %s": and it did.                    *)
ConfirmedIsWhole == reply = "wrote" => dest = Meaning(content)

(* jstream.c:57-58 "Any other escape stands for a character base64 never   *)
(* uses": the escape a request is refused for does.                        *)
RefusedEscapeIsForeign == reply = "bad escape" => Last(content) = "other"

(* A temp file outlives its request only when removing it failed, power    *)
(* was lost, or upload_cleanup overlooks it: content of no bytes whose     *)
(* rename failed (mcp_server.c:105).                                       *)
NoTempSurvives ==
    at = "idle" /\ tmp \notin {NoTmp, Stale} =>
        \/ "remove" \in faulty \/ reply = "lost"
        \/ "rename" \in faulty /\ (Meaning(content) = <<>>)

(* mcp_server.c:458 "Whatever happened, no upload temp state may survive   *)
(* the request."                                                           *)
TempNeverSurvives == at = "idle" /\ reply # "lost" => tmp \in {NoTmp, Stale}
=============================================================================

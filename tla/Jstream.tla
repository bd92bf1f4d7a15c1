------------------------------- MODULE Jstream -------------------------------
(***************************************************************************)
(* features/mcp/jstream.c: the scanner that copies a JSON-RPC body into a  *)
(* bounded document and diverts the string at $.params.arguments.content.  *)
(* A member name is a sequence of letters as it is written; the letters    *)
(* "p", "a" and "c" alone stand for the three names of the target path.    *)
(* levels holds is_obj and on_path of the open containers, so depth is its *)
(* length.                                                                 *)
(***************************************************************************)
EXTENDS Integers, Sequences, SequencesExt

CONSTANTS
    DocMax,     \* stands for MCP_DOC_MAX, in characters
    MaxDepth,   \* stands for JSTREAM_MAX_DEPTH
    MaxKey,     \* stands for JSTREAM_MAX_KEY
    NameChars   \* the letters of member names

\* No name of the path is longer than a key may be (jstream.c, kTarget).
ASSUME JstreamAssumption ==
    /\ DocMax \in Nat /\ MaxDepth \in Nat /\ MaxKey \in Nat \ {0}
    /\ {"quote", "backslash"} \cap NameChars = {}

kTarget == <<<<"p">>, <<"a">>, <<"c">>>>

jstream_init ==
    [doc_len |-> 0, levels |-> <<>>, in_string |-> FALSE, is_key |-> FALSE, esc |-> FALSE,
     next_is_key |-> FALSE, on_path_next |-> FALSE, content_next |-> FALSE,
     divert |-> FALSE, content_found |-> FALSE, key |-> <<>>, key_overflow |-> FALSE,
     err |-> "none"]

Failed(js, e) == [js EXCEPT !.err = e]

(* doc_append of one character; the placeholder counts as one.             *)
Copied(js) ==
    IF js.doc_len + 1 > DocMax THEN Failed(js, "EDOC") ELSE [js EXCEPT !.doc_len = @ + 1]

Depth(js) == Len(js.levels)
InObject(js) == Depth(js) >= 1 /\ Last(js.levels).is_obj

(* Bug: a member name is looked at wherever it stands.                     *)
key_complete_any_path(js) ==
    LET d == Depth(js)
        hit == ~js.key_overflow /\ d \in 1..3 /\ js.key = kTarget[d]
    IN  [js EXCEPT !.on_path_next = hit /\ d < 3, !.content_next = hit /\ d = 3]

key_complete(js) ==
    LET d == Depth(js)
        hit == ~js.key_overflow /\ d \in 1..3 /\ js.levels[d].on_path /\ js.key = kTarget[d]
    IN  [js EXCEPT !.on_path_next = hit /\ d < 3, !.content_next = hit /\ d = 3]

(* Inside the diverted string; only the escapes base64 can carry.          *)
Diverted(js, c) ==
    IF js.esc THEN
        IF c \in {"slash", "n", "r"} THEN [js EXCEPT !.esc = FALSE] ELSE Failed(js, "ECONTENT")
    ELSE CASE c = "quote" -> [js EXCEPT !.divert = FALSE]
           [] c = "backslash" -> [js EXCEPT !.esc = TRUE]
           [] OTHER -> js

(* Inside a copied string, which may be a member name.                     *)
InString(j, c) ==
    LET js == Copied(j) IN
    IF js.err # "none" THEN js
    ELSE IF js.esc THEN [js EXCEPT !.esc = FALSE, !.key_overflow = @ \/ js.is_key]
    ELSE CASE c = "backslash" -> [js EXCEPT !.esc = TRUE]
           [] c = "quote" -> LET closed == [js EXCEPT !.in_string = FALSE]
                             IN  IF js.is_key THEN key_complete(closed) ELSE closed
           [] OTHER -> IF ~js.is_key THEN js
                       ELSE IF Len(js.key) < MaxKey THEN [js EXCEPT !.key = Append(@, c)]
                       ELSE [js EXCEPT !.key_overflow = TRUE]

NoMatch(js) == [js EXCEPT !.on_path_next = FALSE, !.content_next = FALSE]

OpenString(js) ==
    LET starting_key == InObject(js) /\ js.next_is_key IN
    IF ~starting_key /\ js.content_next THEN
        IF js.content_found THEN Failed(NoMatch(js), "EDUP")
        ELSE Copied([NoMatch(js) EXCEPT !.content_found = TRUE, !.divert = TRUE])
    ELSE Copied([(IF starting_key THEN js ELSE NoMatch(js)) EXCEPT
                    !.in_string = TRUE, !.is_key = starting_key,
                    !.key = <<>>, !.key_overflow = FALSE])

OpenContainer(js, c) ==
    IF Depth(js) >= MaxDepth THEN Failed(js, "EDEPTH")
    ELSE Copied([NoMatch(js) EXCEPT
                    !.levels = Append(@, [is_obj |-> c = "{",
                                          on_path |-> c = "{" /\ (Depth(js) = 0 \/ js.on_path_next)]),
                    !.next_is_key = (c = "{")])

Structural(js, c) ==
    CASE c = "quote" -> OpenString(js)
      [] c \in {"{", "["} -> OpenContainer(js, c)
      [] c \in {"}", "]"} -> IF Depth(js) = 0 THEN Failed(js, "EDEPTH")
                             ELSE Copied([js EXCEPT !.levels = Front(@)])
      [] c = ":" -> Copied([js EXCEPT !.next_is_key = FALSE])
      [] c = "," -> Copied([js EXCEPT !.next_is_key = InObject(js)])
      [] c = "space" -> Copied(js)
      [] OTHER -> Copied(NoMatch(js))

(* jstream_feed, one character.                                            *)
jstream_feed(js, c) ==
    IF js.err # "none" THEN js
    ELSE IF js.divert THEN Diverted(js, c)
    ELSE IF js.in_string THEN InString(js, c)
    ELSE Structural(js, c)

(* What that character makes the sink receive, besides the clean run that  *)
(* is handed over when it ends.                                            *)
InRun(js, c) == js.err = "none" /\ js.divert /\ ~js.esc /\ c \notin {"quote", "backslash"}
Unescaped(js, c) ==
    IF js.err = "none" /\ js.divert /\ js.esc /\ c \in {"slash", "n", "r"}
      THEN <<IF c = "slash" THEN "slash" ELSE "newline">> ELSE <<>>

jstream_finish(js) ==
    IF js.err # "none" THEN js.err
    ELSE IF js.in_string \/ js.divert \/ Depth(js) # 0 THEN "EPARTIAL" ELSE "none"

Jstreams ==
    [doc_len : Nat, levels : Seq([is_obj : BOOLEAN, on_path : BOOLEAN]), in_string : BOOLEAN,
     is_key : BOOLEAN, esc : BOOLEAN, next_is_key : BOOLEAN, on_path_next : BOOLEAN,
     content_next : BOOLEAN, divert : BOOLEAN, content_found : BOOLEAN, key : Seq(NameChars),
     key_overflow : BOOLEAN, err : {"none", "EDOC", "EDEPTH", "EDUP", "ECONTENT"}]
=============================================================================

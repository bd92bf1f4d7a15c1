-------------------------------- MODULE Json --------------------------------
(***************************************************************************)
(* util/json.c: finding a value among the tokens of a document, reading    *)
(* and writing strings and numbers.  A text is a sequence of character     *)
(* codes.  The tokenizer is external: a document is an object whose items  *)
(* are keys and values in turn, and its tokens lie in it where jsmn puts   *)
(* them.                                                                   *)
(***************************************************************************)
EXTENDS Integers, Sequences, SequencesExt, FiniteSetsExt

CONSTANTS
    Strings,     \* what the server writes
    Texts,       \* what clients write between two quotes
    Documents,   \* bodies clients send
    JsonKeys,    \* keys that are looked up
    OutSizes,    \* buffer sizes
    Numbers,     \* texts read as numbers
    Fractions    \* <<m, b, d>>: the double m / 2^b, written with d decimals

VARIABLE jsonUse \* the last use

NoUse == [of |-> "none"]

(* ---- tokens ---- *)

(* A token keeps where it comes from, for the reference alone.             *)
Token(v, start, path) ==
    [type |-> v.k, text |-> IF v.k \in {"string", "primitive"} THEN v.text ELSE <<>>,
     start |-> start, path |-> path,
     end |-> IF v.k \in {"string", "primitive"} THEN start + Len(v.text) ELSE 0,
     size |-> CASE v.k = "object" -> Len(v.items) \div 2
                [] v.k = "array" -> Len(v.items)
                [] OTHER -> 0]

(* Each value is followed by one character: a colon, a comma or the end of *)
(* what it is in.                                                          *)
Lay(st, v, path) ==
    LET quote == IF v.k = "string" THEN 1 ELSE 0
    IN  [pos |-> st.pos + Len(v.text) + 2 * quote + 1,
         toks |-> Append(st.toks, Token(v, st.pos + quote, path))]
LayItems(v, pos, path) ==
    FoldLeft(LAMBDA st, i : Lay(st, v.items[i], Append(path, i)),
             [pos |-> pos, toks |-> <<>>], [i \in DOMAIN v.items |-> i])
LayValue(st, v, path) ==
    IF v.k \in {"string", "primitive"} THEN Lay(st, v, path)
    ELSE LET inner == LayItems(v, st.pos + 1, path)
             end == IF v.items = <<>> THEN st.pos + 2 ELSE inner.pos
         IN  [pos |-> end + 1,
              toks |-> Append(st.toks, [Token(v, st.pos, path) EXCEPT !.end = end]) \o inner.toks]
Tokens(doc) ==
    LET inner == FoldLeft(LAMBDA st, i : LayValue(st, doc.items[i], <<i>>),
                          [pos |-> 1, toks |-> <<>>], [i \in DOMAIN doc.items |-> i])
    IN  <<[Token(doc, 0, <<>>) EXCEPT !.end = inner.pos]>> \o inner.toks

(* ---- looking up; 0 stands for -1 ---- *)

(* Bug: the token after a value is the next key, whatever the value holds. *)
json_skip_one(toks, t) == t + 1

json_skip(toks, t) ==
    Min({Len(toks) + 1} \cup {i \in (t + 1)..Len(toks) : toks[i].start >= toks[t].end})

json_obj_get(toks, obj, key) ==
    LET find[n \in Nat, i \in Nat] ==
          IF n >= toks[obj].size \/ i + 1 > Len(toks) THEN 0
          ELSE IF toks[i].type = "string" /\ toks[i].text = key THEN i + 1
          ELSE find[n + 1, json_skip(toks, i + 1)]
    IN  IF obj \in DOMAIN toks /\ toks[obj].type = "object" THEN find[0, obj + 1] ELSE 0

json_arr_len(toks, arr) ==
    IF arr \in DOMAIN toks /\ toks[arr].type = "array" THEN toks[arr].size ELSE -1

json_arr_get(toks, arr, idx) ==
    IF json_arr_len(toks, arr) <= idx \/ idx < 0 THEN 0
    ELSE FoldLeft(LAMBDA i, n : json_skip(toks, i), arr + 1, [n \in 1..idx |-> n])

(* ---- strings ---- *)

Escapes == 34 :> 34 @@ 92 :> 92 @@ 10 :> 110 @@ 9 :> 116 @@ 13 :> 114 @@ 8 :> 98 @@ 12 :> 102
Unescapes == [c \in {Escapes[e] : e \in DOMAIN Escapes} |->
                CHOOSE e \in DOMAIN Escapes : Escapes[e] = c] @@ 47 :> 47
HexDigit(d) == IF d < 10 THEN 48 + d ELSE 87 + d
HexValue == [d \in {HexDigit(n) : n \in 0..15} |-> CHOOSE n \in 0..15 : HexDigit(n) = d]

escape_char(c) ==
    IF c \in DOMAIN Escapes THEN <<92, Escapes[c]>>
    ELSE IF c < 32 THEN <<92, 117, 48, 48, HexDigit(c \div 16), HexDigit(c % 16)>>
    ELSE <<c>>

Failed == [ok |-> FALSE, out |-> <<>>]
Done(out) == [ok |-> TRUE, out |-> out]

json_escaped_len(s) == FoldLeft(LAMBDA n, c : n + Len(escape_char(c)), 0, s)
json_escape(s, outsz) ==
    FoldLeft(LAMBDA r, c : IF r.ok /\ Len(r.out \o escape_char(c)) + 1 <= outsz
                             THEN Done(r.out \o escape_char(c)) ELSE Failed,
             Done(<<>>), s)

(* strtoul: the hexadecimal digits before anything else.  It also takes a  *)
(* sign, spaces and 0x before them, which the texts here do not hold.      *)
Code(digits) ==
    LET n == Max({i \in 0..4 : \A j \in 1..i : digits[j] \in DOMAIN HexValue})
    IN  FoldLeft(LAMBDA v, d : 16 * v + HexValue[d], 0, SubSeq(digits, 1, n))

Utf8(cp) ==
    IF cp < 128 THEN <<cp>>
    ELSE IF cp < 2048 THEN <<192 + cp \div 64, 128 + (cp % 64)>>
    ELSE IF cp \in 55296..57343 THEN <<63>>
    ELSE <<224 + cp \div 4096, 128 + ((cp \div 64) % 64), 128 + (cp % 64)>>

json_get_string(text, outsz) ==
    LET get[i \in Nat, out \in Seq(Nat)] ==
          IF i > Len(text) THEN Done(out)
          ELSE IF Len(out) + 4 >= outsz THEN Failed
          ELSE IF text[i] # 92 THEN get[i + 1, Append(out, text[i])]
          ELSE IF i = Len(text) THEN Failed
          ELSE IF text[i + 1] \in DOMAIN Unescapes
            THEN get[i + 2, Append(out, Unescapes[text[i + 1]])]
          ELSE IF text[i + 1] = 117 /\ i + 5 <= Len(text)
            THEN get[i + 6, out \o Utf8(Code(SubSeq(text, i + 2, i + 5)))]
          ELSE Failed
    IN  get[1, <<>>]

(* ---- numbers ---- *)

IsAt(s, i, chars) == i <= Len(s) /\ s[i] \in chars
Run(s, i, chars) ==     \* how many of them stand from i on
    Max({n \in 0..Len(s) : i + n <= Len(s) + 1 /\ \A k \in i..(i + n - 1) : s[k] \in chars})
Value(digits) == FoldLeft(LAMBDA v, d : 10 * v + (d - 48), 0, digits)

json_raw(text, outsz) == Len(text) + 1 <= outsz

(* strtoll; end is the last character used, 0 for no number.               *)
json_get_int(text, outsz) ==
    LET signed == IsAt(text, 1, {43, 45})
        i == IF signed THEN 2 ELSE 1
        n == Run(text, i, 48..57)
        v == Value(SubSeq(text, i, i + n - 1))
    IN  IF ~json_raw(text, outsz) \/ n = 0 THEN [end |-> 0, v |-> 0]
        ELSE [end |-> i + n - 1, v |-> IF signed /\ text[1] = 45 THEN -v ELSE v]

(* mant * 10^exp: one integer of all the digits, scaled once.              *)
json_parse_double(s) ==
    LET first == 1 + Run(s, 1, {9, 32})
        i == IF IsAt(s, first, {43, 45}) THEN first + 1 ELSE first
        whole == Run(s, i, 48..57)
        dot == IsAt(s, i + whole, {46})
        frac == IF dot THEN Run(s, i + whole + 1, 48..57) ELSE 0
        p == i + whole + (IF dot THEN 1 + frac ELSE 0)
        q == IF IsAt(s, p + 1, {43, 45}) THEN p + 2 ELSE p + 1
        n == IF IsAt(s, p, {69, 101}) THEN Run(s, q, 48..57) ELSE 0
        e == FoldLeft(LAMBDA v, d : IF v < 1000 THEN 10 * v + (d - 48) ELSE v, 0,
                      SubSeq(s, q, q + n - 1))
    IN  IF whole + frac = 0 THEN [end |-> 0]
        ELSE [end |-> IF n > 0 THEN q + n - 1 ELSE p - 1,
              neg |-> IsAt(s, first, {45}),
              mant |-> Value(SubSeq(s, i, i + whole - 1)
                             \o SubSeq(s, i + whole + 1, i + whole + frac)),
              exp |-> (IF n > 0 /\ IsAt(s, p + 1, {45}) THEN -e ELSE e) - frac]
json_get_double(text, outsz) ==
    IF json_raw(text, outsz) THEN json_parse_double(text) ELSE [end |-> 0]

(* The double m / 2^b in units of its last decimal: what is shifted out    *)
(* decides, ties go to even.  (Larger doubles than m, which saturate, are  *)
(* left out.)                                                              *)
json_fmt_fixed(m, b, decimals) ==
    LET p == m * 10^decimals
        n == p \div 2^b
        rem == p % 2^b
    IN  IF 2 * rem > 2^b \/ (2 * rem = 2^b /\ n % 2 = 1) THEN n + 1 ELSE n

(* ---- uses ---- *)

(* request_json_escape and send_tool_text write a string, a client reads   *)
(* it and sends it back.                                                   *)
WriteString(s, outsz, insz) ==
    LET escaped == json_escape(s, outsz)
    IN  jsonUse' = [of |-> "written", s |-> s, outsz |-> outsz, insz |-> insz,
                 escaped |-> escaped, back |-> json_get_string(escaped.out, insz)]

mcp_arg_string(text, insz) ==
    jsonUse' = [of |-> "argument", insz |-> insz, got |-> json_get_string(text, insz)]

(* A key of the body, then a key or an element of what was found.          *)
LookUp(doc, key, inner) ==
    LET toks == Tokens(doc)
        at == json_obj_get(toks, 1, key)
    IN  jsonUse' = [of |-> "lookup", doc |-> doc, key |-> key, inner |-> inner,
                 at |-> at, field |-> json_obj_get(toks, at, inner),
                 elements |-> [i \in 0..json_arr_len(toks, at) |-> json_arr_get(toks, at, i)]]

ReadNumber(text, outsz) ==
    jsonUse' = [of |-> "number", text |-> text, outsz |-> outsz, int |-> json_get_int(text, outsz),
                double |-> json_get_double(text, outsz)]
WriteNumber(m, b, decimals) ==
    jsonUse' = [of |-> "fixed", m |-> m, b |-> b, decimals |-> decimals,
                n |-> json_fmt_fixed(m, b, decimals)]

JsonInit == jsonUse = NoUse
JsonNext ==
    \/ \E s \in Strings, outsz, insz \in OutSizes : WriteString(s, outsz, insz)
    \/ \E text \in Texts, insz \in OutSizes : mcp_arg_string(text, insz)
    \/ \E doc \in Documents, key, inner \in JsonKeys : LookUp(doc, key, inner)
    \/ \E text \in Numbers, outsz \in OutSizes : ReadNumber(text, outsz)
    \/ \E f \in Fractions : WriteNumber(f[1], f[2], f[3])

(* ---- reference ---- *)

(* The value of the first item with that key, as a path; <<0>> for none.   *)
FirstOf(v, key, path) ==
    LET at == {i \in DOMAIN v.items : i % 2 = 1 /\ v.items[i].text = key}
    IN  IF v.k # "object" \/ at = {} THEN <<0>> ELSE Append(path, Min(at) + 1)

(* What a number is written as, and how much of a text is one.             *)
Digits == 48..57
IsDigits(t) == \A i \in DOMAIN t : t[i] \in Digits
IsInt(t) == t # <<>> /\ IsDigits(Tail(t)) /\ (t[1] \in Digits \/ (t[1] \in {43, 45} /\ Len(t) > 1))
Mantissa(t) == {k \in DOMAIN t : \A j \in 1..k : t[j] \notin {69, 101}}
Exponent(t) == SubSeq(t, Cardinality(Mantissa(t)) + 2, Len(t))
IsDouble(t) ==
    LET m == SelectSeq(SubSeq(t, 1, Cardinality(Mantissa(t))), LAMBDA c : c # 46)
        points == {k \in Mantissa(t) : t[k] = 46}
    IN  /\ IsInt(m) /\ Cardinality(points) <= 1
        /\ t[1] = 46 => m[1] \in Digits
        /\ Mantissa(t) = DOMAIN t \/ IsInt(Exponent(t))
Longest(s, Is(_)) == Max({0} \cup {n \in DOMAIN s : Is(SubSeq(s, 1, n))})

(* Each digit of t at its place, in thousandths.                           *)
Thousandths(t) ==
    LET point == Min({k \in Mantissa(t) : t[k] = 46} \cup {Cardinality(Mantissa(t)) + 1})
        e == json_get_int(Exponent(t), 9).v
        Place(k) == e + 3 + (IF k < point THEN point - k - 1 ELSE point - k)
        digits == {k \in Mantissa(t) : t[k] \in Digits}
    IN  FoldSet(LAMBDA k, sum : sum + (t[k] - 48) * 10^Place(k), 0, digits)

NumberRight(text, outsz, int, double) ==
    LET d == SubSeq(text, 1, double.end)
    IN  /\ int.end = (IF Len(text) < outsz THEN Longest(text, IsInt) ELSE 0)
        /\ double.end = (IF Len(text) < outsz THEN Longest(text, IsDouble) ELSE 0)
        /\ double.end > 0 /\ Len(Exponent(d)) <= 2 /\ double.exp \in -3..2 =>
              /\ double.mant * 10^(3 + double.exp) = Thousandths(d)
              /\ double.neg <=> d[1] = 45

(* A lookup finds the first field of that name of that object, never one   *)
(* of an object or array before it (json.c:33-40); a string written by the *)
(* server is cut nowhere and reads back as it was when the buffers are     *)
(* large enough; no text makes json_get_string write past its buffer; a    *)
(* number is read whole and at its exact value (json.c:162-164), and       *)
(* written as the nearest decimal, the even one of two (json.c:208-211).   *)
JsonReadsBack ==
    /\ jsonUse.of = "lookup" =>
          LET toks == Tokens(jsonUse.doc)
              PathOf(t) == IF t = 0 THEN <<0>> ELSE toks[t].path
              p == FirstOf(jsonUse.doc, jsonUse.key, <<>>)
              v == IF p = <<0>> THEN jsonUse.doc ELSE jsonUse.doc.items[p[1]]
          IN  /\ PathOf(jsonUse.at) = p
              /\ PathOf(jsonUse.field) = (IF p = <<0>> \/ v.k # "object" THEN <<0>>
                                       ELSE FirstOf(v, jsonUse.inner, p))
              /\ \A i \in DOMAIN jsonUse.elements :
                    PathOf(jsonUse.elements[i]) =
                        (IF i < Len(v.items) THEN Append(p, i + 1) ELSE <<0>>)
    /\ jsonUse.of = "written" =>
          /\ jsonUse.escaped.ok <=> json_escaped_len(jsonUse.s) + 1 <= jsonUse.outsz \/ jsonUse.s = <<>>
          /\ jsonUse.escaped.ok => Len(jsonUse.escaped.out) = json_escaped_len(jsonUse.s)
          /\ jsonUse.escaped.ok /\ Len(jsonUse.s) + 3 < jsonUse.insz => jsonUse.back = Done(jsonUse.s)
    /\ jsonUse.of = "argument" => Len(jsonUse.got.out) < jsonUse.insz
    /\ jsonUse.of = "number" =>
          NumberRight(jsonUse.text, jsonUse.outsz, jsonUse.int, jsonUse.double)
    /\ jsonUse.of = "fixed" =>
          LET off(n) == LET d == jsonUse.m * 10^jsonUse.decimals - n * 2^jsonUse.b
                        IN  IF d < 0 THEN -d ELSE d
          IN  \A n \in {jsonUse.n - 1, jsonUse.n + 1} :
                 /\ off(jsonUse.n) <= off(n)
                 /\ off(jsonUse.n) = off(n) => jsonUse.n % 2 = 0
=============================================================================

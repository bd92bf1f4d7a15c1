----------------------------- MODULE MCFeatures -----------------------------
(* Instances of the small parts, see Features.cfg.                         *)
EXTENDS Features

MCDates == {[year |-> 2024, month |-> 2, day |-> 29, time |-> 1],
            [year |-> 2100, month |-> 12, day |-> 31, time |-> 0]}
MCLevels == -1..5
MCVolumeRanges == {<<0, 15>>, <<2, 5>>, <<3, 3>>}

MCHost == <<"h", "l">>
MCService == <<"s", "l">>
MCFqdn == <<"h", "s", "l">>

(* A first question of up to three labels, and a second one of a label or  *)
(* none that ends in a pointer to any cell, itself and the first question's *)
(* type included; or two that are pointers, which may lie behind each      *)
(* other.                                                                  *)
Names == UNION {[1..n -> {"h", "s", "l"}] : n \in 0..3}
Cells(name) == [i \in DOMAIN name |-> Label(name[i])]
Asks == {Ask("A", FALSE), Ask("PTR", TRUE), Ask("SRV", FALSE), Ask("TXT", TRUE),
         Ask("ANY", TRUE), Ask("AAAA", FALSE)}
First == {Cells(n) \o <<End, a>> : n \in Names, a \in Asks}
Second == {Cells(n) \o <<Pointer(to), a>> :
              n \in {<<>>, <<"h">>, <<"s">>}, to \in 1..8,
              a \in {Ask("ANY", FALSE), Ask("A", TRUE)}}
MCQueries ==
    [questions : {<<f>> : f \in First}, cut : 0..2]
    \cup [questions : {<<Cells(n) \o <<End, a>>, s>> :
                          n \in {<<"l">>, <<"h", "l">>, <<"s", "l">>, <<"h", "s", "l">>},
                          a \in {Ask("A", FALSE), Ask("SRV", FALSE)}, s \in Second},
          cut : 0..1]
    \cup [questions : {<<Cells(n) \o <<End, Ask("AAAA", FALSE)>>, <<Pointer(i), Ask("ANY", FALSE)>>,
                         <<Pointer(j), Ask("TXT", TRUE)>>>> :
                          n \in {<<"h", "l">>, <<"h", "s", "l">>}, i, j \in 1..8},
          cut : {0}]

Server == [section |-> "server"]
Key(k, v) == [key |-> k, value |-> v]
MCIniFiles == {
    <<>>,
    <<Server, Key("token", ""), Key("username", "set"), Key("password", "")>>,
    <<Server, Key("token", "set")>>,
    <<Server, Key("token", "set"), Key("token", "")>>,
    <<Server, Key("username", "set"), [section |-> "power"], Key("password", "set")>>,
    <<Key("token", "set"), Server, Key("username", "set"), Key("password", "set")>>,
    <<Server, Key("token", "set"), [section |-> "power"], Key("token", ""), Server,
      Key("username", "set"), Key("password", "set")>>}

Path(method, path, prefix) == [method |-> method, path |-> path, prefix |-> prefix]
MCRoutes == {Path("GET", <<"a">>, TRUE), Path("GET", <<"a", "b">>, FALSE),
             Path("POST", <<"a">>, FALSE), Path("POST", <<"a", "b">>, TRUE),
             Path("GET", <<"b">>, TRUE)}
MCPrefixes == {<<"b">>, <<"a", "b">>}
MCRequests == [method : {"GET", "POST", "OPTIONS"},
               path : {<<"a">>, <<"a", "b">>, <<"a", "c">>, <<"b", "a">>}]

(* JSON: a quote, a newline, a control character, a backslash, a letter.   *)
MCStrings == UNION {[1..n -> {10, 31, 34, 92, 97}] : n \in 0..3}
Unicode(d) == <<92, 117>> \o d
MCTexts == UNION {[1..n -> {34, 92, 110, 117, 97}] : n \in 0..3}
           \cup {Unicode(d) \o rest : rest \in {<<>>, <<97>>, <<92>>},
                 d \in UNION {[1..n -> {48, 55, 97, 100, 103}] : n \in 3..4}}
Text(t) == [k |-> "string", text |-> t]
Primitive(t) == [k |-> "primitive", text |-> t]
A == <<97>>
B == <<98>>
Leaves == {Text(A), Primitive(<<49>>), Text(<<>>)}
Object(items) == [k |-> "object", items |-> items]
Array(items) == [k |-> "array", items |-> items]
Values == Leaves
          \cup {Object(<<>>), Array(<<>>)}
          \cup {Object(<<Text(k), v>>) : k \in {A, B}, v \in Leaves}
          \cup {Object(<<Text(A), v, Text(B), w>>) : v, w \in {Text(A), Text(B)}}
          \cup {Array(<<v>>) : v \in Leaves} \cup {Array(<<v, w>>) : v, w \in Leaves}
MCDocuments == {Object(<<>>)}
               \cup {Object(<<Text(k), v>>) : k \in {A, B}, v \in Values}
               \cup {Object(<<Text(k), v, Text(l), w>>) : k, l \in {A, B}, v, w \in Values}
MCJsonKeys == {A, B}
(* Digits, a point, an exponent and a sign; nothing begins with a space.   *)
MCNumbers == UNION {[1..n -> {49, 50, 46, 101, 45}] : n \in 0..5} \ {<<>>}
MCFractions == (0..40) \X (0..4) \X (0..2)

(* Paths of at most six characters, without the segments "" and "." that   *)
(* the card itself takes out.                                              *)
MCDirPaths == {<<"/">>, <<"/", "a">>}
MCFilePath == <<"/", "a", "a">>
MCAskedPaths == {p \in UNION {[1..n -> {"/", ".", "a"}] : n \in 0..6} :
    \A i \in DOMAIN p : p[i] = "/" /\ i < Len(p) =>
        ~(p[i + 1] = "/" \/ (p[i + 1] = "." /\ (i + 1 = Len(p) \/ p[i + 2] = "/")))}
MCContents == UNION {[1..n -> {65, 130, 195, 226, 255}] : n \in 0..4}
MCRanges == {<<0, -1>>, <<0, 2>>, <<-3, -1>>, <<-5, 1>>, <<2, 5>>, <<3, 1>>, <<5, 0>>, <<1, -2>>}
MCListings == UNION {[1..n -> {1, 2, 3, 5}] : n \in 0..3}
=============================================================================

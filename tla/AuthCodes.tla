----------------------------- MODULE AuthCodes -----------------------------
(***************************************************************************)
(* features/oauth/oauth.c, the pending authorization codes: a table of     *)
(* MaxAuthCodes slots, each free, live until its deadline, or expired.     *)
(* A PKCE verifier is the challenge it hashes to; a redirect_uri stands    *)
(* for its digest.                                                         *)
(***************************************************************************)
EXTENDS Naturals, FiniteSets

CONSTANTS
    Codes,         \* random codes
    Challenges,
    Redirects,
    NoCode,        \* what an unused slot holds
    MaxAuthCodes,  \* MAX_AUTH_CODES, 8 in the code
    Lifetime,      \* CODE_LIFETIME_SECS, 300 in the code
    MaxNow         \* bound: seconds since boot

ASSUME AuthCodesAssumption ==
    /\ NoCode \notin Codes
    /\ MaxAuthCodes \in Nat \ {0}
    /\ Lifetime \in Nat \ {0}
    /\ MaxNow \in Nat

Slots == 1..MaxAuthCodes

VARIABLES
    now,      \* now_secs()
    g_codes,
    issued,   \* history: every login answered with a code
    spent     \* history: codes taken, or lost in a restart

codesVars == <<now, g_codes, issued, spent>>

AuthCode == [code : Codes \cup {NoCode}, challenge : Challenges \cup {NoCode},
             redirect : Redirects \cup {NoCode}, expires_at : Nat]
Login    == [code : Codes, challenge : Challenges, redirect : Redirects, at : Nat]

CodesTypeOK ==
    /\ now \in 0..MaxNow
    /\ g_codes \in [Slots -> AuthCode]
    /\ issued \subseteq Login
    /\ spent \subseteq Codes

FreeSlot == [code |-> NoCode, challenge |-> NoCode, redirect |-> NoCode, expires_at |-> 0]

CodesInit ==
    /\ now = 0
    /\ g_codes = [i \in Slots |-> FreeSlot]
    /\ issued = {}
    /\ spent = {}

Live(i) == g_codes[i].expires_at # 0 /\ g_codes[i].expires_at >= now

\* Faulty: a code is taken to be expired at its deadline already.
PickedSlot_early ==
    LET open   == {i \in Slots : g_codes[i].expires_at = 0 \/ g_codes[i].expires_at <= now}
        oldest == {i \in Slots : \A j \in Slots : g_codes[i].expires_at <= g_codes[j].expires_at}
        from   == IF open # {} THEN open ELSE oldest
    IN  CHOOSE i \in from : \A j \in from : i <= j

\* The slot code_create picks: the first that is free or expired, else the
\* first of those with the earliest deadline.
PickedSlot ==
    LET open   == {i \in Slots : g_codes[i].expires_at = 0 \/ g_codes[i].expires_at < now}
        oldest == {i \in Slots : \A j \in Slots : g_codes[i].expires_at <= g_codes[j].expires_at}
        from   == IF open # {} THEN open ELSE oldest
    IN  CHOOSE i \in from : \A j \in from : i <= j

code_create(code, challenge, redirect) ==
    /\ code \notin {r.code : r \in issued}
    /\ g_codes' = [g_codes EXCEPT ![PickedSlot] =
                      [code |-> code, challenge |-> challenge, redirect |-> redirect,
                       expires_at |-> now + Lifetime]]
    /\ issued' = issued \cup {[code |-> code, challenge |-> challenge, redirect |-> redirect,
                               at |-> now]}
    /\ UNCHANGED <<now, spent>>

\* Faulty: the slot stays taken.
code_take_keeps(code, i) ==
    /\ Live(i) /\ g_codes[i].code = code
    /\ spent' = spent \cup {code}
    /\ UNCHANGED <<now, g_codes, issued>>

\* code is found in slot i; only the deadline is cleared.
code_take(code, i) ==
    /\ Live(i)
    /\ g_codes[i].code = code
    /\ \A j \in Slots : j < i => ~(Live(j) /\ g_codes[j].code = code)
    /\ g_codes' = [g_codes EXCEPT ![i].expires_at = 0]
    /\ spent' = spent \cup {code}
    /\ UNCHANGED <<now, issued>>

Known(code) == \E i \in Slots : Live(i) /\ g_codes[i].code = code

\* A second passes.
Tick ==
    /\ now < MaxNow
    /\ now' = now + 1
    /\ UNCHANGED <<g_codes, issued, spent>>

\* The process starts again with an empty table.
CodesRestart ==
    /\ g_codes' = [i \in Slots |-> FreeSlot]
    /\ spent' = spent \cup {r.code : r \in issued}
    /\ UNCHANGED <<now, issued>>
=============================================================================

----------------------------- MODULE TokenStore -----------------------------
(***************************************************************************)
(* features/oauth/oauth.c, the persisted token store: tokens.txt on the SD *)
(* card, the digests of its tokens in memory, and the modification time    *)
(* that tells whether the two still agree.                                 *)
(*                                                                         *)
(* A line is numbered in file order and holds a token or Junk (comment,    *)
(* blank, or a field that is no token).  A file whose mtime is 0 does not  *)
(* exist: the convention of tokens_refresh.  A digest is its token.        *)
(* clock is the file system's clock; writes that follow each other quickly *)
(* get the same time unless StrictClock.                                   *)
(***************************************************************************)
EXTENDS Naturals, FiniteSets

CONSTANTS
    Tokens,       \* 16 to 64 character strings
    Junk,
    MaxTokens,    \* MAX_TOKENS, 32 in the code
    StrictClock,  \* TRUE: no two writes have the same modification time
    MaxClock,     \* bound: modification times
    MaxFaults     \* bound: file operations that fail

ASSUME TokenStoreAssumption ==
    /\ Junk \notin Tokens
    /\ MaxTokens \in Nat
    /\ StrictClock \in BOOLEAN
    /\ MaxClock \in Nat \ {0}
    /\ MaxFaults \in Nat

VARIABLES
    tokens_txt,      \* the file: lines, number of the next one, ...
    tokens_tmp,      \* tokens.txt.tmp
    clock,           \* file system time
    faults,          \* failed file operations so far
    g_tokens,
    g_token_count,
    g_tokens_mtime

fileVars   == <<tokens_txt, tokens_tmp, clock>>
memoryVars == <<g_tokens, g_token_count, g_tokens_mtime>>
storeVars  == <<fileVars, faults, memoryVars>>

NoFile == [lines |-> {}, next |-> 1, ends |-> TRUE, mtime |-> 0]

Line == [no : Nat, tok : Tokens \cup {Junk}]

\* ends: the last line ends in a newline, as every line the server writes does.
File == [lines : SUBSET Line, next : Nat, ends : BOOLEAN, mtime : 0..MaxClock]

TokensIn(f) == {l.tok : l \in f.lines} \cap Tokens

StoreTypeOK ==
    /\ tokens_txt \in File
    /\ tokens_tmp \in File
    /\ clock \in 1..MaxClock
    /\ faults \in 0..MaxFaults
    /\ g_tokens \subseteq Tokens
    /\ g_token_count \in 0..MaxTokens
    /\ g_tokens_mtime \in 0..MaxClock

\* A file is a finite list: each number stands for one line before the next.
Numbered(f) ==
    /\ IsFiniteSet(f.lines)
    /\ \A l \in f.lines : l.no < f.next
    /\ \A l, k \in f.lines : l.no = k.no => l = k

StoreInit ==
    /\ tokens_txt = NoFile
    /\ tokens_tmp = NoFile
    /\ clock = 1
    /\ faults = 0
    /\ g_tokens = {}
    /\ g_token_count = 0
    /\ g_tokens_mtime = 0

Fault == faults < MaxFaults /\ faults' = faults + 1

\* The modification time a write leaves.
Stamp(m) ==
    /\ m \in (IF StrictClock THEN {} ELSE {clock}) \cup ({clock + 1} \cap 1..MaxClock)
    /\ clock' = m

\* The lines tokens_load keeps: those with a token, until the table is full.
TokenLines(f) == {l \in f.lines : l.tok \in Tokens}
LoadedLines(f) ==
    {l \in TokenLines(f) :
        Cardinality({k \in TokenLines(f) : k.no <= l.no}) <= MaxTokens}

\* f is the file at that moment, known the time recorded before.  The time is
\* recorded even when the file cannot be opened, and kept when there is none.
tokens_load(f, known) ==
    /\ g_tokens_mtime' = IF f.mtime # 0 THEN f.mtime ELSE known
    /\ \/ /\ g_tokens' = {l.tok : l \in LoadedLines(f)}
          /\ g_token_count' = Cardinality(LoadedLines(f))
          /\ UNCHANGED faults
       \/ /\ f.mtime # 0
          /\ Fault
          /\ g_tokens' = {}
          /\ g_token_count' = 0

tokens_refresh ==
    IF tokens_txt.mtime # g_tokens_mtime
    THEN tokens_load(tokens_txt, g_tokens_mtime)
    ELSE UNCHANGED <<faults, memoryVars>>

\* What the file holds after token is written at its end.  Behind a last line
\* without newline it either makes that line too long for a token or
\* disappears in the line's comment.
Appended(f, token, m) ==
    IF f.ends
    THEN {[lines |-> f.lines \cup {[no |-> f.next, tok |-> token]}, next |-> f.next + 1,
           ends |-> TRUE, mtime |-> m]}
    ELSE {[f EXCEPT !.ends = TRUE, !.mtime = m],
          [lines |-> {l \in f.lines : l.no + 1 # f.next} \cup {[no |-> f.next, tok |-> Junk]},
           next |-> f.next + 1, ends |-> TRUE, mtime |-> m]}

tokens_append_leaves_memory(token, ok) ==
    \/ Fault /\ ~ok /\ UNCHANGED <<fileVars, memoryVars>>
    \/ /\ ok
       /\ \E m \in 1..MaxClock :
             /\ Stamp(m)
             /\ tokens_txt' \in Appended(tokens_txt, token, m)
             /\ g_tokens_mtime' = m
       /\ UNCHANGED <<tokens_tmp, faults, g_tokens, g_token_count>>

tokens_append(token, ok) ==
    \/ /\ ~ok
       /\ Fault
       /\ UNCHANGED <<fileVars, memoryVars>>
    \/ /\ ok
       /\ \E m \in 1..MaxClock :
             /\ Stamp(m)
             /\ tokens_txt' \in Appended(tokens_txt, token, m)
             /\ g_tokens_mtime' = m
       /\ IF g_token_count < MaxTokens
          THEN /\ g_tokens' = g_tokens \cup {token}
               /\ g_token_count' = g_token_count + 1
          ELSE UNCHANGED <<g_tokens, g_token_count>>
       /\ UNCHANGED <<tokens_tmp, faults>>

oauth_token_valid(token, ok) ==
    /\ tokens_refresh
    /\ ok = (token \in g_tokens')

\* The answer oauth_token_valid would give now, were the file readable.
Accepts(token) ==
    IF tokens_txt.mtime # g_tokens_mtime
    THEN token \in {l.tok : l \in LoadedLines(tokens_txt)}
    ELSE token \in g_tokens

LastLineIs(f, token) == \E l \in f.lines : l.no + 1 = f.next /\ l.tok = token

\* Faulty: only the token's first line is dropped.
revoke_copy_first(token) ==
    /\ \E m \in 1..MaxClock :
          /\ Stamp(m)
          /\ tokens_tmp' = [tokens_txt EXCEPT
                               !.lines = {l \in @ : l.tok = token =>
                                             \E k \in @ : k.tok = token /\ k.no < l.no},
                               !.mtime = m]
    /\ UNCHANGED <<tokens_txt, faults, memoryVars>>

\* oauth_revoke_token in three steps, between which the console may lose power
\* or the file be edited: copy without the token's lines, remove, rename.
revoke_copy(token) ==
    /\ \E m \in 1..MaxClock :
          /\ Stamp(m)
          /\ tokens_tmp' = [lines |-> {l \in tokens_txt.lines : l.tok # token},
                            next |-> tokens_txt.next,
                            ends |-> tokens_txt.ends \/ LastLineIs(tokens_txt, token),
                            mtime |-> m]
    /\ UNCHANGED <<tokens_txt, faults, memoryVars>>

\* The result of remove is not looked at.
revoke_remove ==
    /\ \/ tokens_txt' = NoFile /\ UNCHANGED faults
       \/ UNCHANGED tokens_txt /\ Fault
    /\ UNCHANGED <<tokens_tmp, clock, memoryVars>>

\* Only a rename that worked loads the table again.
revoke_rename(ok) ==
    \/ /\ ~ok
       /\ Fault
       /\ UNCHANGED <<fileVars, memoryVars>>
    \/ /\ ok
       /\ tokens_txt' = tokens_tmp
       /\ tokens_tmp' = NoFile
       /\ tokens_load(tokens_tmp, g_tokens_mtime)
       /\ UNCHANGED clock

\* The process starts, its memory cleared.
oauth_init == tokens_load(tokens_txt, 0) /\ UNCHANGED fileVars

-----------------------------------------------------------------------------
(* External: the owner of the SD card edits the file. *)

UserDeletes(l) ==
    /\ l \in tokens_txt.lines
    /\ \E m \in 1..MaxClock :
          /\ Stamp(m)
          /\ tokens_txt' = [lines |-> tokens_txt.lines \ {l},
                            next |-> tokens_txt.next,
                            ends |-> tokens_txt.ends \/ l.no + 1 = tokens_txt.next,
                            mtime |-> m]
    /\ UNCHANGED <<tokens_tmp, faults, memoryVars>>

\* Some editors do not end the last line.
UserAdds(token, newline) ==
    /\ \E m \in 1..MaxClock :
          /\ Stamp(m)
          /\ tokens_txt' = [lines |-> tokens_txt.lines
                                         \cup {[no |-> tokens_txt.next, tok |-> token]},
                            next |-> tokens_txt.next + 1, ends |-> newline, mtime |-> m]
    /\ UNCHANGED <<tokens_tmp, faults, memoryVars>>

=============================================================================

---------------------------- MODULE OAuthProofs ----------------------------
(***************************************************************************)
(* Theorems about OAuth, for every set of tokens and codes, every table    *)
(* size and lifetime, and every bound on faults, edits and time.           *)
(*                                                                         *)
(* RevokedStaysRevoked is not inductive: a revoked token could come back   *)
(* from the file, from the temporary copy of a revocation in progress or   *)
(* from the table in memory.  RevokedInv rules out all three.  The grant   *)
(* properties rest on CodesInv: a slot in use holds the code of one login, *)
(* in no other slot, and no code that has already been redeemed.  The last *)
(* two sections are about the limits of the two tables: which code a full  *)
(* one gives up, and which lines of the file a full one leaves out.        *)
(***************************************************************************)
EXTENDS OAuth, FiniteSetTheorems, WellFoundedInduction, TLAPS

-----------------------------------------------------------------------------
(* What tokens_load keeps *)

\* The table is never filled past its end, however many lines the file has.
LEMMA LoadedBound ==
    ASSUME NEW f \in File, Numbered(f)
    PROVE  Cardinality(LoadedLines(f)) \in 0..MaxTokens
<1> DEFINE T == TokenLines(f)
           Upto(l) == {k \in T : k.no <= l.no}
           rank == [l \in LoadedLines(f) |-> Cardinality(Upto(l))]
<1>1. IsFiniteSet(T)
  BY FS_Subset DEF Numbered, TokenLines
<1>2. \A l \in T : l \in f.lines /\ l.no \in Nat
  BY DEF TokenLines, File, Line
<1>3. ASSUME NEW l \in T PROVE IsFiniteSet(Upto(l)) /\ Cardinality(Upto(l)) \in Nat \ {0}
  <2>1. Upto(l) \in SUBSET T
    OBVIOUS
  <2>2. IsFiniteSet(Upto(l))
    BY <1>1, <2>1, FS_Subset
  <2>3. l \in Upto(l)
    BY <1>2, <1>3
  <2>4. Cardinality(Upto(l)) # 0
    BY <2>2, <2>3, FS_EmptySet
  <2> QED
    BY <2>2, <2>4, FS_CardinalityType
<1>4. ASSUME NEW l \in T, NEW k \in T, l.no < k.no
      PROVE  Cardinality(Upto(l)) # Cardinality(Upto(k))
  <2>1. Upto(l) \in SUBSET Upto(k)
    BY <1>2, <1>4
  <2>2. k \in Upto(k) /\ k \notin Upto(l)
    BY <1>2, <1>4
  <2> QED
    BY <1>3, <2>1, <2>2, FS_Subset
<1>5. LoadedLines(f) \subseteq T
  BY DEF LoadedLines
<1>6. rank \in [LoadedLines(f) -> 1..MaxTokens]
  BY <1>3, <1>5, TokenStoreAssumption DEF LoadedLines
<1>7. \A l, k \in LoadedLines(f) : rank[l] = rank[k] => l = k
  BY <1>2, <1>4, <1>5 DEF Numbered
<1>8. rank \in Injection(LoadedLines(f), 1..MaxTokens)
  BY <1>6, <1>7 DEF Injection, IsInjective
<1>9. IsFiniteSet(1..MaxTokens) /\ Cardinality(1..MaxTokens) = MaxTokens
  BY FS_Interval, TokenStoreAssumption
<1>10. IsFiniteSet(LoadedLines(f)) /\ Cardinality(LoadedLines(f)) <= MaxTokens
  BY <1>8, <1>9, FS_Injection
<1> QED
  BY <1>10, FS_CardinalityType, TokenStoreAssumption

LEMMA LoadedTokens ==
    ASSUME NEW f PROVE {l.tok : l \in LoadedLines(f)} \subseteq TokensIn(f)
BY DEF LoadedLines, TokenLines, TokensIn

LEMMA LoadStep ==
    ASSUME StoreTypeOK, NEW f \in File, Numbered(f), NEW known \in 0..MaxClock,
           tokens_load(f, known)
    PROVE  /\ g_tokens' \subseteq TokensIn(f)
           /\ g_token_count' \in 0..MaxTokens
           /\ g_tokens_mtime' \in 0..MaxClock
           /\ faults' \in 0..MaxFaults
<1>1. g_tokens' \subseteq TokensIn(f)
  BY LoadedTokens DEF tokens_load
<1>2. g_token_count' \in 0..MaxTokens
  BY LoadedBound, TokenStoreAssumption DEF tokens_load
<1>3. g_tokens_mtime' \in 0..MaxClock
  BY DEF tokens_load, File
<1>4. faults' \in 0..MaxFaults
  BY TokenStoreAssumption DEF tokens_load, Fault, StoreTypeOK
<1> QED
  BY <1>1, <1>2, <1>3, <1>4

LEMMA RefreshStep ==
    ASSUME StoreTypeOK, Numbered(tokens_txt), tokens_refresh
    PROVE  /\ g_tokens' \subseteq g_tokens \cup TokensIn(tokens_txt)
           /\ g_token_count' \in 0..MaxTokens
           /\ g_tokens_mtime' \in 0..MaxClock
           /\ faults' \in 0..MaxFaults
<1>1. tokens_txt \in File /\ g_tokens_mtime \in 0..MaxClock
  BY DEF StoreTypeOK
<1>2. CASE tokens_txt.mtime # g_tokens_mtime
  BY <1>1, <1>2, LoadStep DEF tokens_refresh
<1>3. CASE tokens_txt.mtime = g_tokens_mtime
  BY <1>3 DEF tokens_refresh, memoryVars, StoreTypeOK
<1> QED
  BY <1>2, <1>3

-----------------------------------------------------------------------------
(* What a write leaves in the file *)

LEMMA StampStep ==
    ASSUME clock \in 1..MaxClock, NEW m \in 1..MaxClock, Stamp(m)
    PROVE  clock' \in 1..MaxClock
BY DEF Stamp

LEMMA AppendedFile ==
    ASSUME NEW f \in File, Numbered(f), NEW token \in Tokens, NEW m \in 1..MaxClock,
           NEW g \in Appended(f, token, m)
    PROVE  g \in File /\ Numbered(g) /\ TokensIn(g) \subseteq TokensIn(f) \cup {token}
<1> DEFINE new  == [no |-> f.next, tok |-> token]
           junk == [no |-> f.next, tok |-> Junk]
           rest == {l \in f.lines : l.no + 1 # f.next}
<1>1. f.next \in Nat /\ f.lines \subseteq Line /\ new \in Line /\ junk \in Line
  BY DEF File, Line
<1>2. m \in 0..MaxClock
  BY TokenStoreAssumption
<1>3. \A l \in f.lines : l.no \in Nat /\ l.no < f.next
  BY <1>1 DEF Numbered, Line
<1>4. IsFiniteSet(f.lines \cup {new})
  BY FS_AddElement DEF Numbered
<1>5. IsFiniteSet(rest)
  BY FS_Subset DEF Numbered
<1>6. IsFiniteSet(rest \cup {junk})
  BY <1>5, FS_AddElement
<1>7. CASE g = [lines |-> f.lines \cup {new}, next |-> f.next + 1, ends |-> TRUE, mtime |-> m]
  <2>1. g \in File
    BY <1>1, <1>2, <1>7 DEF File
  <2>2. Numbered(g)
    BY <1>1, <1>3, <1>4, <1>7 DEF Numbered
  <2>3. TokensIn(g) \subseteq TokensIn(f) \cup {token}
    BY <1>7 DEF TokensIn
  <2> QED
    BY <2>1, <2>2, <2>3
<1>8. CASE g = [f EXCEPT !.ends = TRUE, !.mtime = m]
  <2>1. g \in File
    BY <1>2, <1>8 DEF File
  <2>2. g.lines = f.lines /\ g.next = f.next
    BY <1>8 DEF File
  <2> QED
    BY <2>1, <2>2 DEF Numbered, TokensIn
<1>9. CASE g = [lines |-> rest \cup {junk}, next |-> f.next + 1, ends |-> TRUE, mtime |-> m]
  <2>1. g \in File
    BY <1>1, <1>2, <1>9 DEF File
  <2>2. Numbered(g)
    BY <1>1, <1>3, <1>6, <1>9 DEF Numbered
  <2>3. TokensIn(g) \subseteq TokensIn(f) \cup {token}
    BY <1>9, TokenStoreAssumption DEF TokensIn
  <2> QED
    BY <2>1, <2>2, <2>3
<1> QED
  BY <1>7, <1>8, <1>9 DEF Appended

LEMMA AppendStep ==
    ASSUME StoreTypeOK, Numbered(tokens_txt), NEW token \in Tokens, NEW ok \in BOOLEAN,
           tokens_append(token, ok)
    PROVE  /\ StoreTypeOK'
           /\ Numbered(tokens_txt)'
           /\ tokens_tmp' = tokens_tmp
           /\ TokensIn(tokens_txt)' \subseteq TokensIn(tokens_txt) \cup {token}
           /\ g_tokens' \subseteq g_tokens \cup {token}
<1>1. CASE ~ok
  BY <1>1, TokenStoreAssumption DEF tokens_append, Fault, fileVars, memoryVars, StoreTypeOK
<1>2. CASE ok
  <2>1. PICK m \in 1..MaxClock : Stamp(m) /\ tokens_txt' \in Appended(tokens_txt, token, m)
                                 /\ g_tokens_mtime' = m
    BY <1>2 DEF tokens_append
  <2>2. /\ tokens_txt' \in File
        /\ Numbered(tokens_txt')
        /\ TokensIn(tokens_txt') \subseteq TokensIn(tokens_txt) \cup {token}
    BY <2>1, AppendedFile DEF StoreTypeOK
  <2>3. clock' \in 1..MaxClock
    BY <2>1, StampStep DEF StoreTypeOK
  <2>4. /\ g_tokens' \subseteq g_tokens \cup {token}
        /\ g_token_count' \in 0..MaxTokens
        /\ tokens_tmp' = tokens_tmp /\ faults' = faults
    BY <1>2, TokenStoreAssumption DEF tokens_append, StoreTypeOK
  <2>5. g_tokens_mtime' \in 0..MaxClock
    BY <2>1
  <2> QED
    BY <2>2, <2>3, <2>4, <2>5 DEF StoreTypeOK
<1> QED
  BY <1>1, <1>2

LEMMA CopyStep ==
    ASSUME StoreTypeOK, Numbered(tokens_txt), NEW token \in Tokens, revoke_copy(token)
    PROVE  /\ StoreTypeOK'
           /\ tokens_txt' = tokens_txt /\ g_tokens' = g_tokens
           /\ Numbered(tokens_tmp)'
           /\ TokensIn(tokens_tmp)' = TokensIn(tokens_txt) \ {token}
<1>1. PICK m \in 1..MaxClock :
         /\ Stamp(m)
         /\ tokens_tmp' = [lines |-> {l \in tokens_txt.lines : l.tok # token},
                           next |-> tokens_txt.next,
                           ends |-> tokens_txt.ends \/ LastLineIs(tokens_txt, token),
                           mtime |-> m]
  BY DEF revoke_copy
<1>2. /\ tokens_tmp'.lines = {l \in tokens_txt.lines : l.tok # token}
      /\ tokens_tmp'.next = tokens_txt.next
  BY <1>1
<1>3. tokens_tmp' \in File
  <2>1. (tokens_txt.ends \/ LastLineIs(tokens_txt, token)) \in BOOLEAN
    BY Zenon
  <2>2. m \in 0..MaxClock /\ tokens_txt.next \in Nat /\ tokens_txt.lines \subseteq Line
    BY TokenStoreAssumption DEF StoreTypeOK, File
  <2> QED
    BY <1>1, <2>1, <2>2 DEF File
<1>4. IsFiniteSet(tokens_tmp'.lines)
  BY <1>2, FS_Subset DEF Numbered
<1>5. Numbered(tokens_tmp')
  BY <1>2, <1>4 DEF Numbered
<1>6. TokensIn(tokens_tmp') = TokensIn(tokens_txt) \ {token}
  BY <1>2 DEF TokensIn
<1>7. clock' \in 1..MaxClock
  BY <1>1, StampStep DEF StoreTypeOK
<1> QED
  BY <1>3, <1>5, <1>6, <1>7 DEF revoke_copy, StoreTypeOK, memoryVars

LEMMA NoFileOK == NoFile \in File /\ Numbered(NoFile) /\ TokensIn(NoFile) = {}
<1>1. NoFile \in File
  BY TokenStoreAssumption DEF NoFile, File
<1> QED
  BY <1>1, FS_EmptySet DEF NoFile, Numbered, TokensIn

LEMMA DeleteStep ==
    ASSUME StoreTypeOK, Numbered(tokens_txt), NEW line, UserDeletes(line)
    PROVE  /\ StoreTypeOK'
           /\ tokens_tmp' = tokens_tmp /\ g_tokens' = g_tokens
           /\ Numbered(tokens_txt)'
           /\ TokensIn(tokens_txt)' \subseteq TokensIn(tokens_txt)
<1>1. PICK m \in 1..MaxClock :
         /\ Stamp(m)
         /\ tokens_txt' = [lines |-> tokens_txt.lines \ {line},
                           next |-> tokens_txt.next,
                           ends |-> tokens_txt.ends \/ line.no + 1 = tokens_txt.next,
                           mtime |-> m]
  BY DEF UserDeletes
<1>2. tokens_txt'.lines = tokens_txt.lines \ {line} /\ tokens_txt'.next = tokens_txt.next
  BY <1>1
<1>3. tokens_txt' \in File
  <2>1. (tokens_txt.ends \/ line.no + 1 = tokens_txt.next) \in BOOLEAN
    BY Zenon
  <2>2. m \in 0..MaxClock /\ tokens_txt.next \in Nat /\ tokens_txt.lines \subseteq Line
    BY TokenStoreAssumption DEF StoreTypeOK, File
  <2> QED
    BY <1>1, <2>1, <2>2 DEF File
<1>4. IsFiniteSet(tokens_txt'.lines)
  BY <1>2, FS_Subset DEF Numbered
<1>5. Numbered(tokens_txt')
  BY <1>2, <1>4 DEF Numbered
<1>6. TokensIn(tokens_txt') \subseteq TokensIn(tokens_txt)
  BY <1>2 DEF TokensIn
<1>7. clock' \in 1..MaxClock
  BY <1>1, StampStep DEF StoreTypeOK
<1> QED
  BY <1>3, <1>5, <1>6, <1>7 DEF UserDeletes, StoreTypeOK, memoryVars

LEMMA AddStep ==
    ASSUME StoreTypeOK, Numbered(tokens_txt), NEW token \in Tokens, NEW newline \in BOOLEAN,
           UserAdds(token, newline)
    PROVE  /\ StoreTypeOK'
           /\ tokens_tmp' = tokens_tmp /\ g_tokens' = g_tokens
           /\ Numbered(tokens_txt)'
           /\ TokensIn(tokens_txt)' \subseteq TokensIn(tokens_txt) \cup {token}
<1> DEFINE new == [no |-> tokens_txt.next, tok |-> token]
<1>1. PICK m \in 1..MaxClock :
         /\ Stamp(m)
         /\ tokens_txt' = [lines |-> tokens_txt.lines \cup {new}, next |-> tokens_txt.next + 1,
                           ends |-> newline, mtime |-> m]
  BY DEF UserAdds
<1>2. /\ tokens_txt.next \in Nat /\ tokens_txt.lines \subseteq Line /\ new \in Line
      /\ \A l \in tokens_txt.lines : l.no \in Nat /\ l.no < tokens_txt.next
  BY DEF StoreTypeOK, File, Line, Numbered
<1>3. tokens_txt' \in File
  BY <1>1, <1>2, TokenStoreAssumption DEF File
<1>4. IsFiniteSet(tokens_txt.lines \cup {new})
  BY FS_AddElement DEF Numbered
<1>5. Numbered(tokens_txt')
  BY <1>1, <1>2, <1>4 DEF Numbered
<1>6. TokensIn(tokens_txt') \subseteq TokensIn(tokens_txt) \cup {token}
  BY <1>1 DEF TokensIn
<1>7. clock' \in 1..MaxClock
  BY <1>1, StampStep DEF StoreTypeOK
<1> QED
  BY <1>3, <1>5, <1>6, <1>7 DEF UserAdds, StoreTypeOK, memoryVars

-----------------------------------------------------------------------------
(* The token store keeps its types and RevokedInv *)

MintedHistory == /\ minted \subseteq Tokens
                 /\ revoked \subseteq minted
                 /\ kept \subseteq minted

LEMMA MintStep ==
    ASSUME StoreTypeOK, HistoryTypeOK, RevokedInv, pc = "idle",
           NEW token \in Tokens, NEW ok \in BOOLEAN, oauth_mint_token(token, ok),
           UNCHANGED <<pc, target>>
    PROVE  StoreTypeOK' /\ MintedHistory' /\ RevokedInv'
<1>1. /\ StoreTypeOK'
      /\ Numbered(tokens_txt)'
      /\ tokens_tmp' = tokens_tmp
      /\ TokensIn(tokens_txt)' \subseteq TokensIn(tokens_txt) \cup {token}
      /\ g_tokens' \subseteq g_tokens \cup {token}
  BY AppendStep DEF oauth_mint_token, RevokedInv
<1>2. TokensIn(tokens_tmp)' = TokensIn(tokens_tmp) /\ Numbered(tokens_tmp)'
  BY <1>1 DEF TokensIn, Numbered, RevokedInv
<1>3. token \notin minted /\ minted' = minted \cup {token} /\ revoked' = revoked
  BY DEF oauth_mint_token
<1>4. MintedHistory'
  BY <1>3 DEF oauth_mint_token, MintedHistory, HistoryTypeOK
<1>5. RevokedInv'
  BY <1>1, <1>2, <1>3 DEF RevokedInv, HistoryTypeOK
<1> QED
  BY <1>1, <1>4, <1>5

\* A refresh reads the file and touches only the table in memory.
LEMMA RefreshKeeps ==
    ASSUME StoreTypeOK, HistoryTypeOK, RevokedInv, tokens_refresh,
           UNCHANGED <<fileVars, minted, revoked, kept>>,
           pc = "idle", pc' \in {"idle", "copy"}, pc' = "copy" => target' \in g_tokens'
    PROVE  StoreTypeOK' /\ MintedHistory' /\ RevokedInv'
<1>1. /\ g_tokens' \subseteq g_tokens \cup TokensIn(tokens_txt)
      /\ g_token_count' \in 0..MaxTokens
      /\ g_tokens_mtime' \in 0..MaxClock
      /\ faults' \in 0..MaxFaults
  BY RefreshStep DEF RevokedInv
<1>2. /\ tokens_txt' = tokens_txt /\ tokens_tmp' = tokens_tmp /\ clock' = clock
      /\ TokensIn(tokens_txt)' = TokensIn(tokens_txt) /\ TokensIn(tokens_tmp)' = TokensIn(tokens_tmp)
      /\ Numbered(tokens_txt)' /\ Numbered(tokens_tmp)'
  BY DEF fileVars, TokensIn, Numbered, RevokedInv
<1>3. StoreTypeOK'
  <2>1. g_tokens' \subseteq Tokens
    BY <1>1 DEF StoreTypeOK, TokensIn
  <2> QED
    BY <1>1, <1>2, <2>1 DEF StoreTypeOK
<1>4. MintedHistory'
  BY DEF HistoryTypeOK, MintedHistory
<1>5. RevokedInv'
  BY <1>1, <1>2 DEF RevokedInv
<1> QED
  BY <1>3, <1>4, <1>5

LEMMA RestartStep ==
    ASSUME StoreTypeOK, HistoryTypeOK, RevokedInv, Restart
    PROVE  StoreTypeOK' /\ MintedHistory' /\ RevokedInv'
<1>1. tokens_txt \in File /\ Numbered(tokens_txt) /\ tokens_load(tokens_txt, 0)
  BY DEF Restart, oauth_init, StoreTypeOK, RevokedInv
<1>2. 0 \in 0..MaxClock
  BY TokenStoreAssumption
<1>3. /\ g_tokens' \subseteq TokensIn(tokens_txt)
      /\ g_token_count' \in 0..MaxTokens
      /\ g_tokens_mtime' \in 0..MaxClock
      /\ faults' \in 0..MaxFaults
  BY <1>1, <1>2, LoadStep
<1>4. /\ tokens_txt' = tokens_txt /\ tokens_tmp' = tokens_tmp /\ clock' = clock
      /\ pc' = "idle" /\ minted' = minted /\ revoked' = revoked /\ kept' = kept
      /\ TokensIn(tokens_txt)' = TokensIn(tokens_txt) /\ TokensIn(tokens_tmp)' = TokensIn(tokens_tmp)
      /\ Numbered(tokens_txt)' /\ Numbered(tokens_tmp)'
  BY DEF Restart, oauth_init, fileVars, historyVars, TokensIn, Numbered, RevokedInv
<1>5. StoreTypeOK'
  <2>1. g_tokens' \subseteq Tokens
    BY <1>3 DEF StoreTypeOK, TokensIn
  <2> QED
    BY <1>3, <1>4, <2>1 DEF StoreTypeOK
<1>6. MintedHistory'
  BY <1>4 DEF HistoryTypeOK, MintedHistory
<1>7. RevokedInv'
  BY <1>3, <1>4 DEF RevokedInv
<1> QED
  BY <1>5, <1>6, <1>7

LEMMA RevokeCopyStep ==
    ASSUME StoreTypeOK, HistoryTypeOK, RevokedInv, RevokeCopy
    PROVE  StoreTypeOK' /\ MintedHistory' /\ RevokedInv'
<1>1. target \in Tokens /\ pc = "copy"
  BY DEF RevokeCopy, RevokedInv, HistoryTypeOK
<1>2. MintedHistory'
  BY DEF RevokeCopy, HistoryTypeOK, MintedHistory
<1>3. CASE revoke_copy(target) /\ pc' = "remove"
  <2>1. /\ StoreTypeOK'
        /\ tokens_txt' = tokens_txt /\ g_tokens' = g_tokens
        /\ Numbered(tokens_tmp)'
        /\ TokensIn(tokens_tmp)' = TokensIn(tokens_txt) \ {target}
    BY <1>1, <1>3, CopyStep DEF RevokedInv
  <2>2. TokensIn(tokens_txt)' = TokensIn(tokens_txt) /\ Numbered(tokens_txt)'
    BY <2>1 DEF TokensIn, Numbered, RevokedInv
  <2>3. target' = target /\ minted' = minted /\ revoked' = revoked
    BY DEF RevokeCopy
  <2>4. RevokedInv'
    BY <1>1, <1>3, <2>1, <2>2, <2>3 DEF RevokedInv
  <2> QED
    BY <1>2, <2>1, <2>4
<1>4. CASE Fault /\ pc' = "idle" /\ UNCHANGED <<fileVars, memoryVars, kept>>
  <2>1. /\ UNCHANGED <<tokens_txt, tokens_tmp, g_tokens, target, minted, revoked>>
        /\ TokensIn(tokens_txt)' = TokensIn(tokens_txt) /\ TokensIn(tokens_tmp)' = TokensIn(tokens_tmp)
        /\ Numbered(tokens_txt)' /\ Numbered(tokens_tmp)'
    BY <1>4 DEF RevokeCopy, fileVars, memoryVars, TokensIn, Numbered, RevokedInv
  <2>2. StoreTypeOK'
    BY <1>4, TokenStoreAssumption DEF Fault, fileVars, memoryVars, StoreTypeOK
  <2>3. RevokedInv'
    BY <1>4, <2>1 DEF RevokedInv
  <2> QED
    BY <1>2, <2>2, <2>3
<1> QED
  BY <1>3, <1>4 DEF RevokeCopy

LEMMA RevokeRemoveStep ==
    ASSUME StoreTypeOK, HistoryTypeOK, RevokedInv, RevokeRemove
    PROVE  StoreTypeOK' /\ MintedHistory' /\ RevokedInv'
<1>1. /\ UNCHANGED <<tokens_tmp, clock, g_tokens, g_token_count, g_tokens_mtime, target,
                     minted, revoked, kept>>
      /\ pc = "remove" /\ pc' = "rename"
  BY DEF RevokeRemove, revoke_remove, memoryVars, historyVars
<1>2. /\ tokens_txt' \in File /\ Numbered(tokens_txt')
      /\ TokensIn(tokens_txt') \subseteq TokensIn(tokens_txt)
  BY NoFileOK DEF RevokeRemove, revoke_remove, StoreTypeOK, RevokedInv
<1>3. TokensIn(tokens_tmp)' = TokensIn(tokens_tmp) /\ Numbered(tokens_tmp)'
  BY <1>1 DEF TokensIn, Numbered, RevokedInv
<1>4. faults' \in 0..MaxFaults
  BY TokenStoreAssumption DEF RevokeRemove, revoke_remove, Fault, StoreTypeOK
<1>5. StoreTypeOK'
  BY <1>1, <1>2, <1>4 DEF StoreTypeOK
<1>6. RevokedInv'
  BY <1>1, <1>2, <1>3 DEF RevokedInv
<1>7. MintedHistory'
  BY <1>1 DEF MintedHistory, HistoryTypeOK
<1> QED
  BY <1>5, <1>6, <1>7

LEMMA RevokeRenameStep ==
    ASSUME StoreTypeOK, HistoryTypeOK, RevokedInv, RevokeRename
    PROVE  StoreTypeOK' /\ MintedHistory' /\ RevokedInv'
<1>1. PICK ok \in BOOLEAN : revoke_rename(ok)
                            /\ revoked' = IF ok THEN revoked \cup {target} ELSE revoked
  BY DEF RevokeRename
<1>2. /\ UNCHANGED <<target, minted, kept>> /\ pc = "rename" /\ pc' = "idle"
      /\ target \in minted
  BY DEF RevokeRename, RevokedInv
<1>3. MintedHistory'
  BY <1>1, <1>2 DEF MintedHistory, HistoryTypeOK
<1>4. CASE ~ok
  <2>1. /\ UNCHANGED <<tokens_txt, tokens_tmp, g_tokens, revoked>>
        /\ TokensIn(tokens_txt)' = TokensIn(tokens_txt) /\ TokensIn(tokens_tmp)' = TokensIn(tokens_tmp)
        /\ Numbered(tokens_txt)' /\ Numbered(tokens_tmp)'
    BY <1>1, <1>4 DEF revoke_rename, fileVars, memoryVars, TokensIn, Numbered, RevokedInv
  <2>2. StoreTypeOK'
    BY <1>1, <1>4, TokenStoreAssumption DEF revoke_rename, Fault, fileVars, memoryVars, StoreTypeOK
  <2>3. RevokedInv'
    BY <1>2, <2>1 DEF RevokedInv
  <2> QED
    BY <1>3, <2>2, <2>3
<1>5. CASE ok
  <2>1. /\ tokens_txt' = tokens_tmp /\ tokens_tmp' = NoFile /\ clock' = clock
        /\ tokens_load(tokens_tmp, g_tokens_mtime) /\ revoked' = revoked \cup {target}
    BY <1>1, <1>5 DEF revoke_rename
  <2>2. /\ g_tokens' \subseteq TokensIn(tokens_tmp)
        /\ g_token_count' \in 0..MaxTokens
        /\ g_tokens_mtime' \in 0..MaxClock
        /\ faults' \in 0..MaxFaults
    BY <2>1, LoadStep DEF StoreTypeOK, RevokedInv
  <2>3. /\ TokensIn(tokens_txt)' = TokensIn(tokens_tmp) /\ TokensIn(tokens_tmp)' = {}
        /\ Numbered(tokens_txt)' /\ Numbered(tokens_tmp)'
    BY <2>1, NoFileOK DEF TokensIn, Numbered, RevokedInv
  <2>4. g_tokens' \subseteq Tokens
    BY <2>2 DEF TokensIn
  <2>5. StoreTypeOK'
    BY <2>1, <2>2, <2>4, NoFileOK DEF StoreTypeOK
  <2>6. RevokedInv'
    BY <1>2, <2>1, <2>2, <2>3 DEF RevokedInv
  <2> QED
    BY <1>3, <2>5, <2>6
<1> QED
  BY <1>4, <1>5

LEMMA StoreStep ==
    ASSUME IInv, [Next]_vars
    PROVE  StoreTypeOK' /\ MintedHistory' /\ RevokedInv'
<1> USE DEF IInv, TypeOK
<1>1. ASSUME UNCHANGED <<storeVars, pc, target, minted, revoked, kept>>
      PROVE  StoreTypeOK' /\ MintedHistory' /\ RevokedInv'
  BY <1>1 DEF storeVars, fileVars, memoryVars, StoreTypeOK, HistoryTypeOK, MintedHistory,
              RevokedInv, TokensIn, Numbered
<1>2. ASSUME NEW token \in Tokens, Request(token)
      PROVE  StoreTypeOK' /\ MintedHistory' /\ RevokedInv'
  BY <1>2, RefreshKeeps DEF Request, oauth_token_valid, historyVars
<1>3. ASSUME NEW token \in Tokens, tool_revoke_token(token)
      PROVE  StoreTypeOK' /\ MintedHistory' /\ RevokedInv'
  <2>1. /\ tokens_refresh /\ UNCHANGED <<fileVars, minted, revoked, kept>> /\ pc = "idle"
        /\ pc' \in {"idle", "copy"} /\ (pc' = "copy" => target' \in g_tokens')
    BY <1>3 DEF tool_revoke_token, oauth_token_valid, historyVars
  <2> QED
    BY <2>1, RefreshKeeps
<1>4. ASSUME NEW code, NEW challenge, NEW redirect,
             handle_authorize_post(code, challenge, redirect)
      PROVE  StoreTypeOK' /\ MintedHistory' /\ RevokedInv'
  BY <1>1, <1>4 DEF handle_authorize_post, historyVars
<1>5. ASSUME NEW code, NEW verifier, NEW redirect, handle_token(code, verifier, redirect)
      PROVE  StoreTypeOK' /\ MintedHistory' /\ RevokedInv'
  <2>1. pc = "idle" /\ UNCHANGED <<pc, target>>
    BY <1>5 DEF handle_token
  <2>2. \/ UNCHANGED <<storeVars, historyVars>>
        \/ \E token \in Tokens, ok \in BOOLEAN : oauth_mint_token(token, ok)
    BY <1>5 DEF handle_token
  <2> QED
    BY <1>1, <2>1, <2>2, MintStep DEF historyVars
<1>6. CASE tool_create_token
  BY <1>6, MintStep DEF tool_create_token
<1>7. CASE RevokeCopy
  BY <1>7, RevokeCopyStep
<1>8. CASE RevokeRemove
  BY <1>8, RevokeRemoveStep
<1>9. CASE RevokeRename
  BY <1>9, RevokeRenameStep
<1>10. CASE Restart
  BY <1>10, RestartStep
<1>11. CASE OwnerDeletesLine
  <2>1. PICK l \in tokens_txt.lines : UserDeletes(l) /\ kept' = kept \ {l.tok}
    BY <1>11 DEF OwnerDeletesLine
  <2>2. /\ StoreTypeOK'
        /\ tokens_tmp' = tokens_tmp /\ g_tokens' = g_tokens
        /\ Numbered(tokens_txt)'
        /\ TokensIn(tokens_txt)' \subseteq TokensIn(tokens_txt)
    BY <2>1, DeleteStep DEF RevokedInv
  <2>3. UNCHANGED <<pc, target, minted, revoked>>
    BY <1>11 DEF OwnerDeletesLine
  <2>4. TokensIn(tokens_tmp)' = TokensIn(tokens_tmp) /\ Numbered(tokens_tmp)'
    BY <2>2 DEF TokensIn, Numbered, RevokedInv
  <2>5. MintedHistory'
    BY <2>1, <2>3 DEF MintedHistory, HistoryTypeOK
  <2>6. RevokedInv'
    BY <2>2, <2>3, <2>4 DEF RevokedInv
  <2> QED
    BY <2>2, <2>5, <2>6
<1>12. CASE OwnerAddsLine
  <2>1. PICK token \in Tokens, newline \in BOOLEAN :
           /\ UserAdds(token, newline)
           /\ minted' = minted \cup {token}
           /\ revoked' = revoked \ {token}
           /\ kept' = kept \cup {token}
    BY <1>12 DEF OwnerAddsLine
  <2>2. /\ StoreTypeOK'
        /\ tokens_tmp' = tokens_tmp /\ g_tokens' = g_tokens
        /\ Numbered(tokens_txt)'
        /\ TokensIn(tokens_txt)' \subseteq TokensIn(tokens_txt) \cup {token}
    BY <2>1, AddStep DEF RevokedInv
  <2>3. UNCHANGED <<pc, target>>
    BY <1>12 DEF OwnerAddsLine
  <2>4. TokensIn(tokens_tmp)' = TokensIn(tokens_tmp) /\ Numbered(tokens_tmp)'
    BY <2>2 DEF TokensIn, Numbered, RevokedInv
  <2>5. MintedHistory'
    BY <2>1 DEF MintedHistory, HistoryTypeOK
  <2>6. RevokedInv'
    BY <2>1, <2>2, <2>3, <2>4 DEF RevokedInv
  <2> QED
    BY <2>2, <2>5, <2>6
<1>13. CASE SecondPasses
  BY <1>1, <1>13 DEF SecondPasses, historyVars
<1>14. CASE UNCHANGED vars
  BY <1>1, <1>14 DEF vars, historyVars
<1> QED
  BY ONLY [Next]_vars, <1>2, <1>3, <1>4, <1>5, <1>6, <1>7, <1>8, <1>9, <1>10, <1>11, <1>12,
     <1>13, <1>14 DEF Next

-----------------------------------------------------------------------------
(* The codes keep their types, CodesInv and the properties of grants *)

GrantsInv == grants \subseteq Grant /\ OneTokenPerLogin /\ GrantsMatchLogins

LEMMA LeastNatural ==
    ASSUME NEW S \in SUBSET Nat, S # {} PROVE \E m \in S : \A k \in S : m <= k
<1>1. \E m \in S : \A k \in S : ~(<<k, m>> \in OpToRel(<, Nat))
  BY WFMin, NatLessThanWellFounded, Zenon
<1>2. PICK m \in S : \A k \in S : <<k, m>> \notin OpToRel(<, Nat)
  BY <1>1
<1>3. \A k \in S : ~(k < m)
  BY <1>2 DEF OpToRel
<1> QED
  BY <1>3

\* code_create always finds a slot of the table, and takes a live code's slot
\* only when every slot holds a live code and none is older.
LEMMA PickedSlotType ==
    ASSUME CodesTypeOK
    PROVE  /\ PickedSlot \in Slots
           /\ Live(PickedSlot) => \A j \in Slots :
                 /\ g_codes[j].expires_at # 0
                 /\ g_codes[PickedSlot].expires_at <= g_codes[j].expires_at
<1> DEFINE open   == {i \in Slots : g_codes[i].expires_at = 0 \/ g_codes[i].expires_at < now}
           oldest == {i \in Slots : \A j \in Slots : g_codes[i].expires_at <= g_codes[j].expires_at}
           from   == IF open # {} THEN open ELSE oldest
           ends   == {g_codes[i].expires_at : i \in Slots}
<1>0. now \in Nat /\ \A i \in Slots : g_codes[i].expires_at \in Nat
  BY AuthCodesAssumption DEF CodesTypeOK, AuthCode
<1>1. ends \in SUBSET Nat
  BY <1>0
<1>2. 1 \in Slots /\ Slots \in SUBSET Nat
  BY AuthCodesAssumption DEF Slots
<1>3. ends # {}
  BY <1>2
<1>4. PICK e \in ends : \A d \in ends : e <= d
  BY <1>1, <1>3, LeastNatural
<1>5. oldest # {}
  BY <1>4
<1>6. from # {} /\ from \in SUBSET Slots
  BY <1>5
<1>7. \E i \in from : \A j \in from : i <= j
  BY <1>2, <1>6, LeastNatural
<1>8. PickedSlot = CHOOSE i \in from : \A j \in from : i <= j
  BY DEF PickedSlot
<1>9. PickedSlot \in from /\ PickedSlot \in Slots
  BY <1>6, <1>7, <1>8
<1>10. Live(PickedSlot) => PickedSlot \notin open
  BY <1>0, <1>9 DEF Live
<1>11. Live(PickedSlot) => open = {} /\ PickedSlot \in oldest
  BY <1>9, <1>10
<1>12. Live(PickedSlot) => \A j \in Slots : g_codes[j].expires_at # 0
  BY <1>11
<1>13. Live(PickedSlot) => \A j \in Slots : g_codes[PickedSlot].expires_at <= g_codes[j].expires_at
  BY <1>11
<1> QED
  BY <1>9, <1>12, <1>13

\* A slot in use belongs to a login.
LEMMA SlotLogin ==
    ASSUME CodesInv, NEW i \in Slots, g_codes[i].expires_at # 0
    PROVE  \E r \in issued : /\ r.code = g_codes[i].code
                             /\ r.challenge = g_codes[i].challenge
                             /\ r.redirect = g_codes[i].redirect
                             /\ r.at = g_codes[i].expires_at - Lifetime
<1> DEFINE r == [code |-> g_codes[i].code, challenge |-> g_codes[i].challenge,
                 redirect |-> g_codes[i].redirect, at |-> g_codes[i].expires_at - Lifetime]
<1>1. r \in issued
  BY DEF CodesInv
<1> QED
  BY <1>1

LEMMA CreateStep ==
    ASSUME CodesTypeOK, CodesInv, GrantsInv, UNCHANGED grants,
           NEW code \in Codes, NEW challenge \in Challenges, NEW redirect \in Redirects,
           code_create(code, challenge, redirect)
    PROVE  CodesTypeOK' /\ CodesInv' /\ GrantsInv'
<1> DEFINE i == PickedSlot
           new == [code |-> code, challenge |-> challenge, redirect |-> redirect,
                   expires_at |-> now + Lifetime]
           login == [code |-> code, challenge |-> challenge, redirect |-> redirect, at |-> now]
<1>1. /\ code \notin {r.code : r \in issued}
      /\ g_codes' = [g_codes EXCEPT ![i] = new]
      /\ issued' = issued \cup {login}
      /\ now' = now /\ spent' = spent
  BY DEF code_create
<1>2. i \in Slots
  BY PickedSlotType
<1>3. now \in Nat /\ now + Lifetime \in Nat \ {0} /\ Lifetime \in Nat
  BY AuthCodesAssumption DEF CodesTypeOK
<1>4. new \in AuthCode /\ login \in Login
  BY <1>3 DEF AuthCode, Login
<1>5. CodesTypeOK'
  BY <1>1, <1>2, <1>4 DEF CodesTypeOK
<1>6. GrantsInv'
  BY <1>1 DEF GrantsInv, OneTokenPerLogin, GrantsMatchLogins
<1>7. /\ g_codes'[i] = new
      /\ \A j \in Slots \ {i} : g_codes'[j] = g_codes[j]
  BY <1>1, <1>2 DEF CodesTypeOK
<1>8. ASSUME NEW j \in Slots, g_codes[j].expires_at # 0
      PROVE  g_codes[j].code # code
  BY <1>1, <1>8, SlotLogin
<1>9. code \notin spent
  BY <1>1 DEF CodesInv
<1>10. [code |-> new.code, challenge |-> new.challenge, redirect |-> new.redirect,
        at |-> new.expires_at - Lifetime] = login
  BY <1>3
<1>11. CodesInv'
  <2>1. ASSUME NEW j \in Slots, g_codes'[j].expires_at # 0
        PROVE  /\ g_codes'[j].code \notin spent'
               /\ [code |-> g_codes'[j].code, challenge |-> g_codes'[j].challenge,
                   redirect |-> g_codes'[j].redirect, at |-> g_codes'[j].expires_at - Lifetime]
                     \in issued'
               /\ g_codes'[j].expires_at >= Lifetime
    <3>1. CASE j = i
      BY <1>1, <1>3, <1>7, <1>9, <1>10, <3>1
    <3>2. CASE j # i
      BY <1>1, <1>7, <2>1, <3>2 DEF CodesInv
    <3> QED
      BY <3>1, <3>2
  <2>2. ASSUME NEW j \in Slots, g_codes'[j].expires_at # 0,
               NEW k \in Slots, g_codes'[k].expires_at # 0, g_codes'[k].code = g_codes'[j].code
        PROVE  j = k
    <3>1. CASE j = i
      BY <1>7, <1>8, <2>2, <3>1
    <3>2. CASE k = i
      BY <1>7, <1>8, <2>2, <3>2
    <3>3. CASE j # i /\ k # i
      BY <1>7, <2>2, <3>3 DEF CodesInv
    <3> QED
      BY <3>1, <3>2, <3>3
  <2>3. \A r \in issued' : r.at <= now'
    BY <1>1, <1>3 DEF CodesInv
  <2>4. \A g \in grants' : g.code \in spent'
    BY <1>1 DEF CodesInv
  <2>5. spent' \subseteq {r.code : r \in issued'}
    BY <1>1 DEF CodesInv
  <2> QED
    BY <2>1, <2>2, <2>3, <2>4, <2>5 DEF CodesInv
<1> QED
  BY <1>5, <1>6, <1>11

LEMMA TakeStep ==
    ASSUME CodesTypeOK, CodesInv, NEW code \in Codes, NEW i \in Slots, code_take(code, i)
    PROVE  /\ CodesTypeOK'
           /\ code \notin spent /\ spent' = spent \cup {code} /\ issued' = issued
           /\ g_codes[i].expires_at # 0 /\ g_codes[i].expires_at >= now
           /\ g_codes[i].code = code
           /\ UNCHANGED grants => CodesInv'
           /\ (\A g \in grants' : g \in grants \/ g.code = code) => CodesInv'
<1>1. /\ g_codes[i].expires_at # 0 /\ g_codes[i].expires_at >= now
      /\ g_codes[i].code = code
      /\ g_codes' = [g_codes EXCEPT ![i].expires_at = 0]
      /\ spent' = spent \cup {code} /\ now' = now /\ issued' = issued
  BY DEF code_take, Live
<1>2. /\ g_codes'[i].expires_at = 0
      /\ \A j \in Slots \ {i} : g_codes'[j] = g_codes[j]
      /\ g_codes' \in [Slots -> AuthCode]
  BY <1>1 DEF CodesTypeOK, AuthCode
<1>3. CodesTypeOK'
  BY <1>1, <1>2 DEF CodesTypeOK
<1>4. code \notin spent
  BY <1>1 DEF CodesInv
<1>5. ASSUME \A g \in grants' : g \in grants \/ g.code = code PROVE CodesInv'
  <2>1. ASSUME NEW j \in Slots, g_codes'[j].expires_at # 0 PROVE j # i /\ g_codes'[j] = g_codes[j]
    BY <1>2, <2>1
  <2>2. ASSUME NEW j \in Slots, g_codes'[j].expires_at # 0 PROVE g_codes'[j].code # code
    BY <1>1, <2>1, <2>2 DEF CodesInv
  <2>3. code \in {r.code : r \in issued}
    BY <1>1, SlotLogin
  <2>4. \A g \in grants' : g.code \in spent'
    BY <1>1, <1>5 DEF CodesInv
  <2> QED
    BY <1>1, <2>1, <2>2, <2>3, <2>4 DEF CodesInv
<1> QED
  BY <1>1, <1>3, <1>4, <1>5

LEMMA TokenRequestStep ==
    ASSUME CodesTypeOK, CodesInv, GrantsInv,
           NEW code \in Codes, NEW verifier \in Challenges, NEW redirect \in Redirects \cup {NoCode},
           handle_token(code, verifier, redirect)
    PROVE  CodesTypeOK' /\ CodesInv' /\ GrantsInv'
<1>1. PICK i \in Slots :
         /\ code_take(code, i)
         /\ \/ UNCHANGED grants
            \/ /\ Matches(i, verifier, redirect)
               /\ \E token \in Tokens :
                     \/ UNCHANGED grants
                     \/ grants' = grants \cup {[token |-> token, code |-> code,
                                                verifier |-> verifier,
                                                redirect |-> redirect, at |-> now]}
  BY DEF handle_token, historyVars
<1>2. /\ CodesTypeOK'
      /\ code \notin spent /\ spent' = spent \cup {code} /\ issued' = issued
      /\ g_codes[i].expires_at # 0 /\ g_codes[i].expires_at >= now
      /\ g_codes[i].code = code
      /\ UNCHANGED grants => CodesInv'
      /\ (\A g \in grants' : g \in grants \/ g.code = code) => CodesInv'
  BY <1>1, TakeStep
<1>3. CASE UNCHANGED grants
  BY <1>2, <1>3 DEF GrantsInv, OneTokenPerLogin, GrantsMatchLogins
<1>4. ASSUME Matches(i, verifier, redirect), NEW token \in Tokens,
             grants' = grants \cup {[token |-> token, code |-> code, verifier |-> verifier,
                                     redirect |-> redirect, at |-> now]}
      PROVE  CodesTypeOK' /\ CodesInv' /\ GrantsInv'
  <2> DEFINE new == [token |-> token, code |-> code, verifier |-> verifier,
                     redirect |-> redirect, at |-> now]
  <2>1. CodesInv'
    BY <1>2, <1>4
  <2>2. now \in Nat /\ Lifetime \in Nat /\ new \in Grant
    BY AuthCodesAssumption DEF CodesTypeOK, Grant
  <2>3. OneTokenPerLogin'
    BY <1>2, <1>4 DEF OneTokenPerLogin, CodesInv, GrantsInv
  <2>4. PICK r \in issued : /\ r.code = g_codes[i].code
                            /\ r.challenge = g_codes[i].challenge
                            /\ r.redirect = g_codes[i].redirect
                            /\ r.at = g_codes[i].expires_at - Lifetime
    BY <1>2, SlotLogin
  <2>5. r.at \in Nat /\ r.at <= now /\ g_codes[i].expires_at \in Nat
    BY <2>4 DEF CodesTypeOK, Login, CodesInv, AuthCode
  <2>6. now \in r.at..(r.at + Lifetime)
    BY <1>2, <2>2, <2>4, <2>5
  <2>7. GrantsMatchLogins'
    <3>1. /\ r \in issued' /\ r.code = new.code /\ r.challenge = new.verifier
          /\ new.redirect \in {r.redirect, NoCode} /\ new.at \in r.at..(r.at + Lifetime)
      BY <1>2, <1>4, <2>4, <2>6 DEF Matches
    <3> QED
      BY <1>2, <1>4, <3>1 DEF GrantsMatchLogins, GrantsInv
  <2> QED
    BY <1>2, <1>4, <2>1, <2>2, <2>3, <2>7 DEF GrantsInv
<1> QED
  BY <1>1, <1>3, <1>4

LEMMA CodesStep ==
    ASSUME IInv, [Next]_vars
    PROVE  CodesTypeOK' /\ CodesInv' /\ GrantsInv'
<1> USE DEF IInv, TypeOK
<1>0. GrantsInv
  BY DEF GrantsInv, HistoryTypeOK
<1>1. ASSUME UNCHANGED <<codesVars, grants>>
      PROVE  CodesTypeOK' /\ CodesInv' /\ GrantsInv'
  BY <1>0, <1>1 DEF codesVars, CodesTypeOK, CodesInv, GrantsInv, OneTokenPerLogin, GrantsMatchLogins
<1>2. ASSUME NEW token, Request(token) \/ tool_revoke_token(token)
      PROVE  CodesTypeOK' /\ CodesInv' /\ GrantsInv'
  BY <1>1, <1>2 DEF Request, tool_revoke_token, historyVars
<1>3. ASSUME NEW code \in Codes, NEW challenge \in Challenges, NEW redirect \in Redirects,
             handle_authorize_post(code, challenge, redirect)
      PROVE  CodesTypeOK' /\ CodesInv' /\ GrantsInv'
  BY <1>0, <1>3, CreateStep DEF handle_authorize_post, historyVars
<1>4. ASSUME NEW code \in Codes, NEW verifier \in Challenges,
             NEW redirect \in Redirects \cup {NoCode}, handle_token(code, verifier, redirect)
      PROVE  CodesTypeOK' /\ CodesInv' /\ GrantsInv'
  BY <1>0, <1>4, TokenRequestStep
<1>5. CASE tool_create_token \/ RevokeCopy \/ RevokeRemove \/ RevokeRename
  BY <1>1, <1>5 DEF tool_create_token, RevokeCopy, RevokeRemove, RevokeRename, historyVars
<1>6. CASE Restart
  <2>1. /\ g_codes' = [i \in Slots |-> FreeSlot]
        /\ spent' = spent \cup {r.code : r \in issued}
        /\ UNCHANGED <<now, issued, grants>>
    BY <1>6 DEF Restart, CodesRestart, historyVars
  <2>2. g_codes' \in [Slots -> AuthCode] /\ \A i \in Slots : g_codes'[i].expires_at = 0
    BY <2>1 DEF FreeSlot, AuthCode
  <2>3. {r.code : r \in issued} \subseteq Codes
    BY DEF CodesTypeOK, Login
  <2>4. CodesTypeOK'
    BY <2>1, <2>2, <2>3 DEF CodesTypeOK
  <2>5. CodesInv'
    BY <2>1, <2>2 DEF CodesInv
  <2>6. GrantsInv'
    BY <1>0, <2>1 DEF GrantsInv, OneTokenPerLogin, GrantsMatchLogins
  <2> QED
    BY <2>4, <2>5, <2>6
<1>7. CASE OwnerDeletesLine \/ OwnerAddsLine
  BY <1>1, <1>7 DEF OwnerDeletesLine, OwnerAddsLine
<1>8. CASE SecondPasses
  <2>1. now' = now + 1 /\ now < MaxNow /\ UNCHANGED <<g_codes, issued, spent, grants>>
    BY <1>8 DEF SecondPasses, Tick, historyVars
  <2>2. CodesTypeOK'
    BY <2>1, AuthCodesAssumption DEF CodesTypeOK
  <2>3. \A r \in issued' : r.at <= now'
    BY <2>1 DEF CodesInv, CodesTypeOK, Login
  <2>4. CodesInv'
    BY <2>1, <2>3 DEF CodesInv
  <2>5. GrantsInv'
    BY <1>0, <2>1 DEF GrantsInv, OneTokenPerLogin, GrantsMatchLogins
  <2> QED
    BY <2>2, <2>4, <2>5
<1>9. CASE UNCHANGED vars
  BY <1>1, <1>9 DEF vars, historyVars
<1> QED
  BY ONLY [Next]_vars, <1>2, <1>3, <1>4, <1>5, <1>6, <1>7, <1>8, <1>9 DEF Next

LEMMA PlaceStep ==
    ASSUME IInv, [Next]_vars
    PROVE  /\ pc' \in {"idle", "copy", "remove", "rename"}
           /\ target' \in Tokens \cup {Junk}
           /\ edits' \in 0..MaxEdits
BY OAuthAssumption
   DEF IInv, TypeOK, HistoryTypeOK, Next, vars, Request, tool_revoke_token, handle_authorize_post,
       handle_token, tool_create_token, RevokeCopy, RevokeRemove, RevokeRename, Restart,
       OwnerDeletesLine, OwnerAddsLine, SecondPasses

-----------------------------------------------------------------------------
(* Theorems *)

LEMMA InitIInv == ASSUME Init PROVE IInv
<1>1. StoreTypeOK
  BY TokenStoreAssumption, NoFileOK DEF Init, StoreInit, StoreTypeOK
<1>2. CodesTypeOK
  BY AuthCodesAssumption DEF Init, CodesInit, CodesTypeOK, FreeSlot, AuthCode
<1>3. HistoryTypeOK
  BY OAuthAssumption DEF Init, HistoryTypeOK
<1>4. RevokedInv
  BY NoFileOK DEF Init, StoreInit, RevokedInv
<1>5. CodesInv
  BY DEF Init, CodesInit, CodesInv, FreeSlot
<1>6. OneTokenPerLogin /\ GrantsMatchLogins
  BY DEF Init, OneTokenPerLogin, GrantsMatchLogins
<1> QED
  BY <1>1, <1>2, <1>3, <1>4, <1>5, <1>6 DEF IInv, TypeOK

\* The inductive invariant of the token store and the codes holds throughout.
THEOREM Invariance == Spec => []IInv
<1>1. Init => IInv
  BY InitIInv
<1>2. IInv /\ [Next]_vars => IInv'
  <2> SUFFICES ASSUME IInv, [Next]_vars PROVE IInv'
    OBVIOUS
  <2>1. StoreTypeOK' /\ MintedHistory' /\ RevokedInv'
    BY StoreStep
  <2>2. CodesTypeOK' /\ CodesInv' /\ GrantsInv'
    BY CodesStep
  <2>3. HistoryTypeOK'
    BY <2>1, <2>2, PlaceStep DEF HistoryTypeOK, MintedHistory, GrantsInv
  <2> QED
    BY <2>1, <2>2, <2>3 DEF IInv, TypeOK, GrantsInv
<1> QED
  BY <1>1, <1>2, PTL DEF Spec

\* Type correctness; g_token_count never passes the end of the table g_tokens.
THEOREM TypeCorrect == Spec => []TypeOK
<1>1. IInv => TypeOK
  BY DEF IInv
<1> QED
  BY <1>1, Invariance, PTL

\* A confirmed revocation by oauth_revoke_token is final.
THEOREM RevocationIsFinal == Spec => []RevokedStaysRevoked
<1>1. IInv => RevokedStaysRevoked
  BY LoadedTokens DEF IInv, RevokedInv, RevokedStaysRevoked, Accepts
<1> QED
  BY <1>1, Invariance, PTL

\* One login yields at most one token.
THEOREM LoginsGrantOnce == Spec => []OneTokenPerLogin
<1>1. IInv => OneTokenPerLogin
  BY DEF IInv
<1> QED
  BY <1>1, Invariance, PTL

\* Every token of the token endpoint answers a matching login in its lifetime.
THEOREM GrantsAnswerLogins == Spec => []GrantsMatchLogins
<1>1. IInv => GrantsMatchLogins
  BY DEF IInv
<1> QED
  BY <1>1, Invariance, PTL

-----------------------------------------------------------------------------
(* A full table gives up its oldest code only *)

Newer(r) == {q \in issued : q.code # r.code /\ q.at >= r.at}
StillThere(r) ==
    \/ r.code \in spent
    \/ r.at + Lifetime < now
    \/ Known(r.code)
    \/ Cardinality(Newer(r)) >= MaxAuthCodes
CodesRight == CodesTypeOK /\ CodesInv /\ LoginsInv

\* A login that counts as newer does so ever after.
LEMMA NewerGrows ==
    ASSUME IsFiniteSet(issued'), issued \subseteq issued', NEW r,
           Cardinality(Newer(r)) >= MaxAuthCodes
    PROVE  Cardinality(Newer(r)') >= MaxAuthCodes
<1>1. Newer(r) \subseteq Newer(r)' /\ Newer(r)' \subseteq issued'
  BY DEF Newer
<1>2. IsFiniteSet(Newer(r)')
  BY <1>1, FS_Subset
<1>3. IsFiniteSet(Newer(r)) /\ Cardinality(Newer(r)) <= Cardinality(Newer(r)')
  BY <1>1, <1>2, FS_Subset
<1>4. Cardinality(Newer(r)) \in Nat /\ Cardinality(Newer(r)') \in Nat
  BY <1>2, <1>3, FS_CardinalityType
<1> QED
  BY <1>3, <1>4, AuthCodesAssumption

\* A slot that holds a login's code runs out when the login does.
LEMMA SlotDeadline ==
    ASSUME CodesRight, NEW r \in issued, NEW i \in Slots,
           g_codes[i].expires_at # 0, g_codes[i].code = r.code
    PROVE  r.at \in Nat /\ g_codes[i].expires_at = r.at + Lifetime
<1>1. PICK q \in issued : q.code = g_codes[i].code /\ q.at = g_codes[i].expires_at - Lifetime
  BY SlotLogin DEF CodesRight
<1>2. q = r
  BY <1>1 DEF CodesRight, LoginsInv
<1>3. g_codes[i].expires_at \in Nat /\ Lifetime \in Nat /\ r.at \in Nat
  BY AuthCodesAssumption DEF CodesRight, CodesTypeOK, AuthCode, Login
<1> QED
  BY <1>1, <1>2, <1>3

\* The codes of a full table belong to as many logins, none of them older.
LEMMA FullTable ==
    ASSUME CodesRight, CodesRight', issued \subseteq issued', NEW r \in issued,
           \A j \in Slots : /\ g_codes'[j].expires_at # 0
                            /\ g_codes'[j].expires_at >= r.at + Lifetime
                            /\ g_codes'[j].code # r.code
    PROVE  Cardinality(Newer(r)') >= MaxAuthCodes
<1> DEFINE f == [j \in Slots |-> [code |-> g_codes'[j].code, challenge |-> g_codes'[j].challenge,
                   redirect |-> g_codes'[j].redirect, at |-> g_codes'[j].expires_at - Lifetime]]
<1>1. r.at \in Nat /\ Lifetime \in Nat /\ \A j \in Slots : g_codes'[j].expires_at \in Nat
  BY AuthCodesAssumption DEF CodesRight, CodesTypeOK, Login, AuthCode
<1>2. ASSUME NEW j \in Slots PROVE f[j] \in Newer(r)' /\ f[j].code = g_codes'[j].code
  <2>1. f[j] \in issued'
    BY DEF CodesRight, CodesInv
  <2>2. f[j].code = g_codes'[j].code /\ f[j].at = g_codes'[j].expires_at - Lifetime
    OBVIOUS
  <2>3. f[j].at >= r.at /\ f[j].code # r.code
    BY <1>1, <2>2
  <2> QED
    BY <2>1, <2>2, <2>3 DEF Newer
<1>3. ASSUME NEW j \in Slots, NEW k \in Slots, f[j] = f[k] PROVE j = k
  <2>1. g_codes'[j].code = g_codes'[k].code
    BY <1>2, <1>3
  <2> QED
    BY <2>1 DEF CodesRight, CodesInv
<1>4. f \in Injection(Slots, Newer(r)')
  <2>1. f \in [Slots -> Newer(r)']
    BY <1>2
  <2> HIDE DEF f
  <2> QED
    BY <2>1, <1>3 DEF Injection, IsInjective
<1>5. IsFiniteSet(Newer(r)')
  <2>1. Newer(r)' \subseteq issued' /\ IsFiniteSet(issued')
    BY DEF Newer, CodesRight, LoginsInv
  <2> QED
    BY <2>1, FS_Subset
<1> HIDE DEF f
<1>6. Cardinality(Slots) <= Cardinality(Newer(r)')
  BY <1>4, <1>5, FS_Injection
<1>7. Cardinality(Slots) = MaxAuthCodes
  BY AuthCodesAssumption, FS_Interval DEF Slots
<1>8. Cardinality(Newer(r)') \in Nat
  BY <1>5, FS_CardinalityType
<1> QED
  BY <1>6, <1>7, <1>8, AuthCodesAssumption

LEMMA CreateKeepsCodes ==
    ASSUME CodesRight, CodesTypeOK', CodesInv', \A r \in issued : StillThere(r),
           NEW code \in Codes, NEW challenge \in Challenges, NEW redirect \in Redirects,
           code_create(code, challenge, redirect)
    PROVE  LoginsInv' /\ \A r \in issued' : StillThere(r)'
<1> DEFINE new == [code |-> code, challenge |-> challenge, redirect |-> redirect,
                   expires_at |-> now + Lifetime]
<1>0. PICK p, login :
        /\ p = PickedSlot
        /\ login = [code |-> code, challenge |-> challenge, redirect |-> redirect, at |-> now]
  OBVIOUS
<1>1. /\ code \notin {r.code : r \in issued}
      /\ g_codes' = [g_codes EXCEPT ![p] = new]
      /\ issued' = issued \cup {login}
      /\ now' = now /\ spent' = spent
  BY <1>0 DEF code_create
<1>2. p \in Slots
  BY <1>0, PickedSlotType DEF CodesRight
<1>3. now \in Nat /\ Lifetime \in Nat \ {0} /\ now + Lifetime \in Nat \ {0}
  BY AuthCodesAssumption DEF CodesRight, CodesTypeOK
<1>4. /\ g_codes'[p].code = code /\ g_codes'[p].expires_at = now + Lifetime
      /\ \A j \in Slots \ {p} : g_codes'[j] = g_codes[j]
  BY <1>1, <1>2 DEF CodesRight, CodesTypeOK
<1>5. login.code = code
  BY <1>0
<1>6. IsFiniteSet(issued')
  BY <1>1, FS_AddElement DEF CodesRight, LoginsInv
<1>7. LoginsInv'
  <2>1. \A q, r \in issued' : q.code = r.code => q = r
    BY <1>1, <1>5 DEF CodesRight, LoginsInv
  <2> QED
    BY <1>6, <2>1 DEF LoginsInv
<1>8. CodesRight'
  BY <1>7 DEF CodesRight
<1>9. Live(p)'
  BY <1>1, <1>3, <1>4 DEF Live
<1>10. StillThere(login)'
  BY <1>2, <1>4, <1>5, <1>9 DEF StillThere, Known
<1>11. ASSUME NEW r \in issued PROVE StillThere(r)'
  <2>1. r.code # code
    BY <1>1
  <2>2. CASE r.code \in spent \/ r.at + Lifetime < now
    BY <1>1, <2>2 DEF StillThere
  <2>3. CASE Cardinality(Newer(r)) >= MaxAuthCodes
    BY <1>1, <1>6, <2>3, NewerGrows DEF StillThere
  <2>4. CASE Known(r.code)
    <3>1. PICK i \in Slots : Live(i) /\ g_codes[i].code = r.code
      BY <2>4 DEF Known
    <3>2. CASE i # p
      <4>1. g_codes'[i] = g_codes[i]
        BY <1>4, <3>2
      <4>2. Live(i)' /\ g_codes'[i].code = r.code
        BY <1>1, <3>1, <4>1 DEF Live
      <4> QED
        BY <4>2 DEF StillThere, Known
    <3>3. CASE i = p
      <4>1. \A j \in Slots : g_codes[j].expires_at # 0
                             /\ g_codes[i].expires_at <= g_codes[j].expires_at
        BY <1>0, <3>1, <3>3, PickedSlotType DEF CodesRight
      <4>2. r.at \in Nat /\ g_codes[i].expires_at = r.at + Lifetime
        BY <3>1, SlotDeadline DEF Live
      <4>3. r.at <= now
        BY DEF CodesRight, CodesInv
      <4>4. \A j \in Slots : g_codes[j].expires_at \in Nat
        BY DEF CodesRight, CodesTypeOK, AuthCode
      <4>5. ASSUME NEW j \in Slots
            PROVE  /\ g_codes'[j].expires_at # 0
                   /\ g_codes'[j].expires_at >= r.at + Lifetime
                   /\ g_codes'[j].code # r.code
        <5>1. CASE j = p
          BY <1>3, <1>4, <2>1, <4>2, <4>3, <5>1
        <5>2. CASE j # p
          <6>1. g_codes'[j] = g_codes[j]
            BY <1>4, <5>2
          <6>2. g_codes[j].code # r.code
            BY <3>1, <3>3, <4>1, <5>2 DEF CodesRight, CodesInv, Live
          <6>3. g_codes[j].expires_at >= r.at + Lifetime
            BY <1>3, <4>1, <4>2, <4>4
          <6> QED
            BY <4>1, <6>1, <6>2, <6>3
        <5> QED
          BY <5>1, <5>2
      <4>6. issued \subseteq issued'
        BY <1>1
      <4>7. Cardinality(Newer(r)') >= MaxAuthCodes
        BY <1>8, <4>5, <4>6, FullTable
      <4> QED
        BY <4>7 DEF StillThere
    <3> QED
      BY <3>2, <3>3
  <2> QED
    BY <2>2, <2>3, <2>4 DEF StillThere
<1> QED
  BY <1>1, <1>7, <1>10, <1>11

LEMMA TakeKeepsCodes ==
    ASSUME CodesRight, \A r \in issued : StillThere(r),
           NEW code \in Codes, NEW i \in Slots, code_take(code, i)
    PROVE  LoginsInv' /\ \A r \in issued' : StillThere(r)'
<1>1. /\ g_codes[i].code = code
      /\ g_codes' = [g_codes EXCEPT ![i].expires_at = 0]
      /\ spent' = spent \cup {code} /\ now' = now /\ issued' = issued
  BY DEF code_take
<1>2. \A j \in Slots \ {i} : g_codes'[j] = g_codes[j]
  BY <1>1 DEF CodesRight, CodesTypeOK
<1>3. LoginsInv'
  BY <1>1 DEF CodesRight, LoginsInv
<1>4. ASSUME NEW r \in issued PROVE StillThere(r)'
  <2>1. CASE r.code \in spent \/ r.at + Lifetime < now
    BY <1>1, <2>1 DEF StillThere
  <2>2. CASE Cardinality(Newer(r)) >= MaxAuthCodes
    BY <1>1, <2>2 DEF StillThere, Newer
  <2>3. CASE Known(r.code)
    <3>1. PICK j \in Slots : Live(j) /\ g_codes[j].code = r.code
      BY <2>3 DEF Known
    <3>2. CASE j = i
      BY <1>1, <3>1, <3>2 DEF StillThere
    <3>3. CASE j # i
      <4>1. g_codes'[j] = g_codes[j]
        BY <1>2, <3>3
      <4>2. Live(j)' /\ g_codes'[j].code = r.code
        BY <1>1, <3>1, <4>1 DEF Live
      <4> QED
        BY <4>2 DEF StillThere, Known
    <3> QED
      BY <3>2, <3>3
  <2> QED
    BY <2>1, <2>2, <2>3 DEF StillThere
<1> QED
  BY <1>1, <1>3, <1>4

LEMMA TickKeepsCodes ==
    ASSUME CodesRight, \A r \in issued : StillThere(r), Tick
    PROVE  LoginsInv' /\ \A r \in issued' : StillThere(r)'
<1>1. now' = now + 1 /\ g_codes' = g_codes /\ issued' = issued /\ spent' = spent
  BY DEF Tick
<1>2. now \in Nat /\ Lifetime \in Nat
  BY AuthCodesAssumption DEF CodesRight, CodesTypeOK
<1>3. LoginsInv'
  BY <1>1 DEF CodesRight, LoginsInv
<1>4. ASSUME NEW r \in issued PROVE StillThere(r)'
  <2>0. r.at \in Nat
    BY DEF CodesRight, CodesTypeOK, Login
  <2>1. CASE r.code \in spent \/ r.at + Lifetime < now
    BY <1>1, <1>2, <2>0, <2>1 DEF StillThere
  <2>2. CASE Cardinality(Newer(r)) >= MaxAuthCodes
    BY <1>1, <2>2 DEF StillThere, Newer
  <2>3. CASE Known(r.code)
    <3>1. PICK j \in Slots : Live(j) /\ g_codes[j].code = r.code
      BY <2>3 DEF Known
    <3>2. g_codes[j].expires_at = r.at + Lifetime
      BY <3>1, SlotDeadline DEF Live
    <3>3. CASE r.at + Lifetime < now'
      BY <1>1, <3>3 DEF StillThere
    <3>4. CASE ~(r.at + Lifetime < now')
      <4>1. g_codes[j].expires_at >= now'
        BY <1>1, <1>2, <2>0, <3>2, <3>4
      <4>2. Live(j)'
        BY <1>1, <3>1, <4>1 DEF Live
      <4> QED
        BY <1>1, <3>1, <4>2 DEF StillThere, Known
    <3> QED
      BY <3>3, <3>4
  <2> QED
    BY <2>1, <2>2, <2>3 DEF StillThere
<1> QED
  BY <1>1, <1>3, <1>4

LEMMA KeepsCodes ==
    ASSUME IInv, LoginsInv, LiveCodeLostOnlyToNewer, [Next]_vars
    PROVE  LoginsInv' /\ LiveCodeLostOnlyToNewer'
<1>1. CodesRight /\ CodesTypeOK' /\ CodesInv'
  BY CodesStep DEF CodesRight, IInv, TypeOK
<1>2. \A r \in issued : StillThere(r)
  BY DEF LiveCodeLostOnlyToNewer, StillThere, Newer
<1>3. \/ UNCHANGED codesVars
      \/ \E code \in Codes, challenge \in Challenges, redirect \in Redirects :
            code_create(code, challenge, redirect)
      \/ \E code \in Codes, i \in Slots : code_take(code, i)
      \/ CodesRestart
      \/ Tick
  BY DEF Next, vars, Request, tool_revoke_token, handle_authorize_post, handle_token,
         tool_create_token, RevokeCopy, RevokeRemove, RevokeRename, Restart,
         OwnerDeletesLine, OwnerAddsLine, SecondPasses
<1>4. LoginsInv' /\ \A r \in issued' : StillThere(r)'
  <2>1. CASE UNCHANGED codesVars
    BY <1>2, <2>1 DEF codesVars, LoginsInv, StillThere, Known, Live, Newer
  <2>2. CASE CodesRestart
    <3>1. spent' = spent \cup {r.code : r \in issued} /\ issued' = issued
      BY <2>2 DEF CodesRestart
    <3> QED
      BY <3>1 DEF StillThere, LoginsInv
  <2> QED
    BY <1>1, <1>2, <1>3, <2>1, <2>2, CreateKeepsCodes, TakeKeepsCodes, TickKeepsCodes
<1> QED
  BY <1>4 DEF LiveCodeLostOnlyToNewer, StillThere, Newer

\* code_create overwrites a code before its deadline only when MaxAuthCodes
\* logins no older than it came after: for any table, lifetime and time.
THEOREM CodesLostToNewer == Spec => []LiveCodeLostOnlyToNewer
<1>1. Init => LoginsInv /\ LiveCodeLostOnlyToNewer
  BY FS_EmptySet DEF Init, CodesInit, LoginsInv, LiveCodeLostOnlyToNewer
<1>2. IInv /\ LoginsInv /\ LiveCodeLostOnlyToNewer /\ [Next]_vars
        => LoginsInv' /\ LiveCodeLostOnlyToNewer'
  BY KeepsCodes
<1> QED
  BY <1>1, <1>2, Invariance, PTL DEF Spec

-----------------------------------------------------------------------------
(* Memory and file agree while nothing disturbs them *)

\* A table that is not full has every token of the file.
LEMMA NotFullHasAll ==
    ASSUME NEW f \in File, Numbered(f), Cardinality(LoadedLines(f)) < MaxTokens
    PROVE  LoadedLines(f) = TokenLines(f)
<1> DEFINE T == TokenLines(f)
           L == LoadedLines(f)
           missing == {l.no : l \in T \ L}
<1>1. IsFiniteSet(T) /\ L \subseteq T
  BY FS_Subset DEF Numbered, TokenLines, LoadedLines
<1>2. IsFiniteSet(L) /\ Cardinality(L) \in Nat
  BY <1>1, FS_Subset, FS_CardinalityType
<1>3. \A l \in T : l \in f.lines /\ l.no \in Nat
  BY DEF TokenLines, File, Line
<1>4. SUFFICES ASSUME T \ L # {} PROVE FALSE
  BY <1>1
<1>5. PICK n \in missing : \A k \in missing : n <= k
  <2>1. missing \in SUBSET Nat /\ missing # {}
    BY <1>3, <1>4
  <2> QED
    BY <2>1, LeastNatural
<1>6. PICK l \in T \ L : n = l.no
  BY <1>5
<1> DEFINE upto == {k \in T : k.no <= l.no}
<1>7. upto \subseteq L \cup {l}
  <2> SUFFICES ASSUME NEW k \in T, k.no <= l.no, k \notin L PROVE k = l
    OBVIOUS
  <2>1. l.no <= k.no
    BY <1>5, <1>6
  <2>2. k.no = l.no
    BY <1>3, <1>6, <2>1
  <2> QED
    BY <1>3, <1>6, <2>2 DEF Numbered
<1>8. IsFiniteSet(L \cup {l}) /\ Cardinality(L \cup {l}) = Cardinality(L) + 1
  BY <1>2, <1>6, FS_AddElement
<1>9. Cardinality(upto) <= Cardinality(L) + 1 /\ Cardinality(upto) \in Nat
  BY <1>7, <1>8, FS_Subset, FS_CardinalityType
<1>10. Cardinality(upto) <= MaxTokens
  BY <1>2, <1>9, TokenStoreAssumption
<1>11. l \in L
  BY <1>6, <1>10 DEF LoadedLines
<1> QED
  BY <1>6, <1>11

\* A token written at the end of the file is loaded exactly when the table
\* was not full, and nothing else of the table changes.
LEMMA AppendedLoads ==
    ASSUME NEW f \in File, Numbered(f), NEW new, new.no = f.next, new.tok \in Tokens,
           NEW g, g.lines = f.lines \cup {new}
    PROVE  LoadedLines(g) = IF Cardinality(LoadedLines(f)) < MaxTokens
                            THEN LoadedLines(f) \cup {new} ELSE LoadedLines(f)
<1> DEFINE Upto(h, l) == {k \in TokenLines(h) : k.no <= l.no}
<1>1. g.lines = f.lines \cup {new} /\ new.no = f.next
  OBVIOUS
<1>2. TokenLines(g) = TokenLines(f) \cup {new}
  BY <1>1 DEF TokenLines
<1>3. f.next \in Nat /\ \A l \in TokenLines(f) : l.no \in Nat /\ l.no < f.next
  BY DEF TokenLines, File, Line, Numbered
<1>4. ASSUME NEW l \in TokenLines(f) PROVE l \in LoadedLines(g) <=> l \in LoadedLines(f)
  <2>1. Upto(g, l) = Upto(f, l)
    BY <1>1, <1>2, <1>3
  <2> QED
    BY <1>2, <2>1 DEF LoadedLines
<1>5. new \notin TokenLines(f)
  BY <1>1, <1>3
<1>6. IsFiniteSet(TokenLines(f)) /\ Cardinality(TokenLines(f)) \in Nat
  BY FS_Subset, FS_CardinalityType DEF Numbered, TokenLines
<1>7. Upto(g, new) = TokenLines(f) \cup {new}
  BY <1>1, <1>2, <1>3
<1>8. Cardinality(Upto(g, new)) = Cardinality(TokenLines(f)) + 1
  BY <1>5, <1>6, <1>7, FS_AddElement
<1>9. new \in LoadedLines(g) <=> Cardinality(TokenLines(f)) < MaxTokens
  <2>1. new \in LoadedLines(g) <=> Cardinality(Upto(g, new)) <= MaxTokens
    BY <1>2 DEF LoadedLines
  <2> QED
    BY <1>6, <1>8, <2>1, TokenStoreAssumption
<1>10. Cardinality(TokenLines(f)) < MaxTokens <=> Cardinality(LoadedLines(f)) < MaxTokens
  <2>1. LoadedLines(f) \subseteq TokenLines(f)
    BY DEF LoadedLines
  <2>2. Cardinality(LoadedLines(f)) <= Cardinality(TokenLines(f))
        /\ Cardinality(LoadedLines(f)) \in Nat
    BY <1>6, <2>1, FS_Subset, FS_CardinalityType
  <2>3. Cardinality(LoadedLines(f)) < MaxTokens => LoadedLines(f) = TokenLines(f)
    BY NotFullHasAll
  <2> QED
    BY <1>6, <2>2, <2>3, TokenStoreAssumption
<1>11. LoadedLines(g) \subseteq TokenLines(f) \cup {new} /\ LoadedLines(f) \subseteq TokenLines(f)
  BY <1>2 DEF LoadedLines
<1>12. CASE Cardinality(LoadedLines(f)) < MaxTokens
  <2>1. new \in LoadedLines(g)
    BY <1>9, <1>10, <1>12
  <2> QED
    BY <1>4, <1>5, <1>11, <1>12, <2>1
<1>13. CASE ~(Cardinality(LoadedLines(f)) < MaxTokens)
  <2>1. new \notin LoadedLines(g)
    BY <1>9, <1>10, <1>13
  <2> QED
    BY <1>4, <1>5, <1>11, <1>13, <2>1
<1> QED
  BY <1>12, <1>13

LEMMA NothingLoads == ASSUME NEW f, f.lines = {} PROVE LoadedLines(f) = {}
BY DEF LoadedLines, TokenLines

LEMMA AppendAgrees ==
    ASSUME IInv, Agrees, pc = "idle", pc' = "idle", faults = 0, faults' = 0,
           NEW token \in Tokens, NEW ok \in BOOLEAN, tokens_append(token, ok)
    PROVE  Agrees'
<1>1. ok
  BY DEF tokens_append, Fault
<1>2. PICK m \in 1..MaxClock :
         tokens_txt' \in Appended(tokens_txt, token, m) /\ g_tokens_mtime' = m
  BY <1>1 DEF tokens_append
<1>3. PICK new : new = [no |-> tokens_txt.next, tok |-> token]
  OBVIOUS
<1>4. new.no = tokens_txt.next /\ new.tok = token
  BY <1>3
<1>5. /\ tokens_txt'.lines = tokens_txt.lines \cup {new}
      /\ tokens_txt'.ends = TRUE /\ tokens_txt'.mtime = m
  BY <1>2, <1>3 DEF Appended, Agrees
<1>6. tokens_txt \in File /\ Numbered(tokens_txt)
  BY DEF IInv, TypeOK, StoreTypeOK, RevokedInv
<1> DEFINE L == LoadedLines(tokens_txt)
           room == Cardinality(L) < MaxTokens
<1>7. LoadedLines(tokens_txt') = IF room THEN L \cup {new} ELSE L
  BY <1>4, <1>5, <1>6, AppendedLoads
<1>8. /\ g_tokens = {l.tok : l \in L} /\ g_token_count = Cardinality(L)
      /\ g_tokens' = (IF room THEN g_tokens \cup {token} ELSE g_tokens)
      /\ g_token_count' = (IF room THEN g_token_count + 1 ELSE g_token_count)
  BY <1>1 DEF tokens_append, Agrees
<1>9. IsFiniteSet(L) /\ new \notin L
  <2>1. L \subseteq tokens_txt.lines
    BY DEF LoadedLines, TokenLines
  <2>2. \A l \in tokens_txt.lines : l.no < tokens_txt.next /\ l.no \in Nat
    BY <1>6 DEF Numbered, File, Line
  <2>3. new \notin L
    BY <1>4, <2>1, <2>2
  <2> QED
    BY <1>6, <2>1, <2>3, FS_Subset DEF Numbered
<1>10. Cardinality(L \cup {new}) = Cardinality(L) + 1
  BY <1>9, FS_AddElement
<1> HIDE DEF L
<1>11. g_tokens' = {l.tok : l \in LoadedLines(tokens_txt')}
  BY <1>4, <1>7, <1>8
<1>12. g_token_count' = Cardinality(LoadedLines(tokens_txt'))
  BY <1>7, <1>8, <1>10
<1>13. m # 0
  BY TokenStoreAssumption
<1> QED
  BY <1>2, <1>5, <1>11, <1>12, <1>13 DEF Agrees

\* tokens_load without a failed read.
LEMMA LoadAgrees ==
    ASSUME NEW f, NEW known, tokens_load(f, known), faults = 0, faults' = 0
    PROVE  /\ g_tokens_mtime' = IF f.mtime # 0 THEN f.mtime ELSE known
           /\ g_tokens' = {l.tok : l \in LoadedLines(f)}
           /\ g_token_count' = Cardinality(LoadedLines(f))
BY DEF tokens_load, Fault

LEMMA RequestAgrees ==
    ASSUME IInv, Agrees, NEW token \in Tokens, Request(token) \/ tool_revoke_token(token)
    PROVE  Agrees'
<1>1. pc = "idle" /\ tokens_refresh /\ UNCHANGED fileVars
  BY DEF Request, tool_revoke_token, oauth_token_valid
<1>2. UNCHANGED memoryVars
  BY <1>1 DEF tokens_refresh, Agrees
<1>3. pc' = "idle" \/ (pc' = "copy" /\ token \in g_tokens')
  BY <1>1 DEF Request, tool_revoke_token, oauth_token_valid
<1>4. token \in g_tokens => g_tokens_mtime # 0
  BY <1>1, NothingLoads DEF Agrees
<1> QED
  BY <1>1, <1>2, <1>3, <1>4 DEF Agrees, fileVars, memoryVars

LEMMA RevokeAgrees ==
    ASSUME IInv, Agrees, faults = 0, faults' = 0, RevokeCopy \/ RevokeRemove \/ RevokeRename
    PROVE  Agrees'
<1>1. CASE RevokeCopy
  <2>1. pc = "copy" /\ pc' = "remove" /\ revoke_copy(target)
    BY <1>1 DEF RevokeCopy, Fault
  <2>2. tokens_txt.ends = TRUE
    BY DEF Agrees, IInv, TypeOK, StoreTypeOK, File
  <2>3. (tokens_txt.ends \/ LastLineIs(tokens_txt, target)) = TRUE
    BY <2>2
  <2>4. PICK m \in 1..MaxClock :
          tokens_tmp' = [lines |-> {l \in tokens_txt.lines : l.tok # target},
                         next |-> tokens_txt.next, ends |-> TRUE, mtime |-> m]
    BY <2>1, <2>3 DEF revoke_copy
  <2>5. tokens_tmp'.ends = TRUE /\ tokens_tmp'.mtime = m
    BY <2>4
  <2>6. UNCHANGED <<tokens_txt, memoryVars>>
    BY <2>1 DEF revoke_copy
  <2>7. m # 0
    BY TokenStoreAssumption
  <2> QED
    BY <2>1, <2>5, <2>6, <2>7 DEF Agrees, memoryVars
<1>2. CASE RevokeRemove
  <2>1. pc = "remove" /\ pc' = "rename" /\ tokens_txt' = NoFile /\ UNCHANGED <<tokens_tmp, memoryVars>>
    BY <1>2 DEF RevokeRemove, revoke_remove, Fault
  <2>2. NoFile.ends = TRUE /\ NoFile.lines = {}
    BY DEF NoFile
  <2> QED
    BY <2>1, <2>2 DEF Agrees, memoryVars
<1>3. CASE RevokeRename
  <2>1. /\ pc = "rename" /\ pc' = "idle" /\ tokens_txt' = tokens_tmp
        /\ tokens_load(tokens_tmp, g_tokens_mtime)
    BY <1>3 DEF RevokeRename, revoke_rename, Fault
  <2>2. tokens_tmp.ends /\ tokens_tmp.mtime # 0
    BY <2>1 DEF Agrees
  <2>3. /\ g_tokens_mtime' = tokens_tmp.mtime
        /\ g_tokens' = {l.tok : l \in LoadedLines(tokens_tmp)}
        /\ g_token_count' = Cardinality(LoadedLines(tokens_tmp))
    BY <2>1, <2>2, LoadAgrees
  <2> QED
    BY <2>1, <2>2, <2>3 DEF Agrees
<1> QED
  BY <1>1, <1>2, <1>3

LEMMA RestartAgrees ==
    ASSUME IInv, Agrees, faults = 0, faults' = 0, Restart
    PROVE  Agrees'
<1>1. pc' = "idle" /\ tokens_load(tokens_txt, 0) /\ UNCHANGED fileVars
  BY DEF Restart, oauth_init
<1>2. /\ g_tokens_mtime' = tokens_txt.mtime
      /\ g_tokens' = {l.tok : l \in LoadedLines(tokens_txt)}
      /\ g_token_count' = Cardinality(LoadedLines(tokens_txt))
  BY <1>1, LoadAgrees
<1> QED
  BY <1>1, <1>2 DEF Agrees, fileVars

LEMMA StepAgrees == IInv /\ AgreesInv /\ [Next]_vars => AgreesInv'
<1> SUFFICES ASSUME IInv, AgreesInv, [Next]_vars, edits' = 0, faults' = 0 PROVE Agrees'
  BY DEF AgreesInv, Undisturbed
<1>1. edits \in Nat /\ faults \in Nat
  BY OAuthAssumption, TokenStoreAssumption DEF IInv, TypeOK, StoreTypeOK, HistoryTypeOK
<1>2. CASE OwnerDeletesLine \/ OwnerAddsLine
  BY <1>1, <1>2 DEF OwnerDeletesLine, OwnerAddsLine
<1>3. CASE ~(OwnerDeletesLine \/ OwnerAddsLine)
  <2>1. edits = 0
    BY <1>3 DEF Next, vars, Request, tool_revoke_token, handle_authorize_post, handle_token,
         tool_create_token, RevokeCopy, RevokeRemove, RevokeRename, Restart, SecondPasses
  <2>2. faults' = faults \/ faults' = faults + 1
    BY DEF Next, vars, Request, tool_revoke_token, handle_authorize_post, handle_token,
         tool_create_token, RevokeCopy, RevokeRemove, RevokeRename, Restart, SecondPasses,
         OwnerDeletesLine, OwnerAddsLine, UserDeletes, UserAdds, storeVars, oauth_token_valid,
         tokens_refresh, tokens_load, Fault, oauth_mint_token, tokens_append, revoke_copy,
         revoke_remove, revoke_rename, oauth_init
  <2>3. faults = 0 /\ Agrees
    BY <1>1, <2>1, <2>2 DEF AgreesInv, Undisturbed
  <2>4. CASE UNCHANGED <<storeVars, pc>>
    BY <2>3, <2>4 DEF Agrees, storeVars, fileVars, memoryVars
  <2>5. CASE \E token \in Tokens, ok \in BOOLEAN :
               pc = "idle" /\ pc' = "idle" /\ tokens_append(token, ok)
    BY <2>3, <2>5, AppendAgrees
  <2>6. CASE \E token \in Tokens : Request(token) \/ tool_revoke_token(token)
    BY <2>3, <2>6, RequestAgrees
  <2>7. CASE RevokeCopy \/ RevokeRemove \/ RevokeRename
    BY <2>3, <2>7, RevokeAgrees
  <2>8. CASE Restart
    BY <2>3, <2>8, RestartAgrees
  <2>9. CASE tool_create_token
    BY <2>5, <2>9 DEF tool_create_token, oauth_mint_token
  <2>10. CASE \E code \in Codes, verifier \in Challenges, redirect \in Redirects \cup {NoCode} :
                handle_token(code, verifier, redirect)
    <3>1. PICK code \in Codes, verifier \in Challenges, redirect \in Redirects \cup {NoCode} :
            handle_token(code, verifier, redirect)
      BY <2>10
    <3> QED
      BY <2>4, <2>5, <3>1 DEF handle_token, oauth_mint_token
  <2>11. CASE SecondPasses
    BY <2>4, <2>11 DEF SecondPasses
  <2>12. CASE \E code \in Codes, challenge \in Challenges, redirect \in Redirects :
                handle_authorize_post(code, challenge, redirect)
    BY <2>4, <2>12 DEF handle_authorize_post
  <2>13. CASE UNCHANGED vars
    BY <2>4, <2>13 DEF vars
  <2> QED
    BY <1>3, <2>6, <2>7, <2>8, <2>9, <2>10, <2>11, <2>12, <2>13 DEF Next
<1> QED
  BY <1>2, <1>3

\* While the owner has not edited tokens.txt and no file operation failed, the
\* first MaxTokens tokens of the file are accepted and no others: after any
\* mints, revocations and restarts, power loss inside oauth_revoke_token
\* included, and whatever modification times the writes get.
THEOREM LeftAloneAgrees == Spec => [](Undisturbed => AcceptsFirstTokensOfFile)
<1>1. Init => AgreesInv
  <2>1. NoFile.ends = TRUE /\ NoFile.lines = {} /\ NoFile.mtime = 0
    BY DEF NoFile
  <2>2. LoadedLines(NoFile) = {}
    BY <2>1, NothingLoads
  <2> QED
    BY <2>1, <2>2, FS_EmptySet DEF Init, StoreInit, AgreesInv, Agrees
<1>2. AgreesInv => (Undisturbed => AcceptsFirstTokensOfFile)
  <2> SUFFICES ASSUME Agrees, NEW t \in Tokens
               PROVE  Accepts(t) <=> \E l \in LoadedLines(tokens_txt) : l.tok = t
    BY DEF AgreesInv, AcceptsFirstTokensOfFile
  <2>1. CASE pc = "rename"
    <3>1. tokens_txt.mtime # g_tokens_mtime
      BY <2>1 DEF Agrees, NoFile
    <3> QED
      BY <3>1 DEF Accepts
  <2>2. CASE pc # "rename"
    BY <2>2 DEF Agrees, Accepts
  <2> QED
    BY <2>1, <2>2
<1> QED
  BY <1>1, <1>2, StepAgrees, Invariance, PTL DEF Spec
=============================================================================

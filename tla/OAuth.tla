------------------------------- MODULE OAuth -------------------------------
(***************************************************************************)
(* features/oauth: the browser login, the token endpoint and the MCP tools *)
(* over the token store and the authorization codes.  The server's single  *)
(* thread runs one handler at a time; the SD card's owner edits tokens.txt *)
(* and the console loses power at any moment, also inside a handler.       *)
(*                                                                         *)
(* pc is "idle" or the place inside oauth_revoke_token.  Requests that are *)
(* refused before any state is touched (bad parameters, wrong password,    *)
(* unknown code) are stuttering steps.                                     *)
(***************************************************************************)
EXTENDS TokenStore, AuthCodes

CONSTANT MaxEdits  \* bound: edits of tokens.txt by its owner

ASSUME OAuthAssumption == MaxEdits \in Nat

VARIABLES
    pc,
    target,   \* the token being revoked
    edits,    \* edits so far
    minted,   \* history: tokens ever in use
    revoked,  \* history: tokens whose revocation was confirmed
    kept,     \* history: tokens nobody deleted or asked to revoke
    grants    \* history: tokens the token endpoint issued, and for what

historyVars == <<minted, revoked, kept, grants>>
vars == <<storeVars, codesVars, pc, target, edits, historyVars>>

Grant == [token : Tokens, code : Codes, verifier : Challenges,
          redirect : Redirects \cup {NoCode}, at : Nat]

HistoryTypeOK ==
    /\ pc \in {"idle", "copy", "remove", "rename"}
    /\ target \in Tokens \cup {Junk}
    /\ edits \in 0..MaxEdits
    /\ minted \subseteq Tokens
    /\ revoked \subseteq minted
    /\ kept \subseteq minted
    /\ grants \subseteq Grant

TypeOK == StoreTypeOK /\ CodesTypeOK /\ HistoryTypeOK

Init ==
    /\ StoreInit
    /\ CodesInit
    /\ pc = "idle"
    /\ target = Junk
    /\ edits = 0
    /\ minted = {}
    /\ revoked = {}
    /\ kept = {}
    /\ grants = {}

-----------------------------------------------------------------------------
(* Handlers *)

\* Any authenticated route: the router's token validator.
Request(token) ==
    /\ pc = "idle"
    /\ \E ok \in BOOLEAN : oauth_token_valid(token, ok)
    /\ UNCHANGED <<fileVars, codesVars, pc, target, edits, historyVars>>

oauth_mint_token(token, ok) ==
    /\ token \notin minted
    /\ tokens_append(token, ok)
    /\ minted' = minted \cup {token}
    /\ kept' = IF ok THEN kept \cup {token} ELSE kept
    /\ UNCHANGED revoked

\* Signed in: the code is created, whether or not it then fits the redirect.
handle_authorize_post(code, challenge, redirect) ==
    /\ pc = "idle"
    /\ code_create(code, challenge, redirect)
    /\ UNCHANGED <<storeVars, pc, target, edits, historyVars>>

\* Faulty: the verifier is not compared with the challenge.
Matches_any_verifier(i, verifier, redirect) ==
    redirect = NoCode \/ redirect = g_codes[i].redirect

\* redirect_uri only when it was given, and PKCE.
Matches(i, verifier, redirect) ==
    /\ redirect = NoCode \/ redirect = g_codes[i].redirect
    /\ verifier = g_codes[i].challenge

\* A known code is consumed, also by a request that does not match it.
handle_token(code, verifier, redirect) ==
    /\ pc = "idle"
    /\ \E i \in Slots :
          /\ code_take(code, i)
          /\ \/ /\ ~Matches(i, verifier, redirect)
                /\ UNCHANGED <<storeVars, historyVars>>
             \/ /\ Matches(i, verifier, redirect)
                /\ \E token \in Tokens, ok \in BOOLEAN :
                      /\ oauth_mint_token(token, ok)
                      /\ grants' = IF ok
                                   THEN grants \cup {[token |-> token, code |-> code,
                                                      verifier |-> verifier,
                                                      redirect |-> redirect, at |-> now]}
                                   ELSE grants
    /\ UNCHANGED <<pc, target, edits>>

tool_create_token ==
    /\ pc = "idle"
    /\ \E token \in Tokens, ok \in BOOLEAN : oauth_mint_token(token, ok)
    /\ UNCHANGED <<codesVars, pc, target, edits, grants>>

\* tool_revoke_token, up to the validity check of oauth_revoke_token.
tool_revoke_token(token) ==
    /\ pc = "idle"
    /\ \E ok \in BOOLEAN :
          /\ oauth_token_valid(token, ok)
          /\ pc' = IF ok THEN "copy" ELSE "idle"
          /\ target' = IF ok THEN token ELSE target
    /\ UNCHANGED <<fileVars, codesVars, edits, historyVars>>

\* Either file may fail to open.
RevokeCopy ==
    /\ pc = "copy"
    /\ \/ /\ revoke_copy(target)
          /\ pc' = "remove"
          /\ kept' = kept \ {target}
       \/ /\ Fault
          /\ pc' = "idle"
          /\ UNCHANGED <<fileVars, memoryVars, kept>>
    /\ UNCHANGED <<codesVars, target, edits, minted, revoked, grants>>

RevokeRemove ==
    /\ pc = "remove"
    /\ revoke_remove
    /\ pc' = "rename"
    /\ UNCHANGED <<codesVars, target, edits, historyVars>>

RevokeRename ==
    /\ pc = "rename"
    /\ \E ok \in BOOLEAN :
          /\ revoke_rename(ok)
          /\ revoked' = IF ok THEN revoked \cup {target} ELSE revoked
    /\ pc' = "idle"
    /\ UNCHANGED <<codesVars, target, edits, minted, kept, grants>>

-----------------------------------------------------------------------------
(* Environment *)

\* Power loss or a fatal error at any point, then a new start.
Restart ==
    /\ oauth_init
    /\ CodesRestart
    /\ pc' = "idle"
    /\ UNCHANGED <<target, edits, historyVars>>

OwnerDeletesLine ==
    /\ edits < MaxEdits
    /\ edits' = edits + 1
    /\ \E l \in tokens_txt.lines :
          /\ UserDeletes(l)
          /\ kept' = kept \ {l.tok}
    /\ UNCHANGED <<codesVars, pc, target, minted, revoked, grants>>

\* A line added by hand is a token in use again.
OwnerAddsLine ==
    /\ edits < MaxEdits
    /\ edits' = edits + 1
    /\ \E token \in Tokens, newline \in BOOLEAN :
          /\ UserAdds(token, newline)
          /\ minted' = minted \cup {token}
          /\ revoked' = revoked \ {token}
          /\ kept' = kept \cup {token}
    /\ UNCHANGED <<codesVars, pc, target, grants>>

SecondPasses == Tick /\ UNCHANGED <<storeVars, pc, target, edits, historyVars>>

Next ==
    \/ \E token \in Tokens : Request(token) \/ tool_revoke_token(token)
    \/ \E code \in Codes, challenge \in Challenges, redirect \in Redirects :
          handle_authorize_post(code, challenge, redirect)
    \/ \E code \in Codes, verifier \in Challenges, redirect \in Redirects \cup {NoCode} :
          handle_token(code, verifier, redirect)
    \/ tool_create_token
    \/ RevokeCopy \/ RevokeRemove \/ RevokeRename
    \/ Restart \/ OwnerDeletesLine \/ OwnerAddsLine \/ SecondPasses

Spec == Init /\ [][Next]_vars

-----------------------------------------------------------------------------
(* Properties *)

\* A token whose revocation was confirmed is never accepted again, through
\* reloads, restarts and writes that leave the modification time unchanged,
\* unless the owner writes it back into tokens.txt.
RevokedStaysRevoked == \A t \in revoked : ~Accepts(t)

\* No two tokens come from one login: code_take makes a code single use, also
\* when the slot is reused, the request does not match or the server restarts.
OneTokenPerLogin == \A g, h \in grants : g.code = h.code => g = h

\* Every token the endpoint issued goes back to a login with the same
\* challenge and redirect_uri, no more than Lifetime before.
GrantsMatchLogins ==
    \A g \in grants : \E r \in issued :
        /\ r.code = g.code
        /\ r.challenge = g.verifier
        /\ g.redirect \in {r.redirect, NoCode}
        /\ g.at \in r.at..(r.at + Lifetime)

\* A pending code is lost before its time only to MaxAuthCodes logins that are
\* no older: code_create overwrites no live code while it has another slot.
LiveCodeLostOnlyToNewer ==
    \A r \in issued :
        \/ r.code \in spent
        \/ r.at + Lifetime < now
        \/ Known(r.code)
        \/ Cardinality({q \in issued : q.code # r.code /\ q.at >= r.at}) >= MaxAuthCodes

\* Left alone, memory and file agree: exactly the first MaxTokens tokens of
\* tokens.txt are accepted, after any sequence of mints, revocations and
\* restarts, power loss inside a revocation included.
AcceptsFirstTokensOfFile ==
    \A t \in Tokens : Accepts(t) <=> \E l \in LoadedLines(tokens_txt) : l.tok = t

\* oauth.h: edits of tokens.txt apply without a reboot, so a token whose line
\* its owner deleted, or that was revoked, is refused from the next request on.
DeletedLineRefused ==
    pc = "idle" => \A t \in minted \ kept : Accepts(t) => t \in TokensIn(tokens_txt)

\* oauth.h: issued tokens do not expire; they are revoked by deleting a line.
IssuedTokensAccepted == pc = "idle" => \A t \in kept : Accepts(t)

\* oauth.c: a revocation rewrites the file preserving the other lines.
RevokePreservesOthers == pc = "idle" => kept \subseteq TokensIn(tokens_txt)

-----------------------------------------------------------------------------
(* The inductive invariant *)

\* A confirmed revocation is gone from every place it could come back from.
RevokedInv ==
    /\ \A t \in revoked : t \notin g_tokens /\ t \notin TokensIn(tokens_txt)
    /\ pc \in {"remove", "rename"} =>
          (revoked \cup {target}) \cap TokensIn(tokens_tmp) = {}
    /\ pc # "idle" => target \in minted
    /\ Numbered(tokens_txt) /\ Numbered(tokens_tmp)
    /\ TokensIn(tokens_txt) \cup TokensIn(tokens_tmp) \cup g_tokens \subseteq minted

\* A slot in use holds the code of one login, not yet redeemed, and no other
\* slot holds it; a granted code is spent.
CodesInv ==
    /\ \A i \in Slots : g_codes[i].expires_at # 0 =>
          /\ g_codes[i].code \notin spent
          /\ [code |-> g_codes[i].code, challenge |-> g_codes[i].challenge,
              redirect |-> g_codes[i].redirect, at |-> g_codes[i].expires_at - Lifetime]
                \in issued
          /\ g_codes[i].expires_at >= Lifetime
          /\ \A j \in Slots : g_codes[j].expires_at # 0 /\ g_codes[j].code = g_codes[i].code
                                => i = j
    /\ \A r \in issued : r.at <= now
    /\ \A g \in grants : g.code \in spent
    /\ spent \subseteq {r.code : r \in issued}

\* Every login got a code of its own, and there were finitely many.
LoginsInv ==
    /\ IsFiniteSet(issued)
    /\ \A q, r \in issued : q.code = r.code => q = r

\* With no edit and no failed file operation so far, the table holds what the
\* file does at the time it has recorded; between the remove and the rename
\* of a revocation there is no file, and the time tells so.
Agrees ==
    /\ tokens_txt.ends
    /\ tokens_txt.mtime = 0 => tokens_txt.lines = {}
    /\ pc # "rename" =>
          /\ tokens_txt.mtime = g_tokens_mtime
          /\ g_tokens = {l.tok : l \in LoadedLines(tokens_txt)}
          /\ g_token_count = Cardinality(LoadedLines(tokens_txt))
    /\ pc = "rename" => tokens_txt = NoFile
    /\ pc # "idle" => g_tokens_mtime # 0
    /\ pc \in {"remove", "rename"} => tokens_tmp.ends /\ tokens_tmp.mtime # 0
Undisturbed == edits = 0 /\ faults = 0
AgreesInv == Undisturbed => Agrees

\* What the table of codes and every copy of the token list may hold: the
\* facts that make RevokedStaysRevoked and the grant properties inductive.
IInv == TypeOK /\ RevokedInv /\ CodesInv /\ OneTokenPerLogin /\ GrantsMatchLogins
=============================================================================

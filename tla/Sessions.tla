------------------------------ MODULE Sessions ------------------------------
(***************************************************************************)
(* Refresh tokens in AuthService: families, rotation, reuse detection and  *)
(* wholesale revocation (logout, account deletion), and the login nonce in *)
(* Redis.  A request reads, and writes some awaits later.                  *)
(*                                                                         *)
(* Passwords, signatures, access tokens and expiry dates are abstracted: a *)
(* request they refuse changes none of this state.                         *)
(***************************************************************************)
EXTENDS Naturals, FiniteSetsExt

CONSTANTS
    Account,
    MaxTokens, \* bound: refresh tokens issued; the first of a family names it
    Nonce,     \* login nonces that may be drawn
    Request,   \* requests in progress
    MaxLost    \* bound: requests that end between two of their writes

VARIABLES
    token,     \* rows of refresh_tokens
    nonce,     \* nonce:<email> in Redis
    request,
    drawn,     \* nonces drawn so far
    doubled,   \* history, per family: exchanges of a token already being exchanged
    condemned, \* history: families revoked as a whole
    escaping,  \* history: those with an exchange past its check at that moment
    lost

vars == <<token, nonce, request, drawn, doubled, condemned, escaping, lost>>

Token == 1..MaxTokens
Row == [owner : Account, family : Token, revoked : BOOLEAN]
NoRow == [family |-> 0]
NoNonce == "none"
Quiet == [at |-> "none"]

TypeOK ==
    /\ token \in [Token -> Row \cup {NoRow}]
    /\ nonce \in [Account -> Nonce \cup {NoNonce}]
    /\ request \in [Request -> {Quiet}
         \cup [at : {"matched"}, account : Account, nonce : Nonce]
         \cup [at : {"verified"}, account : Account]
         \cup [at : {"valid", "consumed", "reused"}, old : Token]]
    /\ drawn \subseteq Nonce
    /\ doubled \in [Token -> Nat]
    /\ condemned \subseteq Token /\ escaping \subseteq condemned
    /\ lost \in 0..MaxLost

Init ==
    /\ token = [t \in Token |-> NoRow]
    /\ nonce = [a \in Account |-> NoNonce]
    /\ request = [r \in Request |-> Quiet]
    /\ drawn = {} /\ condemned = {} /\ escaping = {}
    /\ doubled = [t \in Token |-> 0]
    /\ lost = 0

----------------------------------------------------------------------------
(* Helpers *)

Issued(t) == token[t] # NoRow
Family(f) == {t \in Token : Issued(t) /\ token[t].family = f}
Owned(a) == {t \in Token : Issued(t) /\ token[t].owner = a}
Live(t) == Issued(t) /\ ~token[t].revoked
Become(r, state) == request' = [request EXCEPT ![r] = state]

\* Requests that found a token of f valid and have not stored its successor.
Exchanging(f) ==
    {r \in Request : request[r].at \in {"valid", "consumed"} /\ token[request[r].old].family = f}

\* storeRefreshToken: a fresh token, in a family of its own or in the one given.
Store(a, t, f) ==
    /\ ~Issued(t) /\ \A s \in 1..t - 1 : Issued(s)
    /\ token' = [token EXCEPT ![t] = [owner |-> a, family |-> f, revoked |-> FALSE]]

\* UPDATE refresh_tokens SET revoked = true of the rows ts, which are whole
\* families.
RevokeAll(ts) ==
    LET fs == {token[t].family : t \in ts}
    IN  /\ token' = [t \in Token |-> IF t \in ts THEN [token[t] EXCEPT !.revoked = TRUE] ELSE token[t]]
        /\ condemned' = condemned \cup fs
        /\ escaping' = escaping \cup {f \in fs : Exchanging(f) # {}}

----------------------------------------------------------------------------
(* Login *)

\* getNonce.
GetNonce(a, n) ==
    /\ n \notin drawn
    /\ drawn' = drawn \cup {n}
    /\ nonce' = [nonce EXCEPT ![a] = n]
    /\ UNCHANGED <<token, request, doubled, condemned, escaping, lost>>

NonceExpires(a) ==
    /\ nonce[a] # NoNonce
    /\ nonce' = [nonce EXCEPT ![a] = NoNonce]
    /\ UNCHANGED <<token, request, drawn, doubled, condemned, escaping, lost>>

\* login with a signed nonce: GET.
MatchNonce(r, a) ==
    /\ request[r] = Quiet /\ nonce[a] # NoNonce
    /\ Become(r, [at |-> "matched", account |-> a, nonce |-> nonce[a]])
    /\ UNCHANGED <<token, nonce, drawn, doubled, condemned, escaping, lost>>

\* DEL, which takes whatever nonce the key holds by now.
SpendNonce(r) ==
    LET a == request[r].account
    IN  /\ request[r].at = "matched"
        /\ nonce' = [nonce EXCEPT ![a] = NoNonce]
        /\ Become(r, [at |-> "verified", account |-> a])
        /\ UNCHANGED <<token, drawn, doubled, condemned, escaping, lost>>

\* A login that needs no nonce reaches the same point at once.
LogIn(r, a) ==
    /\ request[r] = Quiet
    /\ Become(r, [at |-> "verified", account |-> a])
    /\ UNCHANGED <<token, nonce, drawn, doubled, condemned, escaping, lost>>

\* login without a message.
LogInWithoutMessage(r, a) == LogIn(r, a)
CompleteTwoFactorLogin(r, a) == LogIn(r, a)
PrivyLogin(r, a) == LogIn(r, a)
\* registerWithEmail: the account is new.
RegisterWithEmail(r, a) == Owned(a) = {} /\ nonce[a] = NoNonce /\ LogIn(r, a)

StartFamily(r, t) ==
    /\ request[r].at = "verified"
    /\ Store(request[r].account, t, t)
    /\ Become(r, Quiet)
    /\ UNCHANGED <<nonce, drawn, doubled, condemned, escaping, lost>>

----------------------------------------------------------------------------
(* refreshToken and privyRefreshToken *)

\* Mutant: a revoked token is refused, but its family is left alone.
PresentWithoutReuseCheck(r, t) ==
    /\ request[r] = Quiet /\ Issued(t)
    /\ doubled' = IF \E s \in Request : request[s].at \in {"valid", "consumed"} /\ request[s].old = t
                  THEN [doubled EXCEPT ![token[t].family] = @ + 1] ELSE doubled
    /\ Become(r, [at |-> "valid", old |-> t])
    /\ UNCHANGED <<token, nonce, drawn, condemned, escaping, lost>>

\* The row is read and judged.  An unknown or an expired token ends here.
Present(r, t) ==
    /\ request[r] = Quiet /\ Issued(t)
    /\ IF token[t].revoked THEN Become(r, [at |-> "reused", old |-> t]) /\ UNCHANGED doubled
       ELSE
            /\ Become(r, [at |-> "valid", old |-> t])
            /\ doubled' = IF \E s \in Exchanging(token[t].family) : request[s].old = t
                          THEN [doubled EXCEPT ![token[t].family] = @ + 1] ELSE doubled
    /\ UNCHANGED <<token, nonce, drawn, condemned, escaping, lost>>

\* Reuse: the whole family is revoked.
RevokeFamily(r) ==
    /\ request[r].at = "reused"
    /\ RevokeAll(Family(token[request[r].old].family))
    /\ Become(r, Quiet)
    /\ UNCHANGED <<nonce, drawn, doubled, lost>>

\* Mutant: the old token stays valid.
ConsumeNot(r) ==
    /\ request[r].at = "valid"
    /\ Become(r, [request[r] EXCEPT !.at = "consumed"])
    /\ UNCHANGED <<token, nonce, drawn, doubled, condemned, escaping, lost>>

\* rt.revoked = true; save(rt).
Consume(r) ==
    /\ request[r].at = "valid"
    /\ token' = [token EXCEPT ![request[r].old].revoked = TRUE]
    /\ Become(r, [request[r] EXCEPT !.at = "consumed"])
    /\ UNCHANGED <<nonce, drawn, doubled, condemned, escaping, lost>>

\* The successor is stored in the family of the row as it was read.
StoreSuccessor(r, t) ==
    LET old == token[request[r].old]
    IN  /\ request[r].at = "consumed"
        /\ Store(old.owner, t, old.family)
        /\ Become(r, Quiet)
        /\ UNCHANGED <<nonce, drawn, doubled, condemned, escaping, lost>>

----------------------------------------------------------------------------
(* Revocation *)

\* Every token of the account.
RevokeAccount(a) ==
    /\ Owned(a) # {}
    /\ RevokeAll(Owned(a))
    /\ UNCHANGED <<nonce, request, drawn, doubled, lost>>

\* logout: any token of the account will do, live or not.
Logout(a) == RevokeAccount(a)
PrivyLogout(a) == RevokeAccount(a)
RequestDeletion(a) == RevokeAccount(a)
\* privyRefreshToken for a, with a token of another account, in Account or not.
PresentAnothers(a) == RevokeAccount(a)

\* A statement fails, or the process dies: what was written stays.
Lose(r) ==
    /\ request[r] # Quiet /\ lost < MaxLost
    /\ lost' = lost + 1
    /\ Become(r, Quiet)
    /\ UNCHANGED <<token, nonce, drawn, doubled, condemned, escaping>>

Next ==
    \/ \E a \in Account :
         \/ NonceExpires(a) \/ \E n \in Nonce : GetNonce(a, n)
         \/ Logout(a) \/ PrivyLogout(a) \/ RequestDeletion(a) \/ PresentAnothers(a)
    \/ \E r \in Request :
         \/ \E a \in Account :
              \/ MatchNonce(r, a) \/ LogInWithoutMessage(r, a) \/ CompleteTwoFactorLogin(r, a)
              \/ PrivyLogin(r, a) \/ RegisterWithEmail(r, a)
         \/ SpendNonce(r) \/ RevokeFamily(r) \/ Consume(r) \/ Lose(r)
         \/ \E t \in Token : StartFamily(r, t) \/ Present(r, t) \/ StoreSuccessor(r, t)

Spec == Init /\ [][Next]_vars

----------------------------------------------------------------------------
(* Properties *)

\* A session is one line of tokens: a family has one live token, or is about to
\* have it, plus one for each refresh that overlapped another of the same token;
\* a request that is lost never adds one.
OneLineOfTokens ==
    \A f \in Token : Cardinality({t \in Family(f) : Live(t)})
                       + Cardinality({r \in Exchanging(f) : request[r].at = "consumed"})
                     <= 1 + doubled[f]

\* After a logout, a deletion request or a detected reuse, no token of the
\* families concerned is ever accepted again, unless a refresh had passed its
\* check at that moment: its successor is stored after the revocation.
RevocationHolds ==
    \A f \in condemned \ escaping : \A t \in Family(f) : ~Live(t)

=============================================================================

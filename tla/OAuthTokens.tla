----------------------------- MODULE OAuthTokens -----------------------------
(***************************************************************************)
(* Authorization codes, authorizations and refresh tokens: authorize_get   *)
(* and authorize_post issue codes, the token endpoint exchanges a code for *)
(* an authorization with a refresh token (authorization_code grant) and    *)
(* rotates refresh tokens (refresh_token grant).                           *)
(*                                                                         *)
(* One user and one app origin of one tenant.  A handler is split at its   *)
(* database statements, so that concurrent requests interleave there, and  *)
(* may fail (or its process may crash) before any of them.                 *)
(***************************************************************************)
EXTENDS Naturals, FiniteSets

CONSTANTS
    Codes,      \* authorization codes
    Auths,      \* ids of oauth_authorizations rows
    RTs,        \* refresh tokens
    Exchanges,  \* concurrent authorization_code requests
    Refreshes,  \* concurrent refresh_token requests
    CodeLife,   \* life time of a code (10 minutes)
    RTLife,     \* life time of a refresh token
    MaxTime,    \* bound on the clock
    None

ASSUME ConstantsAssumption ==
    /\ CodeLife \in Nat /\ RTLife \in Nat /\ MaxTime \in Nat
    /\ None \notin Auths /\ None \notin Codes

\* A scope either names a policy or has the legacy form.
Scopes == {"policy", "sign_event"}

VARIABLES
    now,        \* wall clock
    code,       \* oauth_codes
    auth,       \* oauth_authorizations
    rt,         \* oauth_refresh_tokens
    ex,         \* authorization_code requests
    ref,        \* refresh_token requests
    revoking    \* authorizations whose refresh tokens revoke_customer_app still has to revoke

vars == <<now, code, auth, rt, ex, ref, revoking>>

Idle == [pc |-> "idle"]
NoCode == [st |-> "none"]
NoRT == [st |-> "none"]

TypeOK ==
    /\ now \in 0..MaxTime
    /\ code \in [Codes -> {NoCode} \cup
                          [st : {"stored", "gone"}, scope : Scopes, prev : Auths \cup {None},
                           exp : Nat]]
    /\ auth \in [Auths -> {"none", "active", "revoked"}]
    /\ rt \in [RTs -> {NoRT} \cup [st : {"live", "consumed"}, auth : Auths, exp : Nat]]
    /\ ex \in [Exchanges -> {Idle} \cup
                            [pc : {"found", "deleted", "resolved", "authed", "issued", "prev"},
                             code : Codes, prev : Auths \cup {None}, auth : Auths \cup {None}]]
    /\ ref \in [Refreshes -> {Idle} \cup
                             [pc : {"consumed", "checked"}, auth : Auths, late : BOOLEAN]]
    /\ revoking \subseteq Auths

Init ==
    /\ now = 0
    /\ code = [c \in Codes |-> NoCode]
    /\ auth = [a \in Auths |-> "none"]
    /\ rt = [t \in RTs |-> NoRT]
    /\ ex = [x \in Exchanges |-> Idle]
    /\ ref = [y \in Refreshes |-> Idle]
    /\ revoking = {}

------------------------------------------------------------------------------
(* Issuing codes.                                                           *)

\* store_oauth_code, for a fresh random code.
StoreCode(c, scope, prev) ==
    /\ code[c] = NoCode
    /\ code' = [code EXCEPT ![c] = [st |-> "stored", scope |-> scope, prev |-> prev,
                                    exp |-> now + CodeLife]]
    /\ UNCHANGED <<now, auth, rt, ex, ref, revoking>>

\* authorize_post, approved by the user.
AuthorizePost(c, scope) == StoreCode(c, scope, None)

\* authorize_get: silent approval by the handle of an active authorization,
\* which the exchange is to replace.
AuthorizeByHandle(c, scope, a) == auth[a] = "active" /\ StoreCode(c, scope, a)

\* authorize_get: silent approval because the origin has an active authorization.
AuthorizeByOrigin(c, scope) ==
    (\E a \in Auths : auth[a] = "active") /\ StoreCode(c, scope, None)

------------------------------------------------------------------------------
(* handle_authorization_code_grant and create_oauth_authorization.          *)

\* find_valid; redirect_uri and PKCE verifier match.
ExchangeFind(x, c) ==
    /\ ex[x] = Idle
    /\ code[c].st = "stored" /\ code[c].exp > now
    /\ ex' = [ex EXCEPT ![x] = [pc |-> "found", code |-> c, prev |-> code[c].prev,
                                auth |-> None]]
    /\ UNCHANGED <<now, code, auth, rt, ref, revoking>>

\* An unknown, redeemed or expired code is refused.
ExchangeRefused(x, c) ==
    /\ ex[x] = Idle
    /\ code[c].st = "stored" => code[c].exp <= now
    /\ UNCHANGED vars

\* oauth_code_repo.delete: the number of deleted rows is not looked at.
ExchangeDelete(x) ==
    /\ ex[x].pc = "found"
    /\ code' = [code EXCEPT ![ex[x].code].st = "gone"]
    /\ ex' = [ex EXCEPT ![x].pc = "deleted"]
    /\ UNCHANGED <<now, auth, rt, ref, revoking>>

ExchangeResolveSkipsCreate(x) ==
    /\ ex[x].pc = "deleted"
    /\ code[ex[x].code].scope = "policy"
    /\ ex' = [ex EXCEPT ![x].pc = "authed"]
    /\ UNCHANGED <<now, code, auth, rt, ref, revoking>>

\* resolve_policy_from_scope: a scope that names no policy ends the exchange.
ExchangeResolve(x) ==
    /\ ex[x].pc = "deleted"
    /\ \/ /\ code[ex[x].code].scope = "policy"
          /\ ex' = [ex EXCEPT ![x].pc = "resolved"]
       \/ /\ code[ex[x].code].scope # "policy"
          /\ ex' = [ex EXCEPT ![x] = Idle]
    /\ UNCHANGED <<now, code, auth, rt, ref, revoking>>

\* OAuthAuthorizationRepository::create, always a new row.
ExchangeCreate(x, a) ==
    /\ ex[x].pc = "resolved"
    /\ auth[a] = "none"
    /\ auth' = [auth EXCEPT ![a] = "active"]
    /\ ex' = [ex EXCEPT ![x] = [pc |-> "authed", code |-> ex[x].code, prev |-> ex[x].prev,
                                auth |-> a]]
    /\ UNCHANGED <<now, code, rt, ref, revoking>>

\* RefreshTokenRepository::create for a fresh random token.
NewRT(t, a) ==
    /\ rt[t] = NoRT
    /\ rt' = [rt EXCEPT ![t] = [st |-> "live", auth |-> a, exp |-> now + RTLife]]

\* The response follows at once, unless a previous authorization is replaced.
ExchangeIssue(x, t) ==
    /\ ex[x].pc = "authed"
    /\ NewRT(t, ex[x].auth)
    /\ ex' = [ex EXCEPT ![x] = IF ex[x].prev = None THEN Idle ELSE [ex[x] EXCEPT !.pc = "issued"]]
    /\ UNCHANGED <<now, code, auth, ref, revoking>>

\* RefreshTokenRepository::revoke_for_authorization.
RevokedRTs(a) ==
    [t \in RTs |-> IF rt[t].st = "live" /\ rt[t].auth = a THEN [rt[t] EXCEPT !.st = "consumed"]
                   ELSE rt[t]]

ExchangeRevokePrevRTs(x) ==
    /\ ex[x].pc = "issued"
    /\ rt' = RevokedRTs(ex[x].prev)
    /\ ex' = [ex EXCEPT ![x].pc = "prev"]
    /\ UNCHANGED <<now, code, auth, ref, revoking>>

ExchangeRevokePrev(x) ==
    /\ ex[x].pc = "prev"
    /\ auth' = [auth EXCEPT ![ex[x].prev] = "revoked"]
    /\ ex' = [ex EXCEPT ![x] = Idle]
    /\ UNCHANGED <<now, code, rt, ref, revoking>>

\* A database, key or secret pool error, or a crash, ends the exchange.
ExchangeFails(x) ==
    /\ ex[x] # Idle
    /\ ex' = [ex EXCEPT ![x] = Idle]
    /\ UNCHANGED <<now, code, auth, rt, ref, revoking>>

------------------------------------------------------------------------------
(* handle_refresh_token_grant.                                              *)

RefreshConsumeUnmarked(y, t) ==
    /\ ref[y] = Idle
    /\ rt[t].st = "live" /\ rt[t].exp > now
    /\ ref' = [ref EXCEPT ![y] = [pc |-> "consumed", auth |-> rt[t].auth,
                                  late |-> auth[rt[t].auth] = "revoked"]]
    /\ UNCHANGED <<now, code, auth, rt, ex, revoking>>

\* RefreshTokenRepository::consume: one UPDATE validates and marks.
RefreshConsume(y, t) ==
    /\ ref[y] = Idle
    /\ rt[t].st = "live" /\ rt[t].exp > now
    /\ rt' = [rt EXCEPT ![t].st = "consumed"]
    /\ ref' = [ref EXCEPT ![y] = [pc |-> "consumed", auth |-> rt[t].auth,
                                  late |-> auth[rt[t].auth] = "revoked"]]
    /\ UNCHANGED <<now, code, auth, ex, revoking>>

\* An unknown, consumed or expired token is refused.
RefreshRefused(y, t) ==
    /\ ref[y] = Idle
    /\ rt[t].st = "live" => rt[t].exp <= now
    /\ UNCHANGED vars

RefreshCheckDropped(y) ==
    /\ ref[y].pc = "consumed"
    /\ ref' = [ref EXCEPT ![y].pc = "checked"]
    /\ UNCHANGED <<now, code, auth, rt, ex, revoking>>

\* OAuthAuthorization::find and the revoked_at check.
RefreshCheck(y) ==
    /\ ref[y].pc = "consumed"
    /\ ref' = [ref EXCEPT ![y] = IF auth[ref[y].auth] = "revoked" THEN Idle
                                 ELSE [ref[y] EXCEPT !.pc = "checked"]]
    /\ UNCHANGED <<now, code, auth, rt, ex, revoking>>

RefreshIssue(y, t) ==
    /\ ref[y].pc = "checked"
    /\ NewRT(t, ref[y].auth)
    /\ ref' = [ref EXCEPT ![y] = Idle]
    /\ UNCHANGED <<now, code, auth, ex, revoking>>

RefreshFails(y) ==
    /\ ref[y] # Idle
    /\ ref' = [ref EXCEPT ![y] = Idle]
    /\ UNCHANGED <<now, code, auth, rt, ex, revoking>>

------------------------------------------------------------------------------
(* Revocation.                                                              *)

\* revoke_session: the row only, refresh tokens stay.
RevokeSession(a) ==
    /\ auth[a] = "active"
    /\ auth' = [auth EXCEPT ![a] = "revoked"]
    /\ UNCHANGED <<now, code, rt, ex, ref, revoking>>

\* revoke_customer_app: all rows of the origin in one UPDATE, then the
\* refresh tokens of each.
RevokeCustomerApp ==
    LET active == {a \in Auths : auth[a] = "active"}
    IN  /\ active # {}
        /\ auth' = [a \in Auths |-> IF a \in active THEN "revoked" ELSE auth[a]]
        /\ revoking' = revoking \cup active
        /\ UNCHANGED <<now, code, rt, ex, ref>>

RevokeCustomerAppRTs(a) ==
    /\ a \in revoking
    /\ rt' = RevokedRTs(a)
    /\ revoking' = revoking \ {a}
    /\ UNCHANGED <<now, code, auth, ex, ref>>

\* An error in that loop leaves the remaining refresh tokens alone.
RevokeCustomerAppFails ==
    /\ revoking # {}
    /\ revoking' = {}
    /\ UNCHANGED <<now, code, auth, rt, ex, ref>>

Tick ==
    /\ now < MaxTime
    /\ now' = now + 1
    /\ UNCHANGED <<code, auth, rt, ex, ref, revoking>>

Next ==
    \/ \E c \in Codes, s \in Scopes :
          \/ AuthorizePost(c, s)
          \/ AuthorizeByOrigin(c, s)
          \/ \E a \in Auths : AuthorizeByHandle(c, s, a)
    \/ \E x \in Exchanges :
          \/ \E c \in Codes : ExchangeFind(x, c) \/ ExchangeRefused(x, c)
          \/ ExchangeDelete(x)
          \/ ExchangeResolve(x)
          \/ \E a \in Auths : ExchangeCreate(x, a)
          \/ \E t \in RTs : ExchangeIssue(x, t)
          \/ ExchangeRevokePrevRTs(x)
          \/ ExchangeRevokePrev(x)
          \/ ExchangeFails(x)
    \/ \E y \in Refreshes :
          \/ \E t \in RTs :
                RefreshConsume(y, t) \/ RefreshRefused(y, t) \/ RefreshIssue(y, t)
          \/ RefreshCheck(y)
          \/ RefreshFails(y)
    \/ \E a \in Auths : RevokeSession(a) \/ RevokeCustomerAppRTs(a)
    \/ RevokeCustomerApp
    \/ RevokeCustomerAppFails
    \/ Tick

Spec == Init /\ [][Next]_vars

------------------------------------------------------------------------------
(* Properties.                                                              *)

Live(a) == {t \in RTs : rt[t].st = "live" /\ rt[t].auth = a}

\* Rotation never forks: an authorization has at most one refresh token that
\* can still be used, whatever refreshes, re-authorizations, revocations and
\* failures run concurrently.
NoForkedChain == \A a \in Auths : \A t, u \in Live(a) : t = u

\* A refresh whose token was consumed after the authorization was revoked
\* never gets past the check, even with a refresh token that was issued late
\* by a refresh that overlapped the revocation.
RevokedChainIsDead == \A y \in Refreshes : ref[y].pc = "checked" => ~ref[y].late

\* The inductive strengthening of the two.  The right to extend an
\* authorization's chain is one baton: it is held by a live token, by a
\* refresh that consumed the last one, or by the exchange that has created the
\* authorization and not yet issued its first token; never by two of them.
Refreshing(a) == {y \in Refreshes : ref[y] # Idle /\ ref[y].auth = a}
Granting(a) == {x \in Exchanges : ex[x].pc = "authed" /\ ex[x].auth = a}

OneBaton ==
    \A a \in Auths :
        /\ \A t, u \in Live(a) : t = u
        /\ \A y, z \in Refreshing(a) : y = z
        /\ \A x, w \in Granting(a) : x = w
        /\ Live(a) = {} \/ Refreshing(a) = {}
        /\ Live(a) = {} \/ Granting(a) = {}
        /\ Refreshing(a) = {} \/ Granting(a) = {}
        /\ auth[a] = "none" => Live(a) = {} /\ Refreshing(a) = {} /\ Granting(a) = {}

\* What the control state of an exchange says about its fields.
ExchangeState ==
    \A x \in Exchanges :
        /\ ex[x].pc = "authed" => ex[x].auth \in Auths
        /\ ex[x].pc \in {"issued", "prev"} => ex[x].prev \in Auths
        /\ ex[x].pc \in {"found", "deleted", "resolved"} => code[ex[x].code] # NoCode

\* A late refresh waits at the check for an authorization that stays revoked.
LateIsRevoked ==
    \A y \in Refreshes :
        ref[y] # Idle /\ ref[y].late => ref[y].pc = "consumed" /\ auth[ref[y].auth] = "revoked"

IInv == TypeOK /\ ExchangeState /\ OneBaton /\ LateIsRevoked

==============================================================================

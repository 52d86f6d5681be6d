---------------------------- MODULE AtprotoOAuth ----------------------------
(***************************************************************************)
(* The AT Protocol side of the server: a client pushes an authorization    *)
(* request (par), a logged-in user whose account link is ready approves it *)
(* (authorize), the client exchanges the code and then rotates refresh     *)
(* tokens (token), and the link of a user is enabled, disabled and synced  *)
(* by the control plane (atproto.rs).  One row of atproto_oauth_sessions   *)
(* carries a request from its push to its last refresh token.              *)
(*                                                                         *)
(* A handler is split at its database statements; it may end with an error *)
(* (a refused check, a failed statement, a crash) before any of them.      *)
(***************************************************************************)
EXTENDS Naturals

CONSTANTS
    Users,      \* users; a user stands for its DID as well
    Sessions,   \* request URIs, each the key of one row
    Codes,      \* authorization codes
    RTs,        \* refresh tokens
    Authorizes, \* concurrent authorize requests
    Calls,      \* concurrent token requests
    Changes,    \* concurrent changes of account links
    ParLife,    \* life time of a pushed request (10 minutes)
    CodeLife,   \* life time of a code (5 minutes)
    RTLife,     \* life time of a refresh token (30 days)
    Lead,       \* how far the clock of the server is ahead of the database's
    MaxTime,    \* bound on the clock
    None

ASSUME ConstantsAssumption ==
    /\ ParLife \in Nat /\ CodeLife \in Nat /\ RTLife \in Nat
    /\ Lead \in Nat /\ MaxTime \in Nat
    /\ None \notin Users /\ None \notin Codes /\ None \notin RTs /\ None \notin Sessions
    /\ Codes \cap RTs = {}

VARIABLES
    now,    \* clock of the database
    link,   \* the account link of a user, in users
    row,    \* atproto_oauth_sessions
    aut,    \* authorize requests
    call,   \* token requests
    change, \* enable, disable and sync requests
    home,   \* history: the session a token was generated for
    gave,   \* history: token responses for a code or a refresh token
    off     \* history: users whose link was disabled with nothing of theirs in flight

vars == <<now, link, row, aut, call, change, home, gave, off>>

Idle == [pc |-> "idle"]
NoRow == [st |-> "none"]

\* What ready_atproto_identity and internal_sync_atproto tell apart: a link that
\* may approve requests, one that is enabled and not ready (pending, failed), and
\* one that is not enabled or "disabled".
Links == {"ready", "waiting", "off"}

Rows == [st : {"open", "revoked"}, user : Users \cup {None},
         code : Codes \cup {None}, codeExp : Nat,
         rt : RTs \cup {None}, rtExp : Nat, parExp : Nat]

\* The type of a token request says more than its shape: a code or refresh token that
\* is found belongs to a user, so the error "not bound to a ready ATProto DID" of the
\* token endpoint is never its answer.
TypeOK ==
    /\ now \in Nat
    /\ link \in [Users -> Links]
    /\ row \in [Sessions -> {NoRow} \cup Rows]
    /\ aut \in [Authorizes -> {Idle} \cup
                 [pc : {"found", "ready", "approved"}, s : Sessions, user : Users]]
    /\ call \in [Calls -> {Idle} \cup
                  [pc : {"code", "consumed", "rt"}, s : Sessions, user : Users,
                   grant : Codes \cup RTs]]
    /\ change \in [Changes -> {Idle} \cup [pc : {"trigger", "revoke"}, user : Users]]
    /\ home \in [Codes \cup RTs -> Sessions \cup {None}]
    /\ gave \in [Codes \cup RTs -> Nat]
    /\ off \subseteq Users

Init ==
    /\ now = 0
    /\ link = [u \in Users |-> "off"]
    /\ row = [s \in Sessions |-> NoRow]
    /\ aut = [a \in Authorizes |-> Idle]
    /\ call = [q \in Calls |-> Idle]
    /\ change = [e \in Changes |-> Idle]
    /\ home = [g \in Codes \cup RTs |-> None]
    /\ gave = [g \in Codes \cup RTs |-> 0]
    /\ off = {}

-----------------------------------------------------------------------------
\* A request of u that is past the read of what it acts on.
ActsFor(u) ==
    \/ \E a \in Authorizes : aut[a].pc \in {"ready", "approved"} /\ aut[a].user = u
    \/ \E q \in Calls : call[q].pc # "idle" /\ call[q].user = u

\* A row after store_authorization_code, after rotate_refresh_token, and after
\* store_token_artifacts, which writes the code back, expired by the clock of the
\* server.
WithCode(r, c, exp) ==
    [st |-> r.st, user |-> r.user, code |-> c, codeExp |-> exp,
     rt |-> r.rt, rtExp |-> r.rtExp, parExp |-> r.parExp]

WithRT(r, t, exp) ==
    [st |-> r.st, user |-> r.user, code |-> r.code, codeExp |-> r.codeExp,
     rt |-> t, rtExp |-> exp, parExp |-> r.parExp]

WithArtifacts(r, c, t) == WithRT(WithCode(r, c, now + Lead), t, now + Lead + RTLife)

\* The table after revoke_session or one of its relatives on the rows of S.
Revoked(S) ==
    [s \in Sessions |-> IF s \in S /\ row[s].st = "open"
                        THEN [row[s] EXCEPT !.st = "revoked"]
                        ELSE row[s]]

\* generate_secure_token: a token that was not generated before; which one it is
\* does not matter.
Unused(T) == {t \in T : home[t] = None}
Fresh(T) == CHOOSE t \in T : t \in Unused(T)

HasCode(s, c) == row[s].st = "open" /\ row[s].code = c /\ row[s].codeExp > now

HasRT(s, t) == row[s].st = "open" /\ row[s].rt = t /\ row[s].rtExp > now

-----------------------------------------------------------------------------
\* par: the checks of proof and client only refuse.
Par(s) ==
    /\ row[s] = NoRow
    /\ row' = [row EXCEPT ![s] =
                [st |-> "open", user |-> None, code |-> None, codeExp |-> 0,
                 rt |-> None, rtExp |-> 0, parExp |-> now + ParLife]]
    /\ UNCHANGED <<now, link, aut, call, change, home, gave, off>>

\* authorize: the request is found, has not expired, and the browser holds a
\* session of u.
AuthorizeFind(a, s, u) ==
    /\ aut[a] = Idle
    /\ row[s].st = "open"
    /\ row[s].parExp > now
    /\ aut' = [aut EXCEPT ![a] = [pc |-> "found", s |-> s, user |-> u]]
    /\ UNCHANGED <<now, link, row, call, change, home, gave, off>>

AuthorizeIdentity(a) ==
    /\ aut[a].pc = "found"
    /\ link[aut[a].user] = "ready"
    /\ aut' = [aut EXCEPT ![a] = [pc |-> "ready", s |-> aut[a].s, user |-> aut[a].user]]
    /\ UNCHANGED <<now, link, row, call, change, home, gave, off>>

AuthorizeApprove(a) ==
    /\ aut[a].pc = "ready"
    /\ row[aut[a].s].st = "open"
    /\ row' = [row EXCEPT ![aut[a].s].user = aut[a].user]
    /\ aut' = [aut EXCEPT ![a] = [pc |-> "approved", s |-> aut[a].s, user |-> aut[a].user]]
    /\ UNCHANGED <<now, link, call, change, home, gave, off>>

\* Mutant: The code is stored before the request is approved.
AuthorizeStoreEarly(a) ==
    /\ aut[a].pc = "ready"
    /\ row[aut[a].s].st = "open"
    /\ Unused(Codes) # {}
    /\ row' = [row EXCEPT ![aut[a].s] = WithCode(@, Fresh(Codes), now + Lead + CodeLife)]
    /\ home' = [home EXCEPT ![Fresh(Codes)] = aut[a].s]
    /\ UNCHANGED <<now, link, aut, call, change, gave, off>>

AuthorizeStore(a) ==
    /\ aut[a].pc = "approved"
    /\ row[aut[a].s].st = "open"
    /\ Unused(Codes) # {}
    /\ row' = [row EXCEPT ![aut[a].s] = WithCode(@, Fresh(Codes), now + Lead + CodeLife)]
    /\ home' = [home EXCEPT ![Fresh(Codes)] = aut[a].s]
    /\ aut' = [aut EXCEPT ![a] = Idle]
    /\ UNCHANGED <<now, link, call, change, gave, off>>

AuthorizeFail(a) ==
    /\ aut[a].pc # "idle"
    /\ aut' = [aut EXCEPT ![a] = Idle]
    /\ UNCHANGED <<now, link, row, call, change, home, gave, off>>

-----------------------------------------------------------------------------
\* token, grant authorization_code: the row is read, and what is returned later
\* names the user of this read.
ExchangeFind(q, s, c) ==
    /\ call[q] = Idle
    /\ HasCode(s, c)
    /\ call' = [call EXCEPT ![q] = [pc |-> "code", s |-> s, user |-> row[s].user, grant |-> c]]
    /\ UNCHANGED <<now, link, row, aut, change, home, gave, off>>

\* consume_authorization_code, once the checks of client, PKCE and proof passed:
\* from here on the request is answered with tokens unless a later step fails.
ExchangeConsume(q) ==
    /\ call[q].pc = "code"
    /\ \E s \in Sessions :
        /\ HasCode(s, call[q].grant)
        /\ row' = [row EXCEPT ![s] = WithCode(@, None, 0)]
    /\ call' = [call EXCEPT ![q] = [pc |-> "consumed", s |-> call[q].s, user |-> call[q].user,
                                    grant |-> call[q].grant]]
    /\ gave' = [gave EXCEPT ![call[q].grant] = @ + 1]
    /\ UNCHANGED <<now, link, aut, change, home, off>>

\* store_token_artifacts: a row revoked meanwhile is left alone and the client gets its tokens all the same.
ExchangeIssue(q) ==
    /\ call[q].pc = "consumed"
    /\ call[q].user # None
    /\ Unused(RTs) # {}
    /\ row' = IF row[call[q].s].st = "open"
              THEN [row EXCEPT ![call[q].s] = WithArtifacts(@, call[q].grant, Fresh(RTs))]
              ELSE row
    /\ home' = [home EXCEPT ![Fresh(RTs)] = call[q].s]
    /\ call' = [call EXCEPT ![q] = Idle]
    /\ UNCHANGED <<now, link, aut, change, gave, off>>

\* token, grant refresh_token.
RefreshFind(q, s, t) ==
    /\ call[q] = Idle
    /\ HasRT(s, t)
    /\ call' = [call EXCEPT ![q] = [pc |-> "rt", s |-> s, user |-> row[s].user, grant |-> t]]
    /\ UNCHANGED <<now, link, row, aut, change, home, gave, off>>

\* Mutant: rotate_refresh_token without the comparison with the previous hash.
RefreshRotateAnyHash(q) ==
    /\ call[q].pc = "rt"
    /\ row[call[q].s].st = "open"
    /\ Unused(RTs) # {}
    /\ row' = [row EXCEPT ![call[q].s] = WithRT(@, Fresh(RTs), now + Lead + RTLife)]
    /\ home' = [home EXCEPT ![Fresh(RTs)] = call[q].s]
    /\ gave' = [gave EXCEPT ![call[q].grant] = @ + 1]
    /\ call' = [call EXCEPT ![q] = Idle]
    /\ UNCHANGED <<now, link, aut, change, off>>

RefreshRotate(q) ==
    /\ call[q].pc = "rt"
    /\ call[q].user # None
    /\ HasRT(call[q].s, call[q].grant)
    /\ Unused(RTs) # {}
    /\ row' = [row EXCEPT ![call[q].s] = WithRT(@, Fresh(RTs), now + Lead + RTLife)]
    /\ home' = [home EXCEPT ![Fresh(RTs)] = call[q].s]
    /\ gave' = [gave EXCEPT ![call[q].grant] = @ + 1]
    /\ call' = [call EXCEPT ![q] = Idle]
    /\ UNCHANGED <<now, link, aut, change, off>>

\* What is revoked when the client is not the session's: revoke_session takes the
\* session of the code, revoke_refresh_session the one that still has the token.
ExchangeBindingFails(q) == call[q].pc = "code" /\ row' = Revoked({call[q].s})

RefreshBindingFails(q) ==
    /\ call[q].pc = "rt"
    /\ row' = Revoked({s \in Sessions : row[s] # NoRow /\ row[s].rt = call[q].grant})

\* enforce_session_client_binding refuses.
BindingFails(q) ==
    /\ ExchangeBindingFails(q) \/ RefreshBindingFails(q)
    /\ call' = [call EXCEPT ![q] = Idle]
    /\ UNCHANGED <<now, link, aut, change, home, gave, off>>

TokenFail(q) ==
    /\ call[q].pc # "idle"
    /\ call' = [call EXCEPT ![q] = Idle]
    /\ UNCHANGED <<now, link, row, aut, change, home, gave, off>>

-----------------------------------------------------------------------------
\* enable_user_atproto_with_trigger: pending, then the call of the control plane,
\* whose failure is written over whatever the link has become.
EnableSet(e, u) ==
    /\ change[e] = Idle
    /\ link' = [link EXCEPT ![u] = "waiting"]
    /\ change' = [change EXCEPT ![e] = [pc |-> "trigger", user |-> u]]
    /\ UNCHANGED <<now, row, aut, call, home, gave, off>>

EnableFailed(e) ==
    /\ change[e].pc = "trigger"
    /\ link' = [link EXCEPT ![change[e].user] = "waiting"]
    /\ change' = [change EXCEPT ![e] = Idle]
    /\ UNCHANGED <<now, row, aut, call, home, gave, off>>

\* internal_sync_atproto with a link that stays enabled.
Sync(u, l) ==
    /\ link' = [link EXCEPT ![u] = l]
    /\ off' = IF l = "ready" THEN off \ {u} ELSE off
    /\ UNCHANGED <<now, row, aut, call, change, home, gave>>

\* The first write of disable_user_atproto_and_revoke_sessions (the control plane
\* has answered) and of internal_sync_atproto with a link that is off.
DisableSet(e, u) ==
    /\ change[e] = Idle
    /\ link' = [link EXCEPT ![u] = "off"]
    /\ change' = [change EXCEPT ![e] = [pc |-> "revoke", user |-> u]]
    /\ UNCHANGED <<now, row, aut, call, home, gave, off>>

\* Mutant: revoke_sessions_for_pubkey that only looks at sessions with a refresh token.
DisableRevokeTokensOnly(e) ==
    /\ change[e].pc = "revoke"
    /\ LET u == change[e].user
       IN  /\ row' = Revoked({s \in Sessions : row[s] # NoRow /\ row[s].user = u
                                               /\ row[s].rt # None})
           /\ off' = IF link[u] # "ready" /\ ~ActsFor(u) THEN off \cup {u} ELSE off
    /\ change' = [change EXCEPT ![e] = Idle]
    /\ UNCHANGED <<now, link, aut, call, home, gave>>

\* Their second write, revoke_sessions_for_pubkey.
DisableRevoke(e) ==
    /\ change[e].pc = "revoke"
    /\ LET u == change[e].user
       IN  /\ row' = Revoked({s \in Sessions : row[s] # NoRow /\ row[s].user = u})
           /\ off' = IF link[u] # "ready" /\ ~ActsFor(u) THEN off \cup {u} ELSE off
    /\ change' = [change EXCEPT ![e] = Idle]
    /\ UNCHANGED <<now, link, aut, call, home, gave>>

\* The control plane accepts an enable request; a handler ends between two writes.
ChangeEnds(e) ==
    /\ change[e].pc # "idle"
    /\ change' = [change EXCEPT ![e] = Idle]
    /\ UNCHANGED <<now, link, row, aut, call, home, gave, off>>

Tick ==
    /\ now < MaxTime
    /\ now' = now + 1
    /\ UNCHANGED <<link, row, aut, call, change, home, gave, off>>

-----------------------------------------------------------------------------
Authorize(a) ==
    \/ \E s \in Sessions, u \in Users : AuthorizeFind(a, s, u)
    \/ AuthorizeIdentity(a)
    \/ AuthorizeApprove(a)
    \/ AuthorizeStore(a)
    \/ AuthorizeFail(a)

Token(q) ==
    \/ \E s \in Sessions, c \in Codes : ExchangeFind(q, s, c)
    \/ ExchangeConsume(q)
    \/ ExchangeIssue(q)
    \/ \E s \in Sessions, t \in RTs : RefreshFind(q, s, t)
    \/ RefreshRotate(q)
    \/ BindingFails(q)
    \/ TokenFail(q)

Lifecycle(e) ==
    \/ \E u \in Users : EnableSet(e, u) \/ DisableSet(e, u)
    \/ EnableFailed(e)
    \/ DisableRevoke(e)
    \/ ChangeEnds(e)

Next ==
    \/ \E s \in Sessions : Par(s)
    \/ \E a \in Authorizes : Authorize(a)
    \/ \E q \in Calls : Token(q)
    \/ \E e \in Changes : Lifecycle(e)
    \/ \E u \in Users, l \in {"ready", "waiting"} : Sync(u, l)
    \/ Tick

Spec == Init /\ [][Next]_vars

-----------------------------------------------------------------------------
\* A code and a refresh token are answered with tokens at most once, however
\* requests that present them overlap and whatever a later approval, exchange or
\* revocation writes to the row (consume_authorization_code, rotate_refresh_token).
\* store_token_artifacts puts a redeemed code back into the row, so for codes this
\* needs Lead = 0: the clock of the server is not ahead of the database's.
OneResponse == \A g \in Codes \cup RTs : gave[g] <= 1

\* Once a disable has revoked the sessions of a user (disable_atproto,
\* internal_sync_atproto) while no request of theirs was past its reads, and until
\* the link is ready again, the user has no open session and no request acts for
\* them: nothing an earlier approval left behind issues tokens.
CleanDisableHolds ==
    \A u \in off :
        /\ ~ActsFor(u)
        /\ \A s \in Sessions : row[s].st = "open" => row[s].user # u

-----------------------------------------------------------------------------
\* The inductive invariant.

\* A row that has a code or a refresh token, or that a request works on after its
\* approval, has a user.
Bound ==
    /\ \A s \in Sessions :
        row[s] # NoRow /\ (row[s].code # None \/ row[s].rt # None) => row[s].user # None
    /\ \A a \in Authorizes :
        /\ aut[a] # Idle => row[aut[a].s] # NoRow
        /\ aut[a].pc = "approved" => row[aut[a].s].user # None
    /\ \A q \in Calls :
        call[q] # Idle => row[call[q].s] # NoRow /\ row[call[q].s].user # None

\* A token is found, presented and written only at the session it was generated for.
AtHome ==
    /\ \A s \in Sessions :
        row[s] # NoRow => /\ row[s].code # None => home[row[s].code] = s
                          /\ row[s].rt # None => home[row[s].rt] = s
    /\ \A q \in Calls : call[q] # Idle => home[call[q].grant] = call[q].s
    /\ \A q \in Calls : call[q].pc \in {"code", "consumed"} => call[q].grant \in Codes

\* A code or refresh token that was answered with tokens is no longer good.
Spent ==
    \A g \in Codes \cup RTs :
        gave[g] # 0 =>
            /\ gave[g] = 1
            /\ home[g] # None
            /\ \A s \in Sessions :
                row[s] # NoRow => /\ row[s].code = g => row[s].codeExp <= now
                                  /\ row[s].rt # g

OffIsNotReady == \A u \in off : link[u] # "ready"

IInv == TypeOK /\ Bound /\ AtHome /\ OffIsNotReady /\ CleanDisableHolds
=============================================================================

-------------------------- MODULE AtprotoOAuthProofs --------------------------
(***************************************************************************)
(* Proofs about AtprotoOAuth for any sets of users, sessions, tokens and   *)
(* requests and any life times.  IInv is inductive whatever the clocks do; *)
(* Spent, which OneResponse follows from, needs Lead = 0 as well.          *)
(***************************************************************************)
EXTENDS AtprotoOAuth, TLAPS

USE ConstantsAssumption, SMTT(60)

\* generate_secure_token returns a token that was not generated before.
LEMMA FreshIsUnused ==
    ASSUME NEW T, Unused(T) # {}
    PROVE  Fresh(T) \in T /\ home[Fresh(T)] = None
BY DEF Fresh, Unused

\* revoke_session and its relatives only change revoked_at.
LEMMA RevokedType ==
    ASSUME TypeOK, NEW S
    PROVE  Revoked(S) \in [Sessions -> {NoRow} \cup Rows]
BY DEF TypeOK, Revoked, Rows, NoRow

\* What store_token_artifacts and rotate_refresh_token have in common: token t is new
\* and belongs to the session of request q, the only row that changes, which keeps its
\* user; the request is over.
NewToken(q, t) ==
    /\ t \in RTs /\ home[t] = None
    /\ home'[t] = call[q].s
    /\ \A g \in Codes \cup RTs : g # t => home'[g] = home[g]
    /\ call[q] # Idle /\ call[q].s \in Sessions /\ row[call[q].s] # NoRow
    /\ row'[call[q].s] # NoRow
    /\ row'[call[q].s].user = row[call[q].s].user /\ row'[call[q].s].st = row[call[q].s].st
    /\ \A x \in Sessions : x # call[q].s => row'[x] = row[x]
    /\ \A p \in Calls : call'[p] # Idle => call'[p] = call[p]
    /\ now' = now /\ aut' = aut

\* rotate_refresh_token replaces the token.
Rotated(q, t) ==
    /\ row[call[q].s].rt = call[q].grant
    /\ row'[call[q].s].code = row[call[q].s].code
    /\ row'[call[q].s].codeExp = row[call[q].s].codeExp
    /\ row'[call[q].s].rt = t

\* store_token_artifacts writes the redeemed code back, expired, if the row is open.
Issued(q, t) ==
    \/ row'[call[q].s] = row[call[q].s]
    \/ /\ row'[call[q].s].code = call[q].grant
       /\ row'[call[q].s].codeExp = now + Lead
       /\ row'[call[q].s].rt = t

\* What a refresh does to the row it rotates.
LEMMA RotateWrites ==
    ASSUME IInv, NEW q \in Calls, RefreshRotate(q)
    PROVE  \E t : NewToken(q, t) /\ Rotated(q, t)
<1>1. call[q] # Idle /\ call[q].s \in Sessions /\ row[call[q].s] \in Rows /\ row[call[q].s] # NoRow
      /\ row[call[q].s].rt = call[q].grant
    BY DEF IInv, TypeOK, Idle, NoRow, HasRT, RefreshRotate
<1>2. PICK t \in RTs :
          /\ home[t] = None
          /\ row' = [row EXCEPT ![call[q].s] = WithRT(@, t, now + Lead + RTLife)]
          /\ home' = [home EXCEPT ![t] = call[q].s]
  <2>1. Fresh(RTs) \in RTs /\ home[Fresh(RTs)] = None
      BY FreshIsUnused DEF RefreshRotate
  <2> QED
      BY <2>1, Zenon DEF RefreshRotate
<1>3. /\ row'[call[q].s] = WithRT(row[call[q].s], t, now + Lead + RTLife)
      /\ \A x \in Sessions : x # call[q].s => row'[x] = row[x]
    BY <1>1, <1>2 DEF IInv, TypeOK
<1>4. home'[t] = call[q].s /\ \A g \in Codes \cup RTs : g # t => home'[g] = home[g]
    BY <1>1, <1>2 DEF IInv, TypeOK
<1>5. /\ row'[call[q].s] # NoRow /\ Rotated(q, t)
      /\ row'[call[q].s].user = row[call[q].s].user /\ row'[call[q].s].st = row[call[q].s].st
    BY <1>1, <1>3 DEF Rows, NoRow, WithRT, Rotated
<1>6. /\ now' = now /\ aut' = aut
      /\ \A p \in Calls : call'[p] # Idle => call'[p] = call[p]
    BY DEF IInv, TypeOK, RefreshRotate
<1> QED
    BY <1>1, <1>2, <1>3, <1>4, <1>5, <1>6 DEF NewToken

\* What a code exchange does to the row of its code.
LEMMA IssueWrites ==
    ASSUME IInv, NEW q \in Calls, ExchangeIssue(q)
    PROVE  /\ call[q].grant \in Codes
           /\ \E t : NewToken(q, t) /\ Issued(q, t)
<1>1. call[q] # Idle /\ call[q].s \in Sessions /\ row[call[q].s] # NoRow /\ call[q].grant \in Codes
    BY DEF IInv, TypeOK, Bound, AtHome, Idle, ExchangeIssue
<1>2. row[call[q].s] \in Rows
    BY <1>1 DEF IInv, TypeOK
<1>3. PICK t \in RTs :
          /\ home[t] = None
          /\ home' = [home EXCEPT ![t] = call[q].s]
          /\ \/ row' = row
             \/ row' = [row EXCEPT ![call[q].s] =
                         WithRT(WithCode(@, call[q].grant, now + Lead), t, now + Lead + RTLife)]
  <2>1. Fresh(RTs) \in RTs /\ home[Fresh(RTs)] = None
      BY FreshIsUnused DEF ExchangeIssue
  <2> QED
      BY <2>1, Zenon DEF ExchangeIssue, WithArtifacts
<1>4. home'[t] = call[q].s /\ \A g \in Codes \cup RTs : g # t => home'[g] = home[g]
    BY <1>1, <1>3 DEF IInv, TypeOK
<1>5. \A x \in Sessions : x # call[q].s => row'[x] = row[x]
    BY <1>1, <1>3 DEF IInv, TypeOK
<1>6. \/ row'[call[q].s] = row[call[q].s]
      \/ row'[call[q].s] = WithRT(WithCode(row[call[q].s], call[q].grant, now + Lead),
                                  t, now + Lead + RTLife)
    BY <1>1, <1>3 DEF IInv, TypeOK
<1>7. /\ row'[call[q].s] # NoRow /\ Issued(q, t)
      /\ row'[call[q].s].user = row[call[q].s].user /\ row'[call[q].s].st = row[call[q].s].st
    BY <1>1, <1>2, <1>6 DEF Rows, NoRow, WithCode, WithRT, Issued
<1>8. /\ now' = now /\ aut' = aut
      /\ \A p \in Calls : call'[p] # Idle => call'[p] = call[p]
    BY DEF IInv, TypeOK, ExchangeIssue
<1> QED
    BY <1>1, <1>3, <1>4, <1>5, <1>7, <1>8 DEF NewToken

\* The invariants hold of the empty table.
LEMMA InitInv == Init => IInv /\ Spent
BY DEF Init, IInv, TypeOK, Bound, AtHome, OffIsNotReady, CleanDisableHolds, Spent,
       Idle, NoRow, Links

-----------------------------------------------------------------------------
\* Every step keeps the types; that a found grant has a user rests on Bound.
LEMMA TypeOKStep ==
    ASSUME IInv, [Next]_vars
    PROVE  TypeOK'
<1>1. ASSUME NEW s \in Sessions, Par(s) PROVE TypeOK'
    BY <1>1 DEF IInv, TypeOK, Rows, Idle, NoRow, Bound, Links, Par
<1>2. ASSUME NEW a \in Authorizes, NEW s \in Sessions, NEW u \in Users, AuthorizeFind(a, s, u) PROVE TypeOK'
    BY <1>2 DEF IInv, TypeOK, Rows, Idle, NoRow, Bound, Links, AuthorizeFind
<1>3. ASSUME NEW a \in Authorizes, AuthorizeIdentity(a) PROVE TypeOK'
    BY <1>3 DEF IInv, TypeOK, Rows, Idle, NoRow, Bound, Links, AuthorizeIdentity
<1>4. ASSUME NEW a \in Authorizes, AuthorizeApprove(a) PROVE TypeOK'
    BY <1>4 DEF IInv, TypeOK, Rows, Idle, NoRow, Bound, Links, AuthorizeApprove
<1>5. ASSUME NEW a \in Authorizes, AuthorizeStore(a) PROVE TypeOK'
    BY <1>5, FreshIsUnused DEF IInv, TypeOK, Rows, Idle, NoRow, Bound, Links,
       AuthorizeStore, WithCode, Unused
<1>6. ASSUME NEW a \in Authorizes, AuthorizeFail(a) PROVE TypeOK'
    BY <1>6 DEF IInv, TypeOK, Rows, Idle, NoRow, Bound, Links, AuthorizeFail
<1>7. ASSUME NEW q \in Calls, NEW s \in Sessions, NEW c \in Codes, ExchangeFind(q, s, c) PROVE TypeOK'
    BY <1>7 DEF IInv, TypeOK, Rows, Idle, NoRow, Bound, Links, ExchangeFind, HasCode
<1>8. ASSUME NEW q \in Calls, ExchangeConsume(q) PROVE TypeOK'
    BY <1>8 DEF IInv, TypeOK, Rows, Idle, NoRow, Bound, Links, ExchangeConsume, WithCode,
       HasCode
<1>9. ASSUME NEW q \in Calls, ExchangeIssue(q) PROVE TypeOK'
    BY <1>9, FreshIsUnused DEF IInv, TypeOK, Rows, Idle, NoRow, Bound, AtHome, Links,
       ExchangeIssue, WithArtifacts, WithCode, WithRT, Unused
<1>10. ASSUME NEW q \in Calls, NEW s \in Sessions, NEW t \in RTs, RefreshFind(q, s, t) PROVE TypeOK'
    BY <1>10 DEF IInv, TypeOK, Rows, Idle, NoRow, Bound, Links, RefreshFind, HasRT
<1>11. ASSUME NEW q \in Calls, RefreshRotate(q) PROVE TypeOK'
    BY <1>11, FreshIsUnused DEF IInv, TypeOK, Rows, Idle, NoRow, Bound, Links,
       RefreshRotate, WithRT, Unused, HasRT
<1>12. ASSUME NEW q \in Calls, BindingFails(q) PROVE TypeOK'
    BY <1>12, RevokedType DEF IInv, TypeOK, Idle,
       BindingFails, ExchangeBindingFails, RefreshBindingFails
<1>13. ASSUME NEW q \in Calls, TokenFail(q) PROVE TypeOK'
    BY <1>13 DEF IInv, TypeOK, Rows, Idle, NoRow, Bound, Links, TokenFail
<1>14. ASSUME NEW e \in Changes, NEW u \in Users, EnableSet(e, u) PROVE TypeOK'
    BY <1>14 DEF IInv, TypeOK, Rows, Idle, NoRow, Bound, Links, EnableSet
<1>15. ASSUME NEW e \in Changes, NEW u \in Users, DisableSet(e, u) PROVE TypeOK'
    BY <1>15 DEF IInv, TypeOK, Rows, Idle, NoRow, Bound, Links, DisableSet
<1>16. ASSUME NEW e \in Changes, EnableFailed(e) PROVE TypeOK'
    BY <1>16 DEF IInv, TypeOK, Rows, Idle, NoRow, Bound, Links, EnableFailed
<1>17. ASSUME NEW e \in Changes, DisableRevoke(e) PROVE TypeOK'
    BY <1>17, RevokedType DEF IInv, TypeOK, Idle, DisableRevoke
<1>18. ASSUME NEW e \in Changes, ChangeEnds(e) PROVE TypeOK'
    BY <1>18 DEF IInv, TypeOK, Rows, Idle, NoRow, Bound, Links, ChangeEnds
<1>19. ASSUME NEW u \in Users, NEW l \in {"ready", "waiting"}, Sync(u, l) PROVE TypeOK'
    BY <1>19 DEF IInv, TypeOK, Rows, Idle, NoRow, Bound, Links, Sync
<1>20. ASSUME Tick PROVE TypeOK'
    BY <1>20 DEF IInv, TypeOK, Rows, Idle, NoRow, Bound, Links, Tick
<1>21. ASSUME UNCHANGED <<now, link, row, aut, call, change, home, gave, off>> PROVE TypeOK'
    BY <1>21 DEF IInv, TypeOK
<1> QED
    BY <1>1, <1>2, <1>3, <1>4, <1>5, <1>6, <1>7, <1>8, <1>9, <1>10, <1>11, <1>12, <1>13,
       <1>14, <1>15, <1>16, <1>17, <1>18, <1>19, <1>20, <1>21 DEF Next, Authorize, Token,
       Lifecycle, vars

\* store_token_artifacts and rotate_refresh_token work on a row with a user and keep it.
LEMMA NewTokenBound ==
    ASSUME IInv, NEW q \in Calls, NEW t, NewToken(q, t)
    PROVE  Bound'
<1>1. \A x \in Sessions : row[x] # NoRow => row'[x] # NoRow /\ row'[x].user = row[x].user
    BY DEF NewToken
<1>2. row'[call[q].s].user # None
    BY DEF NewToken, IInv, Bound
<1>3. \A x \in Sessions :
          row'[x] # NoRow /\ (row'[x].code # None \/ row'[x].rt # None) => row'[x].user # None
    BY <1>2 DEF NewToken, IInv, Bound
<1>4. \A a \in Authorizes : aut'[a] # Idle => aut[a].s \in Sessions /\ aut'[a] = aut[a]
    BY DEF NewToken, IInv, TypeOK
<1>5. \A p \in Calls : call'[p] # Idle => call[p].s \in Sessions /\ call'[p] = call[p]
    BY DEF NewToken, IInv, TypeOK
<1>6. \A a \in Authorizes : /\ aut'[a] # Idle => row'[aut'[a].s] # NoRow
                            /\ aut'[a].pc = "approved" => row'[aut'[a].s].user # None
    BY <1>1, <1>4 DEF IInv, Bound, Idle
<1>7. \A p \in Calls : call'[p] # Idle => row'[call'[p].s] # NoRow /\ row'[call'[p].s].user # None
    BY <1>1, <1>5 DEF IInv, Bound
<1> QED
    BY <1>3, <1>6, <1>7 DEF Bound

\* A row keeps its user, and gets a code only after it has one.
LEMMA BoundStep ==
    ASSUME IInv, [Next]_vars
    PROVE  Bound'
<1>1. ASSUME NEW s \in Sessions, Par(s) PROVE Bound'
    BY <1>1 DEF IInv, TypeOK, Rows, Idle, NoRow, Bound, Par
<1>2. ASSUME NEW a \in Authorizes, NEW s \in Sessions, NEW u \in Users, AuthorizeFind(a, s, u) PROVE Bound'
    BY <1>2 DEF IInv, TypeOK, Rows, Idle, NoRow, Bound, AuthorizeFind
<1>3. ASSUME NEW a \in Authorizes, AuthorizeIdentity(a) PROVE Bound'
    BY <1>3 DEF IInv, TypeOK, Rows, Idle, NoRow, Bound, AuthorizeIdentity
<1>4. ASSUME NEW a \in Authorizes, AuthorizeApprove(a) PROVE Bound'
    BY <1>4 DEF IInv, TypeOK, Rows, Idle, NoRow, Bound, AuthorizeApprove
<1>5. ASSUME NEW a \in Authorizes, AuthorizeStore(a) PROVE Bound'
    BY <1>5, FreshIsUnused DEF IInv, TypeOK, Rows, Idle, NoRow, Bound, AuthorizeStore,
       WithCode, Unused
<1>6. ASSUME NEW a \in Authorizes, AuthorizeFail(a) PROVE Bound'
    BY <1>6 DEF IInv, TypeOK, Rows, Idle, NoRow, Bound, AuthorizeFail
<1>7. ASSUME NEW q \in Calls, NEW s \in Sessions, NEW c \in Codes, ExchangeFind(q, s, c) PROVE Bound'
    BY <1>7 DEF IInv, TypeOK, Rows, Idle, NoRow, Bound, ExchangeFind, HasCode
<1>8. ASSUME NEW q \in Calls, ExchangeConsume(q) PROVE Bound'
    BY <1>8 DEF IInv, TypeOK, Rows, Idle, NoRow, Bound, ExchangeConsume, WithCode, HasCode
<1>9. ASSUME NEW q \in Calls, ExchangeIssue(q) PROVE Bound'
    <2>1. PICK t : NewToken(q, t)
        BY <1>9, IssueWrites, Zenon
    <2> QED
        BY <2>1, NewTokenBound, Zenon
<1>10. ASSUME NEW q \in Calls, NEW s \in Sessions, NEW t \in RTs, RefreshFind(q, s, t) PROVE Bound'
    BY <1>10 DEF IInv, TypeOK, Rows, Idle, NoRow, Bound, RefreshFind, HasRT
<1>11. ASSUME NEW q \in Calls, RefreshRotate(q) PROVE Bound'
    <2>1. PICK t : NewToken(q, t)
        BY <1>11, RotateWrites, Zenon
    <2> QED
        BY <2>1, NewTokenBound, Zenon
<1>12. ASSUME NEW q \in Calls, BindingFails(q) PROVE Bound'
    BY <1>12 DEF IInv, TypeOK, Rows, Idle, NoRow, Bound,
       BindingFails, ExchangeBindingFails, RefreshBindingFails, Revoked
<1>13. ASSUME NEW q \in Calls, TokenFail(q) PROVE Bound'
    BY <1>13 DEF IInv, TypeOK, Rows, Idle, NoRow, Bound, TokenFail
<1>14. ASSUME NEW e \in Changes, DisableRevoke(e) PROVE Bound'
    BY <1>14 DEF IInv, TypeOK, Rows, Idle, NoRow, Bound, DisableRevoke, Revoked
<1>15. ASSUME UNCHANGED <<row, aut, call>> PROVE Bound'
    BY <1>15 DEF IInv, Bound
<1> QED
    BY <1>1, <1>2, <1>3, <1>4, <1>5, <1>6, <1>7, <1>8, <1>9, <1>10, <1>11, <1>12, <1>13,
       <1>14, <1>15 DEF Next, Authorize, Token, Lifecycle, vars, EnableSet, DisableSet,
       EnableFailed, ChangeEnds, Sync, Tick

\* store_token_artifacts and rotate_refresh_token write the new token to its own session.
LEMMA NewTokenAtHome ==
    ASSUME IInv, NEW q \in Calls, NEW t, NewToken(q, t),
           \A x \in Sessions : row'[x] # NoRow =>
              /\ row'[x].code # None => home[row'[x].code] = x /\ row'[x].code \in Codes
              /\ row'[x].rt # None => \/ row'[x].rt = t /\ x = call[q].s
                                      \/ home[row'[x].rt] = x /\ row'[x].rt \in RTs
    PROVE  AtHome'
<1>1. home'[t] = call[q].s
      /\ \A g \in Codes \cup RTs : home[g] # None => home'[g] = home[g]
    BY DEF NewToken
<1>2. \A x \in Sessions : row'[x] # NoRow => /\ row'[x].code # None => home'[row'[x].code] = x
                                             /\ row'[x].rt # None => home'[row'[x].rt] = x
    BY <1>1
<1>3. \A p \in Calls : call'[p] # Idle => /\ call'[p] = call[p] /\ call[p].s \in Sessions
                                          /\ call[p].grant \in Codes \cup RTs
    BY DEF NewToken, IInv, TypeOK
<1>4. \A p \in Calls : call'[p] # Idle => home'[call'[p].grant] = call'[p].s
    BY <1>1, <1>3 DEF IInv, AtHome
<1>5. \A p \in Calls : call'[p].pc \in {"code", "consumed"} => call'[p].grant \in Codes
    BY <1>3 DEF IInv, AtHome, Idle
<1> QED
    BY <1>2, <1>4, <1>5 DEF AtHome

\* No statement moves a token to another session.
LEMMA AtHomeStep ==
    ASSUME IInv, [Next]_vars
    PROVE  AtHome'
<1>1. ASSUME NEW s \in Sessions, Par(s) PROVE AtHome'
    BY <1>1 DEF IInv, TypeOK, Rows, Idle, NoRow, AtHome, Par
<1>2. ASSUME NEW a \in Authorizes, AuthorizeApprove(a) PROVE AtHome'
    BY <1>2 DEF IInv, TypeOK, Rows, Idle, NoRow, AtHome, AuthorizeApprove
<1>3. ASSUME NEW a \in Authorizes, AuthorizeStore(a) PROVE AtHome'
    BY <1>3, FreshIsUnused DEF IInv, TypeOK, Rows, Idle, NoRow, AtHome, AuthorizeStore,
       WithCode, Unused
<1>4. ASSUME NEW q \in Calls, NEW s \in Sessions, NEW c \in Codes, ExchangeFind(q, s, c) PROVE AtHome'
    BY <1>4 DEF IInv, TypeOK, Rows, Idle, NoRow, AtHome, ExchangeFind, HasCode
<1>5. ASSUME NEW q \in Calls, ExchangeConsume(q) PROVE AtHome'
    BY <1>5 DEF IInv, TypeOK, Rows, Idle, NoRow, AtHome, ExchangeConsume, WithCode, HasCode
<1>6. ASSUME NEW q \in Calls, ExchangeIssue(q) PROVE AtHome'
    <2>1. PICK t : NewToken(q, t) /\ Issued(q, t)
        BY <1>6, IssueWrites, Zenon
    <2>2. call[q].grant \in Codes /\ home[call[q].grant] = call[q].s
        <3>1. call[q].grant \in Codes
            BY <1>6, IssueWrites, Zenon
        <3>2. call[q] # Idle
            BY <2>1, Zenon DEF NewToken
        <3> QED
            BY <3>1, <3>2 DEF IInv, AtHome
    <2>3. \A x \in Sessions : row'[x] # NoRow =>
              /\ row'[x].code # None => home[row'[x].code] = x /\ row'[x].code \in Codes
              /\ row'[x].rt # None => \/ row'[x].rt = t /\ x = call[q].s
                                      \/ home[row'[x].rt] = x /\ row'[x].rt \in RTs
        BY <2>1, <2>2 DEF NewToken, Issued, IInv, TypeOK, Rows, AtHome
    <2> QED
        BY <2>1, <2>3, NewTokenAtHome
<1>7. ASSUME NEW q \in Calls, NEW s \in Sessions, NEW t \in RTs, RefreshFind(q, s, t) PROVE AtHome'
    BY <1>7 DEF IInv, TypeOK, Rows, Idle, NoRow, AtHome, RefreshFind, HasRT
<1>8. ASSUME NEW q \in Calls, RefreshRotate(q) PROVE AtHome'
    <2>1. PICK t : NewToken(q, t) /\ Rotated(q, t)
        BY <1>8, RotateWrites, Zenon
    <2>2. \A x \in Sessions : row'[x] # NoRow =>
              /\ row'[x].code # None => home[row'[x].code] = x /\ row'[x].code \in Codes
              /\ row'[x].rt # None => \/ row'[x].rt = t /\ x = call[q].s
                                      \/ home[row'[x].rt] = x /\ row'[x].rt \in RTs
        BY <2>1 DEF NewToken, Rotated, IInv, TypeOK, Rows, AtHome
    <2> QED
        BY <2>1, <2>2, NewTokenAtHome
<1>9. ASSUME NEW q \in Calls, BindingFails(q) PROVE AtHome'
    BY <1>9 DEF IInv, TypeOK, Rows, Idle, NoRow, AtHome,
       BindingFails, ExchangeBindingFails, RefreshBindingFails, Revoked
<1>10. ASSUME NEW q \in Calls, TokenFail(q) PROVE AtHome'
    BY <1>10 DEF IInv, TypeOK, Rows, Idle, NoRow, AtHome, TokenFail
<1>11. ASSUME NEW e \in Changes, DisableRevoke(e) PROVE AtHome'
    BY <1>11 DEF IInv, TypeOK, Rows, Idle, NoRow, AtHome, DisableRevoke, Revoked
<1>12. ASSUME UNCHANGED <<row, call, home>> PROVE AtHome'
    BY <1>12 DEF IInv, AtHome
<1> QED
    BY <1>1, <1>2, <1>3, <1>4, <1>5, <1>6, <1>7, <1>8, <1>9, <1>10, <1>11, <1>12 DEF Next,
       Authorize, Token, Lifecycle, vars, AuthorizeFind, AuthorizeIdentity, AuthorizeFail,
       EnableSet, DisableSet, EnableFailed, ChangeEnds, Sync, Tick

\* Only a sync to "ready" makes a link ready, and it ends the history of the disable.
LEMMA OffStep ==
    ASSUME IInv, [Next]_vars
    PROVE  OffIsNotReady'
<1>1. ASSUME NEW e \in Changes, NEW u \in Users, EnableSet(e, u) PROVE OffIsNotReady'
    BY <1>1 DEF IInv, TypeOK, OffIsNotReady, EnableSet
<1>2. ASSUME NEW e \in Changes, NEW u \in Users, DisableSet(e, u) PROVE OffIsNotReady'
    BY <1>2 DEF IInv, TypeOK, OffIsNotReady, DisableSet
<1>3. ASSUME NEW e \in Changes, EnableFailed(e) PROVE OffIsNotReady'
    BY <1>3 DEF IInv, TypeOK, OffIsNotReady, EnableFailed
<1>4. ASSUME NEW e \in Changes, DisableRevoke(e) PROVE OffIsNotReady'
    BY <1>4 DEF IInv, TypeOK, OffIsNotReady, DisableRevoke, Revoked
<1>5. ASSUME NEW u \in Users, NEW l \in {"ready", "waiting"}, Sync(u, l) PROVE OffIsNotReady'
    BY <1>5 DEF IInv, TypeOK, OffIsNotReady, Sync
<1>6. ASSUME UNCHANGED <<link, off>> PROVE OffIsNotReady'
    BY <1>6 DEF IInv, OffIsNotReady
<1> QED
    BY <1>1, <1>2, <1>3, <1>4, <1>5, <1>6, Zenon DEF Next, Authorize, Token, Lifecycle, vars, Par,
       AuthorizeFind, AuthorizeIdentity, AuthorizeApprove, AuthorizeStore, AuthorizeFail,
       ExchangeFind, ExchangeConsume, ExchangeIssue, RefreshFind, RefreshRotate,
       BindingFails, TokenFail, ChangeEnds, Tick

\* A step of the token endpoint that opens no session and starts no request for a user
\* leaves a disabled user without either.
LEMMA CleanKept ==
    ASSUME IInv, off' = off, aut' = aut,
           \A x \in Sessions : row'[x].st = "open" => row[x].st = "open" /\ row'[x].user = row[x].user,
           \A p \in Calls : call'[p].pc # "idle" => call[p].pc # "idle" /\ call'[p].user = call[p].user
    PROVE  CleanDisableHolds'
<1>1. ASSUME NEW u \in off' PROVE ~ActsFor(u)'
    <2>1. ~ActsFor(u)
        BY <1>1 DEF IInv, CleanDisableHolds
    <2> QED
        BY <2>1 DEF ActsFor
<1>2. ASSUME NEW u \in off', NEW x \in Sessions, row'[x].st = "open" PROVE row'[x].user # u
    BY <1>2 DEF IInv, CleanDisableHolds
<1> QED
    BY <1>1, <1>2 DEF CleanDisableHolds

\* A request starts to act for a user from a ready link or from an open session of theirs.
LEMMA CleanStep ==
    ASSUME IInv, [Next]_vars
    PROVE  CleanDisableHolds'
<1>1. ASSUME NEW s \in Sessions, Par(s) PROVE CleanDisableHolds'
    BY <1>1 DEF IInv, TypeOK, Rows, Idle, NoRow, OffIsNotReady, CleanDisableHolds, ActsFor,
       Par
<1>2. ASSUME NEW a \in Authorizes, NEW s \in Sessions, NEW u \in Users, AuthorizeFind(a, s, u) PROVE CleanDisableHolds'
    BY <1>2 DEF IInv, TypeOK, Rows, Idle, NoRow, OffIsNotReady, CleanDisableHolds, ActsFor,
       AuthorizeFind
<1>3. ASSUME NEW a \in Authorizes, AuthorizeIdentity(a) PROVE CleanDisableHolds'
    BY <1>3 DEF IInv, TypeOK, Rows, Idle, NoRow, OffIsNotReady, CleanDisableHolds, ActsFor,
       AuthorizeIdentity
<1>4. ASSUME NEW a \in Authorizes, AuthorizeApprove(a) PROVE CleanDisableHolds'
    BY <1>4 DEF IInv, TypeOK, Rows, Idle, NoRow, OffIsNotReady, CleanDisableHolds, ActsFor,
       AuthorizeApprove
<1>5. ASSUME NEW a \in Authorizes, AuthorizeStore(a) PROVE CleanDisableHolds'
    BY <1>5, FreshIsUnused DEF IInv, TypeOK, Rows, Idle, NoRow, OffIsNotReady,
       CleanDisableHolds, ActsFor, AuthorizeStore, WithCode, Unused
<1>6. ASSUME NEW a \in Authorizes, AuthorizeFail(a) PROVE CleanDisableHolds'
    BY <1>6 DEF IInv, TypeOK, Rows, Idle, NoRow, OffIsNotReady, CleanDisableHolds, ActsFor,
       AuthorizeFail
<1>7. ASSUME NEW q \in Calls, NEW s \in Sessions, NEW c \in Codes, ExchangeFind(q, s, c) PROVE CleanDisableHolds'
    BY <1>7 DEF IInv, TypeOK, Rows, Idle, NoRow, OffIsNotReady, CleanDisableHolds, ActsFor,
       ExchangeFind, HasCode
<1>8. ASSUME NEW q \in Calls, ExchangeConsume(q) PROVE CleanDisableHolds'
    <2>1. PICK s \in Sessions : /\ HasCode(s, call[q].grant)
                                /\ row' = [row EXCEPT ![s] = WithCode(@, None, 0)]
        BY <1>8, Zenon DEF ExchangeConsume
    <2>2. \A x \in Sessions : row'[x].st = "open" => row[x].st = "open" /\ row'[x].user = row[x].user
        BY <2>1 DEF IInv, TypeOK, HasCode, WithCode
    <2>3. /\ off' = off /\ aut' = aut
          /\ \A p \in Calls : call'[p].pc # "idle" => call[p].pc # "idle" /\ call'[p].user = call[p].user
        BY <1>8 DEF IInv, TypeOK, ExchangeConsume
    <2> QED
        BY <2>2, <2>3, CleanKept, Zenon
<1>9. ASSUME NEW q \in Calls, ExchangeIssue(q) PROVE CleanDisableHolds'
    <2>1. PICK t : NewToken(q, t)
        BY <1>9, IssueWrites, Zenon
    <2>2. \A x \in Sessions : row'[x].st = "open" => row[x].st = "open" /\ row'[x].user = row[x].user
        BY <2>1 DEF NewToken
    <2>3. /\ aut' = aut
          /\ \A p \in Calls : call'[p].pc # "idle" => call[p].pc # "idle" /\ call'[p].user = call[p].user
        BY <2>1 DEF NewToken, Idle
    <2>4. off' = off
        BY <1>9 DEF ExchangeIssue
    <2> QED
        BY <2>2, <2>3, <2>4, CleanKept, Zenon
<1>10. ASSUME NEW q \in Calls, NEW s \in Sessions, NEW t \in RTs, RefreshFind(q, s, t) PROVE CleanDisableHolds'
    BY <1>10 DEF IInv, TypeOK, Rows, Idle, NoRow, OffIsNotReady, CleanDisableHolds, ActsFor,
       RefreshFind, HasRT
<1>11. ASSUME NEW q \in Calls, RefreshRotate(q) PROVE CleanDisableHolds'
    <2>1. PICK t : NewToken(q, t)
        BY <1>11, RotateWrites, Zenon
    <2>2. \A x \in Sessions : row'[x].st = "open" => row[x].st = "open" /\ row'[x].user = row[x].user
        BY <2>1 DEF NewToken
    <2>3. /\ aut' = aut
          /\ \A p \in Calls : call'[p].pc # "idle" => call[p].pc # "idle" /\ call'[p].user = call[p].user
        BY <2>1 DEF NewToken, Idle
    <2>4. off' = off
        BY <1>11 DEF RefreshRotate
    <2> QED
        BY <2>2, <2>3, <2>4, CleanKept, Zenon
<1>12. ASSUME NEW q \in Calls, BindingFails(q) PROVE CleanDisableHolds'
    BY <1>12 DEF IInv, TypeOK, Rows, Idle, NoRow, OffIsNotReady, CleanDisableHolds, ActsFor,
       BindingFails, ExchangeBindingFails, RefreshBindingFails, Revoked
<1>13. ASSUME NEW q \in Calls, TokenFail(q) PROVE CleanDisableHolds'
    BY <1>13 DEF IInv, TypeOK, Rows, Idle, NoRow, OffIsNotReady, CleanDisableHolds, ActsFor,
       TokenFail
<1>14. ASSUME NEW e \in Changes, DisableRevoke(e) PROVE CleanDisableHolds'
    BY <1>14 DEF IInv, TypeOK, Rows, Idle, NoRow, OffIsNotReady, CleanDisableHolds, ActsFor,
       DisableRevoke, Revoked
<1>15. ASSUME NEW u \in Users, NEW l \in {"ready", "waiting"}, Sync(u, l) PROVE CleanDisableHolds'
    BY <1>15 DEF IInv, TypeOK, Rows, Idle, NoRow, OffIsNotReady, CleanDisableHolds, ActsFor,
       Sync
<1>16. ASSUME UNCHANGED <<row, aut, call, off>> PROVE CleanDisableHolds'
    BY <1>16 DEF IInv, CleanDisableHolds, ActsFor
<1> QED
    BY <1>1, <1>2, <1>3, <1>4, <1>5, <1>6, <1>7, <1>8, <1>9, <1>10, <1>11, <1>12, <1>13,
       <1>14, <1>15, <1>16 DEF Next, Authorize, Token, Lifecycle, vars, EnableSet,
       DisableSet, EnableFailed, ChangeEnds, Tick

\* A redeemed token is not found again: its row has another one, or the code written
\* back by store_token_artifacts, which has expired when the clocks agree.
LEMMA SpentStep ==
    ASSUME Lead = 0, IInv, Spent, [Next]_vars
    PROVE  Spent'
<1>1. ASSUME NEW s \in Sessions, Par(s) PROVE Spent'
    <2>1. /\ row'[s].code = None /\ row'[s].rt = None
          /\ \A x \in Sessions : x # s => row'[x] = row[x]
        BY <1>1 DEF IInv, TypeOK, Par
    <2>2. UNCHANGED <<now, home, gave>>
        BY <1>1, Zenon DEF Par
    <2> QED
        BY <2>1, <2>2 DEF Spent
<1>2. ASSUME NEW a \in Authorizes, AuthorizeApprove(a) PROVE Spent'
    BY <1>2 DEF IInv, TypeOK, Rows, Idle, NoRow, Spent, AuthorizeApprove
<1>3. ASSUME NEW a \in Authorizes, AuthorizeStore(a) PROVE Spent'
    BY <1>3, FreshIsUnused DEF IInv, TypeOK, Rows, Idle, NoRow, Spent, AuthorizeStore,
       WithCode, Unused
<1>4. ASSUME NEW q \in Calls, ExchangeConsume(q) PROVE Spent'
    <2>1. PICK s \in Sessions : /\ HasCode(s, call[q].grant)
                                /\ row' = [row EXCEPT ![s] = WithCode(@, None, 0)]
        BY <1>4, Zenon DEF ExchangeConsume
    <2>2. call[q].grant \in Codes /\ row[s] \in Rows /\ row[s] # NoRow /\ home[call[q].grant] # None
          /\ gave[call[q].grant] = 0
        <3>1. call[q].grant \in Codes
            BY <1>4 DEF IInv, AtHome, ExchangeConsume
        <3>2. row[s] \in Rows /\ row[s] # NoRow
            BY <2>1 DEF IInv, TypeOK, HasCode, NoRow
        <3>3. home[call[q].grant] = s
            BY <2>1, <3>1, <3>2 DEF IInv, AtHome, HasCode
        <3>4. row[s].code = call[q].grant /\ ~(row[s].codeExp <= now)
            BY <2>1, <3>2 DEF IInv, TypeOK, Rows, HasCode
        <3> QED
            BY <3>1, <3>2, <3>3, <3>4 DEF Spent
    <2>3. /\ row'[s] # NoRow => row'[s].code = None /\ row'[s].rt = row[s].rt
          /\ \A x \in Sessions : x # s => row'[x] = row[x]
        BY <2>1, <2>2 DEF IInv, TypeOK, WithCode
    <2>4. \A x \in Sessions : row'[x] # NoRow =>
              row'[x].code # call[q].grant /\ row'[x].rt # call[q].grant
        BY <2>1, <2>2, <2>3 DEF IInv, TypeOK, AtHome, Rows, HasCode
    <2>5. /\ now' = now /\ home' = home /\ gave'[call[q].grant] = 1
          /\ \A g \in Codes \cup RTs : g # call[q].grant => gave'[g] = gave[g]
        BY <1>4, <2>2 DEF IInv, TypeOK, ExchangeConsume
    <2> QED
        BY <2>2, <2>3, <2>4, <2>5 DEF Spent
<1>5. ASSUME NEW q \in Calls, ExchangeIssue(q) PROVE Spent'
    <2>1. PICK t : NewToken(q, t) /\ Issued(q, t)
        BY <1>5, IssueWrites, Zenon
    <2>2. \A g \in Codes \cup RTs : gave[g] # 0 => g # t /\ home'[g] = home[g]
        BY <2>1 DEF NewToken, Spent
    <2>3. \A x \in Sessions, g \in Codes \cup RTs : row'[x] # NoRow /\ gave[g] # 0 =>
              (row'[x].code = g => row'[x].codeExp <= now) /\ row'[x].rt # g
        BY <2>1, <2>2 DEF NewToken, Issued, IInv, TypeOK, Spent
    <2>4. now' = now /\ gave' = gave
        BY <1>5 DEF ExchangeIssue
    <2> QED
        BY <2>2, <2>3, <2>4 DEF Spent
<1>6. ASSUME NEW q \in Calls, RefreshRotate(q) PROVE Spent'
    <2>1. PICK t : NewToken(q, t) /\ Rotated(q, t)
        BY <1>6, RotateWrites, Zenon
    <2>2. call[q].grant \in RTs /\ home[call[q].grant] = call[q].s /\ gave[call[q].grant] = 0
        <3>1. call[q].grant \in Codes \cup RTs /\ row[call[q].s] \in Rows
            BY <2>1 DEF NewToken, IInv, TypeOK
        <3>2. home[call[q].grant] = call[q].s
            BY <2>1, Zenon DEF NewToken, IInv, AtHome
        <3> QED
            BY <2>1, <3>1, <3>2 DEF NewToken, Rotated, Spent, Rows
    <2>3. \A x \in Sessions : row'[x] # NoRow =>
              row'[x].code # call[q].grant /\ row'[x].rt # call[q].grant
        <3>1. \A x \in Sessions : row'[x] # NoRow => row[x] # NoRow /\ row'[x].code = row[x].code
            BY <2>1 DEF NewToken, Rotated
        <3>2. \A x \in Sessions : row[x] # NoRow => row[x].code # call[q].grant
            BY <2>2 DEF IInv, TypeOK, Rows
        <3>3. \A x \in Sessions : row[x] # NoRow /\ x # call[q].s => row[x].rt # call[q].grant
            BY <2>2 DEF IInv, AtHome
        <3>4. t # call[q].grant /\ row'[call[q].s].rt = t
            BY <2>1, <2>2 DEF NewToken, Rotated
        <3>5. \A x \in Sessions : x # call[q].s => row'[x] = row[x]
            BY <2>1 DEF NewToken
        <3> QED
            BY <3>1, <3>2, <3>3, <3>4, <3>5
    <2>4. \A g \in Codes \cup RTs : gave[g] # 0 => g # t /\ home'[g] = home[g]
        BY <2>1 DEF NewToken, Spent
    <2>5. \A x \in Sessions, g \in Codes \cup RTs : row'[x] # NoRow /\ gave[g] # 0 =>
              (row'[x].code = g => row'[x].codeExp <= now) /\ row'[x].rt # g
        BY <2>1, <2>4 DEF NewToken, Rotated, Spent
    <2>6. /\ now' = now /\ gave'[call[q].grant] = 1
          /\ \A g \in Codes \cup RTs : g # call[q].grant => gave'[g] = gave[g]
        BY <1>6, <2>2 DEF IInv, TypeOK, RefreshRotate
    <2>7. home'[call[q].grant] # None
        BY <2>1, <2>2 DEF NewToken
    <2> QED
        BY <2>2, <2>3, <2>4, <2>5, <2>6, <2>7 DEF Spent
<1>7. ASSUME NEW q \in Calls, BindingFails(q) PROVE Spent'
    BY <1>7 DEF IInv, TypeOK, Rows, Idle, NoRow, Spent,
       BindingFails, ExchangeBindingFails, RefreshBindingFails, Revoked
<1>8. ASSUME NEW e \in Changes, DisableRevoke(e) PROVE Spent'
    BY <1>8 DEF IInv, TypeOK, Rows, Idle, NoRow, Spent, DisableRevoke, Revoked
<1>9. ASSUME Tick PROVE Spent'
    BY <1>9 DEF IInv, TypeOK, Rows, Idle, NoRow, Spent, Tick
<1>10. ASSUME UNCHANGED <<now, row, home, gave>> PROVE Spent'
    BY <1>10 DEF Spent
<1> QED
    BY <1>1, <1>2, <1>3, <1>4, <1>5, <1>6, <1>7, <1>8, <1>9, <1>10, Zenon DEF Next, Authorize,
       Token, Lifecycle, vars, AuthorizeFind, AuthorizeIdentity, AuthorizeFail,
       ExchangeFind, RefreshFind, TokenFail, EnableSet, DisableSet, EnableFailed,
       ChangeEnds, Sync

-----------------------------------------------------------------------------
\* The invariant holds of every state the handlers reach.
THEOREM Invariance == Spec => []IInv
<1>1. Init => IInv
    BY InitInv
<1>2. IInv /\ [Next]_vars => IInv'
    BY TypeOKStep, BoundStep, AtHomeStep, OffStep, CleanStep DEF IInv
<1> QED
    BY <1>1, <1>2, PTL DEF Spec

\* Rows, requests and links keep their types, and a code or refresh token that the
\* token endpoint finds always names a user.
THEOREM TypeCorrect == Spec => []TypeOK
<1>1. IInv => TypeOK
    BY DEF IInv
<1> QED
    BY <1>1, Invariance, PTL

\* After disable_atproto or internal_sync_atproto revoked the sessions of a user with
\* nothing of theirs in flight, no session of theirs is open and no request acts for
\* them until the link is ready again.
THEOREM CleanDisable == Spec => []CleanDisableHolds
<1>1. IInv => CleanDisableHolds
    BY DEF IInv
<1> QED
    BY <1>1, Invariance, PTL

\* With clocks that agree, the token endpoint answers each code and each refresh token
\* with tokens at most once.
THEOREM GrantsAreSingleUse == Lead = 0 => (Spec => []OneResponse)
<1> SUFFICES ASSUME Lead = 0 PROVE Spec => []OneResponse
    OBVIOUS
<1>1. Init => Spent
    BY InitInv
<1>2. IInv /\ Spent /\ [Next]_vars => Spent'
    BY SpentStep
<1>3. IInv /\ Spent => OneResponse
    BY DEF IInv, TypeOK, Spent, OneResponse
<1> QED
    BY <1>1, <1>2, <1>3, Invariance, PTL DEF Spec
===============================================================================

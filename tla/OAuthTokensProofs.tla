-------------------------- MODULE OAuthTokensProofs --------------------------
(***************************************************************************)
(* Proofs about OAuthTokens, for every number of codes, authorizations,    *)
(* refresh tokens and concurrent requests.                                 *)
(***************************************************************************)
EXTENDS OAuthTokens, TLAPS

\* Types are preserved by every step, given what the control state of an
\* exchange says about its fields.
LEMMA TypeStep == TypeOK /\ ExchangeState /\ [Next]_vars => TypeOK'
<1> SUFFICES ASSUME TypeOK, ExchangeState, [Next]_vars PROVE TypeOK'
    OBVIOUS
<1> USE ConstantsAssumption DEF TypeOK, ExchangeState, Idle, NoCode, NoRT, Scopes
<1>1. ASSUME NEW c \in Codes, NEW s \in Scopes, NEW prev \in Auths \cup {None},
             StoreCode(c, s, prev)
      PROVE  TypeOK'
    BY <1>1 DEF StoreCode
<1>2. ASSUME NEW x \in Exchanges, NEW c \in Codes, ExchangeFind(x, c) PROVE TypeOK'
  <2>1. code[c] \in [st : {"stored", "gone"}, scope : Scopes, prev : Auths \cup {None}, exp : Nat]
      BY <1>2 DEF ExchangeFind
  <2>2. ex' \in [Exchanges -> {Idle} \cup
                     [pc : {"found", "deleted", "resolved", "authed", "issued", "prev"},
                      code : Codes, prev : Auths \cup {None}, auth : Auths \cup {None}]]
      BY <1>2, <2>1 DEF ExchangeFind
  <2> QED  BY <1>2, <2>2 DEF ExchangeFind
<1>3. ASSUME NEW x \in Exchanges, ExchangeDelete(x) PROVE TypeOK'
  <2>1. ex[x].code \in Codes /\ code[ex[x].code] # NoCode
      BY <1>3 DEF ExchangeDelete
  <2>2. code' \in [Codes -> {NoCode} \cup
                       [st : {"stored", "gone"}, scope : Scopes, prev : Auths \cup {None},
                        exp : Nat]]
      BY <1>3, <2>1 DEF ExchangeDelete
  <2>3. ex' \in [Exchanges -> {Idle} \cup
                     [pc : {"found", "deleted", "resolved", "authed", "issued", "prev"},
                      code : Codes, prev : Auths \cup {None}, auth : Auths \cup {None}]]
      BY <1>3 DEF ExchangeDelete
  <2> QED  BY <1>3, <2>2, <2>3 DEF ExchangeDelete
<1>4. ASSUME NEW x \in Exchanges, ExchangeResolve(x) PROVE TypeOK'
    BY <1>4 DEF ExchangeResolve
<1>5. ASSUME NEW x \in Exchanges, NEW a \in Auths, ExchangeCreate(x, a) PROVE TypeOK'
  <2>1. ex' \in [Exchanges -> {Idle} \cup
                     [pc : {"found", "deleted", "resolved", "authed", "issued", "prev"},
                      code : Codes, prev : Auths \cup {None}, auth : Auths \cup {None}]]
      BY <1>5 DEF ExchangeCreate
  <2>2. auth' \in [Auths -> {"none", "active", "revoked"}]
      BY <1>5 DEF ExchangeCreate
  <2> QED  BY <1>5, <2>1, <2>2 DEF ExchangeCreate
<1>6. ASSUME NEW x \in Exchanges, NEW t \in RTs, ExchangeIssue(x, t) PROVE TypeOK'
    BY <1>6 DEF ExchangeIssue, NewRT
<1>7. ASSUME NEW a \in Auths, rt' = RevokedRTs(a)
      PROVE  rt' \in [RTs -> {NoRT} \cup [st : {"live", "consumed"}, auth : Auths, exp : Nat]]
    BY <1>7 DEF RevokedRTs
<1>8. ASSUME NEW x \in Exchanges, ExchangeRevokePrevRTs(x) PROVE TypeOK'
    BY <1>7, <1>8 DEF ExchangeRevokePrevRTs
<1>9. ASSUME NEW x \in Exchanges, ExchangeRevokePrev(x) PROVE TypeOK'
    BY <1>9 DEF ExchangeRevokePrev
<1>10. ASSUME NEW x \in Exchanges, ExchangeFails(x) PROVE TypeOK'
    BY <1>10 DEF ExchangeFails
<1>11. ASSUME NEW y \in Refreshes, NEW t \in RTs, RefreshConsume(y, t) PROVE TypeOK'
    BY <1>11 DEF RefreshConsume
<1>12. ASSUME NEW y \in Refreshes, NEW t \in RTs, RefreshIssue(y, t) PROVE TypeOK'
    BY <1>12 DEF RefreshIssue, NewRT
<1>13. ASSUME NEW y \in Refreshes, RefreshCheck(y) \/ RefreshFails(y) PROVE TypeOK'
    BY <1>13 DEF RefreshCheck, RefreshFails
<1>14. ASSUME NEW a \in Auths, RevokeSession(a) PROVE TypeOK'
    BY <1>14 DEF RevokeSession
<1>15. ASSUME NEW a \in Auths, RevokeCustomerAppRTs(a) PROVE TypeOK'
    BY <1>7, <1>15 DEF RevokeCustomerAppRTs
<1>16. CASE RevokeCustomerApp \/ RevokeCustomerAppFails \/ Tick
    BY <1>16 DEF RevokeCustomerApp, RevokeCustomerAppFails, Tick
<1>17. CASE UNCHANGED vars
    BY <1>17 DEF vars
<1> HIDE DEF TypeOK, ExchangeState, Idle, NoCode, NoRT, Scopes
<1> QED
    BY <1>1, <1>2, <1>3, <1>4, <1>5, <1>6, <1>8, <1>9, <1>10, <1>11, <1>12, <1>13, <1>14,
       <1>15, <1>16, <1>17
    DEF Next, AuthorizePost, AuthorizeByHandle, AuthorizeByOrigin, ExchangeRefused,
        RefreshRefused

\* The control state of an exchange keeps describing its fields.
LEMMA ExchangeStateStep == TypeOK /\ ExchangeState /\ [Next]_vars => ExchangeState'
<1> SUFFICES ASSUME TypeOK, ExchangeState, [Next]_vars, NEW w \in Exchanges
             PROVE  /\ ex'[w].pc = "authed" => ex'[w].auth \in Auths
                    /\ ex'[w].pc \in {"issued", "prev"} => ex'[w].prev \in Auths
                    /\ ex'[w].pc \in {"found", "deleted", "resolved"}
                          => code'[ex'[w].code] # NoCode
    BY DEF ExchangeState
<1> DEFINE Ok == /\ ex'[w].pc = "authed" => ex'[w].auth \in Auths
                 /\ ex'[w].pc \in {"issued", "prev"} => ex'[w].prev \in Auths
                 /\ ex'[w].pc \in {"found", "deleted", "resolved"}
                       => code'[ex'[w].code] # NoCode
<1> USE ConstantsAssumption DEF TypeOK, ExchangeState, Idle, NoCode
<1>1. ASSUME NEW c \in Codes, NEW s \in Scopes, NEW prev \in Auths \cup {None},
             StoreCode(c, s, prev)
      PROVE  Ok
    BY <1>1 DEF StoreCode
<1>2. ASSUME NEW x \in Exchanges, NEW c \in Codes, ExchangeFind(x, c) PROVE Ok
    BY <1>2 DEF ExchangeFind
<1>3. ASSUME NEW x \in Exchanges, ExchangeDelete(x) PROVE Ok
    BY <1>3 DEF ExchangeDelete
<1>4. ASSUME NEW x \in Exchanges, ExchangeResolve(x) PROVE Ok
    BY <1>4 DEF ExchangeResolve
<1>5. ASSUME NEW x \in Exchanges, NEW a \in Auths, ExchangeCreate(x, a) PROVE Ok
    BY <1>5 DEF ExchangeCreate
<1>6. ASSUME NEW x \in Exchanges, NEW t \in RTs, ExchangeIssue(x, t) PROVE Ok
    BY <1>6 DEF ExchangeIssue
<1>7. ASSUME NEW x \in Exchanges,
             ExchangeRevokePrevRTs(x) \/ ExchangeRevokePrev(x) \/ ExchangeFails(x)
      PROVE  Ok
    BY <1>7 DEF ExchangeRevokePrevRTs, ExchangeRevokePrev, ExchangeFails
<1>8. ASSUME UNCHANGED <<code, ex>> PROVE Ok
    BY <1>8
<1> HIDE DEF TypeOK, ExchangeState, Idle, NoCode, Ok
<1>9. ASSUME NEW y \in Refreshes, NEW t \in RTs,
             RefreshConsume(y, t) \/ RefreshIssue(y, t) \/ RefreshCheck(y) \/ RefreshFails(y)
      PROVE  UNCHANGED <<code, ex>>
    BY <1>9 DEF RefreshConsume, RefreshIssue, RefreshCheck, RefreshFails
<1>10. ASSUME NEW y \in Refreshes, RefreshCheck(y) \/ RefreshFails(y)
       PROVE  UNCHANGED <<code, ex>>
    BY <1>10 DEF RefreshCheck, RefreshFails
<1>11. ASSUME NEW a \in Auths, RevokeSession(a) \/ RevokeCustomerAppRTs(a)
       PROVE  UNCHANGED <<code, ex>>
    BY <1>11 DEF RevokeSession, RevokeCustomerAppRTs
<1>12. ASSUME RevokeCustomerApp \/ RevokeCustomerAppFails \/ Tick \/ UNCHANGED vars
       PROVE  UNCHANGED <<code, ex>>
    BY <1>12 DEF RevokeCustomerApp, RevokeCustomerAppFails, Tick, vars
<1> QED
  <2>1. Ok
    BY <1>1, <1>2, <1>3, <1>4, <1>5, <1>6, <1>7, <1>8, <1>9, <1>10, <1>11, <1>12
    DEF Next, AuthorizePost, AuthorizeByHandle, AuthorizeByOrigin, ExchangeRefused,
        RefreshRefused
  <2> QED  BY <2>1 DEF Ok

\* A step that gives the baton to nobody new keeps it unique.
LEMMA BatonShrinks ==
    ASSUME OneBaton,
           \A a \in Auths : /\ Live(a)' \subseteq Live(a)
                            /\ Refreshing(a)' \subseteq Refreshing(a)
                            /\ Granting(a)' \subseteq Granting(a)
                            /\ auth'[a] = "none" => auth[a] = "none"
    PROVE  OneBaton'
<1> SUFFICES ASSUME NEW a \in Auths
             PROVE  /\ \A t, u \in Live(a)' : t = u
                    /\ \A y, z \in Refreshing(a)' : y = z
                    /\ \A x, w \in Granting(a)' : x = w
                    /\ Live(a)' = {} \/ Refreshing(a)' = {}
                    /\ Live(a)' = {} \/ Granting(a)' = {}
                    /\ Refreshing(a)' = {} \/ Granting(a)' = {}
                    /\ auth'[a] = "none" => /\ Live(a)' = {}
                                            /\ Refreshing(a)' = {}
                                            /\ Granting(a)' = {}
    BY DEF OneBaton
<1> QED  BY DEF OneBaton

\* The baton stays unique.
LEMMA OneBatonStep == IInv /\ [Next]_vars => OneBaton'
<1> SUFFICES ASSUME TypeOK, ExchangeState, OneBaton, [Next]_vars PROVE OneBaton'
    BY DEF IInv
<1> USE ConstantsAssumption
<1>1. ASSUME UNCHANGED <<auth, rt, ex, ref>> PROVE OneBaton'
    BY <1>1, BatonShrinks DEF Live, Refreshing, Granting
<1>2. ASSUME NEW x \in Exchanges, NEW c \in Codes, ExchangeFind(x, c) PROVE OneBaton'
  <2>1. \A a \in Auths : Granting(a)' \subseteq Granting(a)
      BY <1>2 DEF TypeOK, ExchangeFind, Granting
  <2> QED  BY <1>2, <2>1, BatonShrinks DEF ExchangeFind, Live, Refreshing
<1>3. ASSUME NEW x \in Exchanges, ExchangeDelete(x) \/ ExchangeResolve(x) \/ ExchangeFails(x)
      PROVE  OneBaton'
  <2>1. \A a \in Auths : Granting(a)' \subseteq Granting(a)
    <3>1. CASE ExchangeDelete(x)  BY <3>1 DEF TypeOK, ExchangeDelete, Granting, Idle
    <3>2. CASE ExchangeResolve(x)  BY <3>2 DEF TypeOK, ExchangeResolve, Granting, Idle
    <3>3. CASE ExchangeFails(x)  BY <3>3 DEF TypeOK, ExchangeFails, Granting, Idle
    <3> QED  BY <1>3, <3>1, <3>2, <3>3
  <2> QED
      BY <1>3, <2>1, BatonShrinks
      DEF ExchangeDelete, ExchangeResolve, ExchangeFails, Live, Refreshing
<1>4. ASSUME NEW x \in Exchanges, NEW a \in Auths, ExchangeCreate(x, a) PROVE OneBaton'
  <2>1. \A b \in Auths : Live(b)' = Live(b) /\ Refreshing(b)' = Refreshing(b)
      BY <1>4 DEF ExchangeCreate, Live, Refreshing
  <2>2. \A b \in Auths \ {a} : Granting(b)' \subseteq Granting(b)
      BY <1>4 DEF TypeOK, ExchangeCreate, Granting
  <2>3. Granting(a)' \subseteq Granting(a) \cup {x}
      BY <1>4 DEF TypeOK, ExchangeCreate, Granting
  <2>4. /\ auth[a] = "none" /\ auth'[a] = "active"
        /\ \A b \in Auths \ {a} : auth'[b] = auth[b]
      BY <1>4 DEF TypeOK, ExchangeCreate
  <2>5. Live(a) = {} /\ Refreshing(a) = {} /\ Granting(a) = {}
      BY <2>4 DEF OneBaton
  <2> QED  BY <2>1, <2>2, <2>3, <2>4, <2>5 DEF OneBaton
<1>5. ASSUME NEW x \in Exchanges, NEW t \in RTs, ExchangeIssue(x, t) PROVE OneBaton'
  <2>0. PICK a \in Auths : a = ex[x].auth
      BY <1>5 DEF ExchangeState, ExchangeIssue
  <2>1. x \in Granting(a)
      BY <1>5, <2>0 DEF ExchangeState, ExchangeIssue, Granting
  <2>2. \A b \in Auths : Granting(b)' \subseteq Granting(b) \ {x}
      BY <1>5, <2>0 DEF TypeOK, ExchangeIssue, Granting, Idle
  <2>3. Live(a)' \subseteq Live(a) \cup {t}
      BY <1>5, <2>0 DEF TypeOK, ExchangeIssue, NewRT, Live
  <2>4. \A b \in Auths \ {a} : Live(b)' \subseteq Live(b)
      BY <1>5, <2>0 DEF TypeOK, ExchangeIssue, NewRT, Live
  <2>5. \A b \in Auths : Refreshing(b)' = Refreshing(b) /\ auth'[b] = auth[b]
      BY <1>5, <2>0 DEF ExchangeIssue, Refreshing
  <2>6. Live(a) = {} /\ Refreshing(a) = {} /\ Granting(a) = {x} /\ auth[a] # "none"
      BY <2>1 DEF OneBaton
  <2> QED  BY <2>1, <2>2, <2>3, <2>4, <2>5, <2>6 DEF OneBaton
<1>6. ASSUME NEW a, rt' = RevokedRTs(a) PROVE \A b \in Auths : Live(b)' \subseteq Live(b)
    BY <1>6 DEF TypeOK, RevokedRTs, Live, NoRT
<1>7. ASSUME NEW x \in Exchanges, ExchangeRevokePrevRTs(x) PROVE OneBaton'
  <2>1. \A b \in Auths : Granting(b)' \subseteq Granting(b)
      BY <1>7 DEF TypeOK, ExchangeRevokePrevRTs, Granting, Idle
  <2> QED  BY <1>6, <1>7, <2>1, BatonShrinks DEF ExchangeRevokePrevRTs, Refreshing
<1>8. ASSUME NEW x \in Exchanges, ExchangeRevokePrev(x) PROVE OneBaton'
  <2>1. \A b \in Auths : Granting(b)' \subseteq Granting(b)
      BY <1>8 DEF TypeOK, ExchangeRevokePrev, Granting, Idle
  <2>2. \A b \in Auths : auth'[b] = "none" => auth[b] = "none"
      BY <1>8 DEF TypeOK, ExchangeRevokePrev
  <2> QED  BY <1>8, <2>1, <2>2, BatonShrinks DEF ExchangeRevokePrev, Live, Refreshing
<1>9. ASSUME NEW y \in Refreshes, NEW t \in RTs, RefreshConsume(y, t) PROVE OneBaton'
  <2>0. PICK a \in Auths : a = rt[t].auth
      BY <1>9 DEF TypeOK, RefreshConsume, NoRT
  <2>1. t \in Live(a)
      BY <1>9, <2>0 DEF TypeOK, RefreshConsume, Live, NoRT
  <2>2. \A b \in Auths : Live(b)' \subseteq Live(b) \ {t}
      BY <1>9, <2>0 DEF TypeOK, RefreshConsume, Live, NoRT
  <2>3. Refreshing(a)' \subseteq Refreshing(a) \cup {y}
      BY <1>9, <2>0 DEF TypeOK, RefreshConsume, Refreshing
  <2>4. \A b \in Auths \ {a} : Refreshing(b)' \subseteq Refreshing(b)
      BY <1>9, <2>0 DEF TypeOK, RefreshConsume, Refreshing
  <2>5. \A b \in Auths : Granting(b)' = Granting(b) /\ auth'[b] = auth[b]
      BY <1>9, <2>0 DEF RefreshConsume, Granting
  <2>6. Live(a) = {t} /\ Refreshing(a) = {} /\ Granting(a) = {} /\ auth[a] # "none"
      BY <2>1 DEF OneBaton
  <2> QED  BY <2>1, <2>2, <2>3, <2>4, <2>5, <2>6 DEF OneBaton
<1>10. ASSUME NEW y \in Refreshes, NEW t \in RTs, RefreshIssue(y, t) PROVE OneBaton'
  <2>0. PICK a \in Auths : a = ref[y].auth
      BY <1>10 DEF TypeOK, RefreshIssue, Idle
  <2>1. y \in Refreshing(a)
      BY <1>10, <2>0 DEF TypeOK, RefreshIssue, Refreshing, Idle
  <2>2. \A b \in Auths : Refreshing(b)' \subseteq Refreshing(b) \ {y}
      BY <1>10, <2>0 DEF TypeOK, RefreshIssue, Refreshing
  <2>3. Live(a)' \subseteq Live(a) \cup {t}
      BY <1>10, <2>0 DEF TypeOK, RefreshIssue, NewRT, Live
  <2>4. \A b \in Auths \ {a} : Live(b)' \subseteq Live(b)
      BY <1>10, <2>0 DEF TypeOK, RefreshIssue, NewRT, Live
  <2>5. \A b \in Auths : Granting(b)' = Granting(b) /\ auth'[b] = auth[b]
      BY <1>10, <2>0 DEF RefreshIssue, Granting
  <2>6. Live(a) = {} /\ Refreshing(a) = {y} /\ Granting(a) = {} /\ auth[a] # "none"
      BY <2>1 DEF OneBaton
  <2> QED  BY <2>1, <2>2, <2>3, <2>4, <2>5, <2>6 DEF OneBaton
<1>11. ASSUME NEW y \in Refreshes, RefreshCheck(y) \/ RefreshFails(y) PROVE OneBaton'
  <2>1. \A b \in Auths : Refreshing(b)' \subseteq Refreshing(b)
    <3>1. CASE RefreshCheck(y)  BY <3>1 DEF TypeOK, RefreshCheck, Refreshing, Idle
    <3>2. CASE RefreshFails(y)  BY <3>2 DEF TypeOK, RefreshFails, Refreshing, Idle
    <3> QED  BY <1>11, <3>1, <3>2
  <2> QED  BY <1>11, <2>1, BatonShrinks DEF RefreshCheck, RefreshFails, Live, Granting
<1>12. ASSUME NEW a \in Auths, RevokeSession(a) PROVE OneBaton'
  <2>1. \A b \in Auths : auth'[b] = "none" => auth[b] = "none"
      BY <1>12 DEF TypeOK, RevokeSession
  <2> QED  BY <1>12, <2>1, BatonShrinks DEF RevokeSession, Live, Refreshing, Granting
<1>13. ASSUME NEW a \in Auths, RevokeCustomerAppRTs(a) PROVE OneBaton'
    BY <1>6, <1>13, BatonShrinks DEF RevokeCustomerAppRTs, Refreshing, Granting
<1>14. ASSUME RevokeCustomerApp PROVE OneBaton'
  <2>1. \A b \in Auths : auth'[b] = "none" => auth[b] = "none"
      BY <1>14 DEF TypeOK, RevokeCustomerApp
  <2> QED  BY <1>14, <2>1, BatonShrinks DEF RevokeCustomerApp, Live, Refreshing, Granting
<1>15. ASSUME RevokeCustomerAppFails \/ Tick \/ UNCHANGED vars
       PROVE  UNCHANGED <<auth, rt, ex, ref>>
    BY <1>15 DEF RevokeCustomerAppFails, Tick, vars
<1>16. ASSUME NEW c \in Codes, NEW s \in Scopes, NEW prev, StoreCode(c, s, prev)
       PROVE  UNCHANGED <<auth, rt, ex, ref>>
    BY <1>16 DEF StoreCode
<1> QED
    BY <1>1, <1>2, <1>3, <1>4, <1>5, <1>7, <1>8, <1>9, <1>10, <1>11, <1>12, <1>13, <1>14,
       <1>15, <1>16
    DEF Next, AuthorizePost, AuthorizeByHandle, AuthorizeByOrigin, ExchangeRefused,
        RefreshRefused

\* A revoked authorization stays revoked, so a late refresh stays stuck.
LEMMA LateIsRevokedStep == IInv /\ [Next]_vars => LateIsRevoked'
<1> SUFFICES ASSUME TypeOK, ExchangeState, LateIsRevoked, [Next]_vars PROVE LateIsRevoked'
    BY DEF IInv
<1> USE ConstantsAssumption
<1>1. ASSUME NEW x \in Exchanges, NEW a \in Auths, ExchangeCreate(x, a) PROVE LateIsRevoked'
    BY <1>1 DEF TypeOK, LateIsRevoked, ExchangeCreate, Idle
<1>2. ASSUME NEW x \in Exchanges, ExchangeRevokePrev(x) PROVE LateIsRevoked'
    BY <1>2 DEF TypeOK, ExchangeState, LateIsRevoked, ExchangeRevokePrev, Idle
<1>3. ASSUME NEW y \in Refreshes, NEW t \in RTs, RefreshConsume(y, t) PROVE LateIsRevoked'
    BY <1>3 DEF TypeOK, LateIsRevoked, RefreshConsume, Idle
<1>4. ASSUME NEW y \in Refreshes, RefreshCheck(y) PROVE LateIsRevoked'
    BY <1>4 DEF TypeOK, LateIsRevoked, RefreshCheck, Idle
<1>5. ASSUME NEW y \in Refreshes, NEW t \in RTs, RefreshIssue(y, t) PROVE LateIsRevoked'
    BY <1>5 DEF TypeOK, LateIsRevoked, RefreshIssue
<1>6. ASSUME NEW y \in Refreshes, RefreshFails(y) PROVE LateIsRevoked'
    BY <1>6 DEF TypeOK, LateIsRevoked, RefreshFails
<1>7. ASSUME NEW a \in Auths, RevokeSession(a) PROVE LateIsRevoked'
    BY <1>7 DEF TypeOK, LateIsRevoked, RevokeSession, Idle
<1>8. ASSUME RevokeCustomerApp PROVE LateIsRevoked'
    BY <1>8 DEF TypeOK, LateIsRevoked, RevokeCustomerApp, Idle
<1>9. ASSUME UNCHANGED <<auth, ref>> PROVE LateIsRevoked'
    BY <1>9 DEF LateIsRevoked
<1>10. ASSUME NEW c \in Codes, NEW s \in Scopes, NEW prev, StoreCode(c, s, prev)
       PROVE  UNCHANGED <<auth, ref>>
    BY <1>10 DEF StoreCode
<1>11. ASSUME NEW x \in Exchanges, NEW c \in Codes, ExchangeFind(x, c)
       PROVE  UNCHANGED <<auth, ref>>
    BY <1>11 DEF ExchangeFind
<1>12. ASSUME NEW x \in Exchanges,
              \/ ExchangeDelete(x) \/ ExchangeResolve(x) \/ ExchangeRevokePrevRTs(x)
              \/ ExchangeFails(x)
       PROVE  UNCHANGED <<auth, ref>>
    BY <1>12 DEF ExchangeDelete, ExchangeResolve, ExchangeRevokePrevRTs, ExchangeFails
<1>13. ASSUME NEW x \in Exchanges, NEW t \in RTs, ExchangeIssue(x, t)
       PROVE  UNCHANGED <<auth, ref>>
    BY <1>13 DEF ExchangeIssue
<1>14. ASSUME NEW a \in Auths, RevokeCustomerAppRTs(a) PROVE UNCHANGED <<auth, ref>>
    BY <1>14 DEF RevokeCustomerAppRTs
<1>15. ASSUME RevokeCustomerAppFails \/ Tick \/ UNCHANGED vars PROVE UNCHANGED <<auth, ref>>
    BY <1>15 DEF RevokeCustomerAppFails, Tick, vars
<1> QED
    BY <1>1, <1>2, <1>3, <1>4, <1>5, <1>6, <1>7, <1>8, <1>9, <1>10, <1>11, <1>12, <1>13,
       <1>14, <1>15
    DEF Next, AuthorizePost, AuthorizeByHandle, AuthorizeByOrigin, ExchangeRefused,
        RefreshRefused

LEMMA InitIInv == Init => IInv
<1> SUFFICES ASSUME Init PROVE IInv
    OBVIOUS
<1>1. TypeOK
    BY ConstantsAssumption DEF Init, TypeOK
<1>2. ExchangeState /\ LateIsRevoked
    BY DEF Init, ExchangeState, LateIsRevoked, Idle
<1>3. OneBaton
    BY DEF Init, OneBaton, Live, Refreshing, Granting, Idle, NoRT
<1> QED  BY <1>1, <1>2, <1>3 DEF IInv

\* The inductive invariant holds of every reachable state.
THEOREM Invariance == Spec => []IInv
<1>1. IInv /\ [Next]_vars => IInv'
    BY TypeStep, ExchangeStateStep, OneBatonStep, LateIsRevokedStep DEF IInv
<1> QED  BY InitIInv, <1>1, PTL DEF Spec

\* Every variable of the token endpoint keeps its type.
THEOREM TypeCorrect == Spec => []TypeOK
<1>1. IInv => TypeOK
    BY DEF IInv
<1> QED  BY Invariance, <1>1, PTL

\* Refresh-token rotation (consume, then create) never leaves two usable
\* tokens for one authorization, for any number of concurrent requests.
THEOREM RotationNeverForks == Spec => []NoForkedChain
<1>1. IInv => NoForkedChain
    BY DEF IInv, OneBaton, NoForkedChain
<1> QED  BY Invariance, <1>1, PTL

\* handle_refresh_token_grant refuses every refresh that consumed its token
\* after the authorization was revoked.
THEOREM RevocationEndsChain == Spec => []RevokedChainIsDead
<1>1. IInv => RevokedChainIsDead
    BY DEF IInv, TypeOK, LateIsRevoked, RevokedChainIsDead, Idle
<1> QED  BY Invariance, <1>1, PTL
==============================================================================

---------------------------- MODULE HttpRpcProofs ----------------------------
(***************************************************************************)
(* Proofs about HttpRpc, for every number of processes, requests, tenants, *)
(* tokens and authorizations.                                              *)
(***************************************************************************)
EXTENDS HttpRpc, TLAPS

\* Types: the lookup, the load and the use of a handler.
LEMMA TypeRequest ==
    ASSUME TypeOK, RightfulState, NEW r \in Requests
    PROVE  /\ \A i \in Instances, t \in Tenants, tok \in Tokens : Lookup(r, i, t, tok) => TypeOK'
           /\ LoadRow(r) \/ LoadKey(r) \/ Insert(r) \/ Sign(r) \/ Refuse(r) => TypeOK'
<1> USE ConstantsAssumption DEF TypeOK, InFlight, Idle
<1>1. ASSUME NEW i \in Instances, NEW t \in Tenants, NEW tok \in Tokens, Lookup(r, i, t, tok)
      PROVE  TypeOK'
  <2>1. <<t, tok>> \in CacheKeys
      BY DEF CacheKeys
  <2>2. cache' \in [Instances -> [CacheKeys -> Handler \cup {None}]]
    <3>1. PICK k \in CacheKeys : cache' = cache \/ cache' = [cache EXCEPT ![i][k] = None]
        BY <1>1, <2>1 DEF Lookup, CacheKey
    <3>2. cache \in [Instances -> [CacheKeys -> Handler \cup {None}]]
        OBVIOUS
    <3>3. CASE cache' = [cache EXCEPT ![i][k] = None]
      <4>1. [cache[i] EXCEPT ![k] = None] \in [CacheKeys -> Handler \cup {None}]
          BY <3>2
      <4> QED  BY <3>2, <3>3, <4>1
    <3> QED  BY <3>1, <3>2, <3>3
  <2>3. req' \in [Requests -> InFlight \cup {Idle}]
    <3>1. \/ req' = req
          \/ \E pc \in {"row", "ready"}, h \in {None, cache[i][<<t, tok>>]} :
                req' = [req EXCEPT ![r] = [pc |-> pc, inst |-> i, tenant |-> t, tok |-> tok,
                                           h |-> h]]
        BY <1>1 DEF Lookup, CacheKey
    <3>2. cache[i][<<t, tok>>] \in Handler \cup {None}
        BY <2>1
    <3> QED  BY <3>1, <3>2
  <2> QED  BY <1>1, <2>2, <2>3 DEF Lookup
<1>2. CASE LoadRow(r)
  <2>1. req[r] \in InFlight
      BY <1>2 DEF LoadRow
  <2>2. ASSUME NEW h \in Handler PROVE Loaded(req[r], h) \in InFlight
      BY <2>1 DEF Loaded
  <2>3. req' \in [Requests -> InFlight \cup {Idle}]
      BY <1>2, <2>1, <2>2 DEF LoadRow, FoundRow, FoundPreloaded, Handler
  <2> QED  BY <1>2, <2>3 DEF LoadRow
<1>3. CASE LoadKey(r)
    BY <1>3 DEF LoadKey
<1>4. CASE Insert(r)
  <2>1. req[r] \in InFlight /\ req[r].h \in Handler
      BY <1>4 DEF Insert, RightfulState
  <2>2. <<req[r].tenant, req[r].tok>> \in CacheKeys
      BY <2>1 DEF CacheKeys
  <2>3. cache' \in [Instances -> [CacheKeys -> Handler \cup {None}]]
      BY <1>4, <2>1, <2>2 DEF Insert, CacheKey
  <2>4. req' \in [Requests -> InFlight \cup {Idle}]
      BY <1>4, <2>1 DEF Insert
  <2> QED  BY <1>4, <2>3, <2>4 DEF Insert
<1>5. CASE Sign(r) \/ Refuse(r)
    BY <1>5 DEF Sign, Refuse
<1> QED  BY <1>1, <1>2, <1>3, <1>4, <1>5

\* Types: the handlers that end an authorization.
LEMMA TypeOperator ==
    ASSUME TypeOK, NEW p \in Operators
    PROVE  /\ \A i \in Instances, a \in Auths :
                 RevokeSession(p, i, a) \/ RevokePrevious(p, i, a) => TypeOK'
           /\ \A i \in Instances, u \in Users :
                 RevokeCustomerApp(p, i, u) \/ ChangeKey(p, i, u) \/ DeleteAccount(p, i, u)
                    => TypeOK'
           /\ Invalidate(p) \/ RevokeCustomerAppFails(p) => TypeOK'
           /\ \A a \in Auths : InvalidateNext(p, a) => TypeOK'
<1> USE DEF TypeOK, Idle, Invalidation
<1>1. ASSUME NEW i \in Instances, NEW A \in SUBSET Auths, NEW U \in SUBSET Users,
             NEW l \in BOOLEAN, StartInvalidation(p, i, A, U, l)
      PROVE  /\ op' \in [Operators -> Invalidation \cup {Idle}]
             /\ UNCHANGED <<now, cache, req, clean>>
    BY <1>1 DEF StartInvalidation
<1>2. ASSUME NEW i \in Instances, NEW a \in Auths, RevokeSession(p, i, a) \/ RevokePrevious(p, i, a)
      PROVE  TypeOK'
    BY <1>1, <1>2 DEF RevokeSession, RevokePrevious
<1>3. ASSUME NEW i \in Instances, NEW u \in Users, RevokeCustomerApp(p, i, u) PROVE TypeOK'
    BY <1>1, <1>3 DEF RevokeCustomerApp
<1>4. ASSUME NEW i \in Instances, NEW u \in Users, ChangeKey(p, i, u) PROVE TypeOK'
    BY <1>1, <1>4 DEF ChangeKey, ChangeKeyTransaction
<1>5. ASSUME NEW i \in Instances, NEW u \in Users, DeleteAccount(p, i, u) PROVE TypeOK'
    BY <1>1, <1>5 DEF DeleteAccount
<1>6. ASSUME NEW i \in Instances, NEW A, NEW U, DropHandlers(i, A, U)
      PROVE  cache' \in [Instances -> [CacheKeys -> Handler \cup {None}]]
    BY <1>6 DEF DropHandlers
<1>7. ASSUME NEW i \in Instances, NEW A \in SUBSET Auths, NoteClean(i, A)
      PROVE  clean' \subseteq Instances \X Auths
    BY <1>7 DEF NoteClean
<1>8. CASE Invalidate(p)
  <2>1. op[p] \in Invalidation
      BY <1>8 DEF Invalidate
  <2> QED  BY <1>6, <1>7, <1>8, <2>1 DEF Invalidate
<1>9. ASSUME NEW a \in Auths, InvalidateNext(p, a) PROVE TypeOK'
  <2>1. op[p] \in Invalidation
      BY <1>9 DEF InvalidateNext
  <2>2. op' \in [Operators -> Invalidation \cup {Idle}]
      BY <1>9, <2>1 DEF InvalidateNext
  <2>3. op[p].inst \in Instances /\ {a} \in SUBSET Auths
      BY <2>1
  <2>4. /\ cache' \in [Instances -> [CacheKeys -> Handler \cup {None}]]
        /\ clean' \subseteq Instances \X Auths
      BY <1>6, <1>7, <1>9, <2>3 DEF InvalidateNext
  <2> QED  BY <1>9, <2>2, <2>4 DEF InvalidateNext
<1>10. CASE RevokeCustomerAppFails(p)
    BY <1>10 DEF RevokeCustomerAppFails
<1> QED  BY <1>2, <1>3, <1>4, <1>5, <1>8, <1>9, <1>10

LEMMA TypeStep == IInv /\ [Next]_vars => TypeOK'
<1> SUFFICES ASSUME TypeOK, RightfulState, [Next]_vars PROVE TypeOK'
    BY DEF IInv
<1>1. ASSUME NEW u \in Users, Claim(u) PROVE TypeOK'
    BY <1>1 DEF TypeOK, Claim
<1>2. ASSUME NEW i \in Instances, NEW k \in CacheKeys, Evict(i, k) PROVE TypeOK'
    BY <1>2 DEF TypeOK, Evict
<1>3. CASE Tick
    BY <1>3, ConstantsAssumption DEF TypeOK, Tick
<1>4. CASE UNCHANGED vars
    BY <1>4 DEF TypeOK, vars
<1> QED  BY <1>1, <1>2, <1>3, <1>4, TypeRequest, TypeOperator DEF Next

------------------------------------------------------------------------------
\* Every cached or loaded handler stays rightful.
LEMMA RightfulStep == IInv /\ [Next]_vars => RightfulState'
<1> SUFFICES ASSUME TypeOK, RightfulState, [Next]_vars PROVE RightfulState'
    BY DEF IInv
<1> DEFINE CacheOk == \A i \in Instances, t \in Tenants, tok \in Tokens :
                         cache[i][<<t, tok>>] # None => Rightful(cache[i][<<t, tok>>], t, tok)
           ReqOk(q) == /\ q.pc = "row" => TokenTenant[q.tok] = q.tenant
                       /\ q.pc \in {"key", "insert", "ready"} =>
                             q.h # None /\ Rightful(q.h, q.tenant, q.tok)
           ReqsOk == \A r \in Requests : ReqOk(req[r])
<1>0. CacheOk /\ ReqsOk
    BY DEF RightfulState
<1>1. SUFFICES CacheOk' /\ ReqsOk'
    BY DEF RightfulState, Rightful
<1>2. ASSUME \A i \in Instances, k \in CacheKeys : cache'[i][k] \in {cache[i][k], None}
      PROVE  CacheOk'
    BY <1>0, <1>2 DEF CacheKeys, Rightful
<1>3. ASSUME NEW r \in Requests, NEW q, req' = [req EXCEPT ![r] = q], ReqOk(q) PROVE ReqsOk'
    BY <1>0, <1>3 DEF TypeOK, Rightful
<1>4. ReqOk(Idle)
    BY DEF Idle
<1>5. ASSUME UNCHANGED req PROVE ReqsOk'
    BY <1>0, <1>5 DEF Rightful
<1>6. ASSUME UNCHANGED cache PROVE CacheOk'
    BY <1>0, <1>6 DEF Rightful
<1>7. ASSUME NEW r \in Requests, NEW i \in Instances, NEW t \in Tenants, NEW tok \in Tokens,
             Lookup(r, i, t, tok)
      PROVE  CacheOk' /\ ReqsOk'
  <2> DEFINE k == <<t, tok>>
             go(pc, hh) == [pc |-> pc, inst |-> i, tenant |-> t, tok |-> tok, h |-> hh]
  <2>1. k \in CacheKeys
      BY DEF CacheKeys
  <2>2. cache' = cache \/ cache' = [cache EXCEPT ![i][k] = None]
      BY <1>7 DEF Lookup, CacheKey
  <2>3. \/ UNCHANGED req
        \/ cache[i][k] # None /\ req' = [req EXCEPT ![r] = go("ready", cache[i][k])]
        \/ TokenTenant[tok] = t /\ req' = [req EXCEPT ![r] = go("row", None)]
      BY <1>7 DEF Lookup, CacheKey, UcanValid
  <2>4. cache[i][k] # None => ReqOk(go("ready", cache[i][k]))
      BY <1>0
  <2>5. TokenTenant[tok] = t => ReqOk(go("row", None))
      OBVIOUS
  <2>6. CacheOk'
    <3> HIDE DEF k
    <3>1. \A j \in Instances, l \in CacheKeys : cache'[j][l] \in {cache[j][l], None}
        BY <2>1, <2>2 DEF TypeOK
    <3> QED  BY <1>2, <3>1
  <2> HIDE DEF go, ReqOk, k, ReqsOk
  <2> QED  BY <1>3, <1>5, <2>3, <2>4, <2>5, <2>6
<1>8. ASSUME NEW r \in Requests, LoadRow(r) PROVE ReqsOk'
  <2>1. req[r] \in InFlight /\ TokenTenant[req[r].tok] = req[r].tenant
      BY <1>0, <1>8 DEF LoadRow, TypeOK, Idle
  <2>2. ASSUME NEW h, h # None, h.user = TokenUser[req[r].tok],
               Mode[req[r].tok] = "oauth" => /\ h.auth = TokenAuth[req[r].tok]
                                             /\ Owner[h.auth] = h.user
        PROVE  ReqOk(Loaded(req[r], h))
      BY <2>1, <2>2 DEF Loaded, Rightful
  <2> HIDE DEF ReqOk, ReqsOk
  <2>3. \/ req' = [req EXCEPT ![r] = Idle]
        \/ \E h : /\ h # None /\ h.user = TokenUser[req[r].tok]
                  /\ Mode[req[r].tok] = "oauth" => /\ h.auth = TokenAuth[req[r].tok]
                                                    /\ Owner[h.auth] = h.user
                  /\ req' = [req EXCEPT ![r] = Loaded(req[r], h)]
      BY <1>8, <2>1, ConstantsAssumption DEF LoadRow, FoundRow, FoundPreloaded, InFlight
  <2> QED  BY <1>3, <1>4, <2>2, <2>3
<1>9. ASSUME NEW r \in Requests, LoadKey(r) PROVE ReqsOk'
  <2>1. req[r] \in InFlight /\ ReqOk([req[r] EXCEPT !.pc = "insert"])
      BY <1>0, <1>9 DEF LoadKey, TypeOK, Idle, InFlight
  <2> HIDE DEF ReqOk, ReqsOk
  <2> QED  BY <1>3, <1>4, <1>9, <2>1 DEF LoadKey
<1>10. ASSUME NEW r \in Requests, Insert(r) PROVE CacheOk' /\ ReqsOk'
  <2>1. req[r] \in InFlight /\ ReqOk(req[r]) /\ req[r].pc = "insert"
      BY <1>0, <1>10 DEF Insert, TypeOK, Idle
  <2>2. ReqsOk'
      BY <1>0, <1>10, <2>1 DEF Insert, TypeOK, InFlight, Rightful
  <2>3. CacheOk'
    <3> DEFINE k == <<req[r].tenant, req[r].tok>>
    <3>1. req[r].inst \in Instances /\ k \in CacheKeys
        BY <2>1 DEF InFlight, CacheKeys
    <3>2. cache' = [cache EXCEPT ![req[r].inst][k] = req[r].h]
        BY <1>10 DEF Insert, CacheKey
    <3>3. cache'[req[r].inst][k] = req[r].h
          /\ \A i \in Instances, l \in CacheKeys :
                i # req[r].inst \/ l # k => cache'[i][l] = cache[i][l]
      <4> HIDE DEF k
      <4> QED  BY <3>1, <3>2 DEF TypeOK
    <3>4. \A i \in Instances, t \in Tenants, tok \in Tokens :
             (i = req[r].inst /\ <<t, tok>> = k) \/ cache'[i][<<t, tok>>] = cache[i][<<t, tok>>]
        BY <3>3 DEF CacheKeys
    <3> QED  BY <1>0, <2>1, <3>3, <3>4 DEF Rightful
  <2> QED  BY <2>2, <2>3
<1>11. ASSUME NEW r \in Requests, Sign(r) \/ Refuse(r) PROVE ReqsOk'
  <2> HIDE DEF ReqOk, ReqsOk
  <2> QED  BY <1>3, <1>4, <1>11 DEF Sign, Refuse
<1>12. ASSUME NEW i \in Instances, NEW A, NEW U, DropHandlers(i, A, U) PROVE CacheOk'
  <2>1. \A j \in Instances, k \in CacheKeys : cache'[j][k] \in {cache[j][k], None}
      BY <1>12 DEF DropHandlers, TypeOK
  <2> QED  BY <1>2, <2>1
<1>13. ASSUME NEW p \in Operators, Invalidate(p) PROVE CacheOk' /\ UNCHANGED req
  <2>1. op[p].inst \in Instances
      BY <1>13 DEF Invalidate, TypeOK, Idle, Invalidation
  <2> HIDE DEF CacheOk
  <2> QED  BY <1>12, <1>13, <2>1 DEF Invalidate
<1>14. ASSUME NEW p \in Operators, NEW a \in Auths, InvalidateNext(p, a)
       PROVE  CacheOk' /\ UNCHANGED req
  <2>1. op[p].inst \in Instances
      BY <1>14 DEF InvalidateNext, TypeOK, Idle, Invalidation
  <2> HIDE DEF CacheOk
  <2> QED  BY <1>12, <1>14, <2>1 DEF InvalidateNext
<1>15. ASSUME NEW i \in Instances, NEW k \in CacheKeys, Evict(i, k) PROVE CacheOk' /\ UNCHANGED req
  <2>1. \A j \in Instances, l \in CacheKeys : cache'[j][l] \in {cache[j][l], None}
      BY <1>15 DEF Evict, TypeOK
  <2> QED  BY <1>2, <1>15, <2>1 DEF Evict
<1>16. ASSUME NEW p \in Operators, NEW i \in Instances, NEW a \in Auths,
              RevokeSession(p, i, a) \/ RevokePrevious(p, i, a)
       PROVE  UNCHANGED <<cache, req>>
    BY <1>16 DEF RevokeSession, RevokePrevious, StartInvalidation
<1>17. ASSUME NEW p \in Operators, NEW i \in Instances, NEW u \in Users,
              RevokeCustomerApp(p, i, u) \/ ChangeKey(p, i, u) \/ DeleteAccount(p, i, u)
       PROVE  UNCHANGED <<cache, req>>
    BY <1>17 DEF RevokeCustomerApp, ChangeKey, ChangeKeyTransaction, DeleteAccount,
       StartInvalidation
<1>18. ASSUME NEW p \in Operators, RevokeCustomerAppFails(p) PROVE UNCHANGED <<cache, req>>
    BY <1>18 DEF RevokeCustomerAppFails
<1>19. ASSUME NEW u \in Users, Claim(u) PROVE UNCHANGED <<cache, req>>
    BY <1>19 DEF Claim
<1>20. ASSUME Tick \/ UNCHANGED vars PROVE UNCHANGED <<cache, req>>
    BY <1>20 DEF Tick, vars
<1>21. ASSUME NEW r \in Requests, LoadRow(r) \/ LoadKey(r) \/ Sign(r) \/ Refuse(r)
       PROVE  UNCHANGED cache
    BY <1>21 DEF LoadRow, LoadKey, Sign, Refuse
<1> HIDE DEF CacheOk, ReqsOk
<1> QED
    BY <1>5, <1>6, <1>7, <1>8, <1>9, <1>10, <1>11, <1>13, <1>14, <1>15, <1>16, <1>17, <1>18,
       <1>19, <1>20, <1>21
    DEF Next

------------------------------------------------------------------------------
\* A row that is not active stays so.
LEMMA EndedStaysEnded ==
    TypeOK /\ [Next]_vars => \A a \in Auths : row[a] # "active" => row'[a] # "active"
<1> SUFFICES ASSUME TypeOK, [Next]_vars, NEW a \in Auths, row[a] # "active"
             PROVE  row'[a] # "active"
    OBVIOUS
<1>1. ASSUME NEW p \in Operators, NEW i \in Instances, NEW b \in Auths,
             RevokeSession(p, i, b) \/ RevokePrevious(p, i, b)
      PROVE  row'[a] # "active"
    BY <1>1 DEF TypeOK, RevokeSession, RevokePrevious
<1>2. ASSUME NEW p \in Operators, NEW i \in Instances, NEW u \in Users,
             RevokeCustomerApp(p, i, u) \/ ChangeKey(p, i, u) \/ DeleteAccount(p, i, u)
      PROVE  row'[a] # "active"
    BY <1>2 DEF TypeOK, RevokeCustomerApp, ChangeKey, ChangeKeyTransaction, DeleteAccount
<1>3. ASSUME NEW r \in Requests, LoadRow(r) \/ LoadKey(r) \/ Insert(r) \/ Sign(r) \/ Refuse(r)
      PROVE  row' = row
    BY <1>3 DEF LoadRow, LoadKey, Insert, Sign, Refuse
<1>4. ASSUME NEW r \in Requests, NEW i \in Instances, NEW t \in Tenants, NEW tok \in Tokens,
             Lookup(r, i, t, tok)
      PROVE  row' = row
    BY <1>4 DEF Lookup
<1>5. ASSUME NEW p \in Operators, Invalidate(p) \/ RevokeCustomerAppFails(p) PROVE row' = row
    BY <1>5 DEF Invalidate, RevokeCustomerAppFails
<1>6. ASSUME NEW p \in Operators, NEW b \in Auths, InvalidateNext(p, b) PROVE row' = row
    BY <1>6 DEF InvalidateNext
<1>7. ASSUME NEW i \in Instances, NEW k \in CacheKeys, Evict(i, k) PROVE row' = row
    BY <1>7 DEF Evict
<1>8. ASSUME NEW u \in Users, Claim(u) PROVE row' = row
    BY <1>8 DEF Claim
<1>9. ASSUME Tick \/ UNCHANGED vars PROVE row' = row
    BY <1>9 DEF Tick, vars
<1> QED  BY <1>1, <1>2, <1>3, <1>4, <1>5, <1>6, <1>7, <1>8, <1>9 DEF Next

\* Only valid handlers are on their way into the cache, and only authorizations
\* that have ended are being invalidated.
LEMMA EndingStep == IInv /\ [Next]_vars => EndingState'
<1> SUFFICES ASSUME TypeOK, RightfulState, EndingState, [Next]_vars PROVE EndingState'
    BY DEF IInv
<1> DEFINE ReqsOk == \A r \in Requests : req[r].pc = "insert" => ~req[r].h.revoked
           OpOk(o, w) == o.pc = "invalidate" => /\ o.todo \subseteq o.auths
                                                /\ \A a \in o.auths : w[a] # "active"
           OpsOk == \A p \in Operators : OpOk(op[p], row)
<1>0. ReqsOk /\ OpsOk
    BY DEF EndingState
<1>1. SUFFICES ReqsOk' /\ OpsOk'
    BY DEF EndingState
<1>2. ASSUME UNCHANGED op PROVE OpsOk'
    BY <1>0, <1>2, EndedStaysEnded DEF TypeOK, Idle, Invalidation
<1>3. ASSUME UNCHANGED req PROVE ReqsOk'
    BY <1>0, <1>3
<1>4. ASSUME NEW p \in Operators, NEW o, op' = [op EXCEPT ![p] = o], OpOk(o, row') PROVE OpsOk'
    BY <1>0, <1>4, EndedStaysEnded DEF TypeOK, Idle, Invalidation
<1>5. ASSUME NEW w PROVE OpOk(Idle, w)
    BY DEF Idle
<1>6. ASSUME NEW r \in Requests, NEW i \in Instances, NEW t \in Tenants, NEW tok \in Tokens,
             Lookup(r, i, t, tok)
      PROVE  ReqsOk' /\ UNCHANGED op
    BY <1>0, <1>6 DEF Lookup, TypeOK
<1>r. ASSUME NEW r \in Requests, NEW q, req' = [req EXCEPT ![r] = q],
             q.pc = "insert" => ~q.h.revoked
      PROVE  ReqsOk'
    BY <1>0, <1>r DEF TypeOK
<1>7. ASSUME NEW r \in Requests, LoadRow(r) \/ Sign(r) \/ Refuse(r) PROVE ReqsOk' /\ UNCHANGED op
  <2>1. PICK q : req' = [req EXCEPT ![r] = q] /\ q.pc # "insert"
    <3>1. CASE LoadRow(r)
      <4>1. \/ req' = [req EXCEPT ![r] = Idle]
            \/ req' = [req EXCEPT ![r] = Loaded(req[r], FoundRow(req[r].tok))]
          BY <3>1 DEF LoadRow
      <4>2. Idle.pc # "insert" /\ Loaded(req[r], FoundRow(req[r].tok)).pc # "insert"
          BY DEF Loaded, Idle
      <4> QED  BY <4>1, <4>2
    <3>2. CASE Sign(r) \/ Refuse(r)  BY <3>2 DEF Sign, Refuse, Idle
    <3> QED  BY <1>7, <3>1, <3>2
  <2>2. UNCHANGED op
      BY <1>7 DEF LoadRow, Sign, Refuse
  <2> HIDE DEF ReqsOk
  <2> QED  BY <1>r, <2>1, <2>2
<1>8. ASSUME NEW r \in Requests, LoadKey(r) PROVE ReqsOk' /\ UNCHANGED op
  <2>1. req[r] \in InFlight
      BY <1>8 DEF LoadKey, TypeOK, Idle
  <2>2. CASE req[r].h.user \in key /\ IsValid(req[r].h)
    <3> DEFINE q == [req[r] EXCEPT !.pc = "insert"]
    <3>1. req' = [req EXCEPT ![r] = q]
        BY <1>8, <2>2 DEF LoadKey
    <3>2. ~q.h.revoked
        BY <2>1, <2>2 DEF InFlight, IsValid
    <3> HIDE DEF q, ReqsOk
    <3> QED  BY <1>8, <1>r, <3>1, <3>2 DEF LoadKey
  <2>3. CASE ~(req[r].h.user \in key /\ IsValid(req[r].h))
    <3>1. req' = [req EXCEPT ![r] = Idle] /\ Idle.pc # "insert"
        BY <1>8, <2>3 DEF LoadKey, Idle
    <3> HIDE DEF ReqsOk
    <3> QED  BY <1>8, <1>r, <3>1 DEF LoadKey
  <2> QED  BY <2>2, <2>3
<1>9. ASSUME NEW r \in Requests, Insert(r) PROVE ReqsOk' /\ UNCHANGED op
    BY <1>0, <1>9 DEF Insert, TypeOK, Idle, InFlight
<1>10. ASSUME NEW p \in Operators, NEW i \in Instances, NEW A \in SUBSET Auths, NEW U, NEW l,
              StartInvalidation(p, i, A, U, l), \A a \in A : row'[a] # "active"
       PROVE  OpsOk' /\ UNCHANGED req
  <2> DEFINE o == [pc |-> "invalidate", inst |-> i, auths |-> A, todo |-> A, users |-> U,
                   looping |-> l]
  <2>1. op' = [op EXCEPT ![p] = o] /\ UNCHANGED req
      BY <1>10 DEF StartInvalidation
  <2>2. OpOk(o, row')
      BY <1>10
  <2> HIDE DEF o, OpOk, OpsOk
  <2> QED  BY <1>4, <2>1, <2>2
<1> HIDE DEF ReqsOk, OpsOk
<1>11. ASSUME NEW p \in Operators, NEW i \in Instances, NEW a \in Auths,
              RevokeSession(p, i, a) \/ RevokePrevious(p, i, a)
       PROVE  OpsOk' /\ UNCHANGED req
  <2>1. row'[a] # "active" /\ StartInvalidation(p, i, {a}, {}, FALSE)
      BY <1>11 DEF RevokeSession, RevokePrevious, TypeOK
  <2>2. {a} \in SUBSET Auths /\ \A b \in {a} : row'[b] # "active"
      BY <2>1
  <2> QED  BY <1>10, <2>1, <2>2
<1>12. ASSUME NEW p \in Operators, NEW i \in Instances, NEW u \in Users,
              RevokeCustomerApp(p, i, u) \/ ChangeKey(p, i, u) \/ DeleteAccount(p, i, u)
       PROVE  OpsOk' /\ UNCHANGED req
  <2>1. PICK A \in SUBSET Auths, U \in SUBSET Users, l \in BOOLEAN :
           StartInvalidation(p, i, A, U, l) /\ \A a \in A : row'[a] # "active"
    <3>1. CASE RevokeCustomerApp(p, i, u)  BY <3>1 DEF RevokeCustomerApp
    <3>2. CASE ChangeKey(p, i, u)
      <4> DEFINE mine == {a \in Auths : Owner[a] = u}
      <4>1. StartInvalidation(p, i, mine, {u}, FALSE)
          BY <3>2 DEF ChangeKey
      <4>2. \A a \in mine : row'[a] # "active"
          BY <3>2 DEF ChangeKey, ChangeKeyTransaction
      <4>3. mine \in SUBSET Auths /\ {u} \in SUBSET Users
          OBVIOUS
      <4> QED  BY <4>1, <4>2, <4>3
    <3>3. CASE DeleteAccount(p, i, u)  BY <3>3 DEF DeleteAccount
    <3> QED  BY <1>12, <3>1, <3>2, <3>3
  <2> QED  BY <1>10, <2>1
<1>13. ASSUME NEW p \in Operators, Invalidate(p) \/ RevokeCustomerAppFails(p)
       PROVE  OpsOk' /\ UNCHANGED req
  <2>1. op' = [op EXCEPT ![p] = Idle] /\ UNCHANGED req
      BY <1>13 DEF Invalidate, RevokeCustomerAppFails
  <2> HIDE DEF OpOk
  <2> QED  BY <1>4, <1>5, <2>1
<1>14. ASSUME NEW p \in Operators, NEW a \in Auths, InvalidateNext(p, a)
       PROVE  OpsOk' /\ UNCHANGED req
  <2> DEFINE o == [op[p] EXCEPT !.todo = op[p].todo \ {a}]
  <2>1. /\ op' = [op EXCEPT ![p] = Idle] \/ op' = [op EXCEPT ![p] = o]
        /\ row' = row /\ UNCHANGED req
      BY <1>14 DEF InvalidateNext
  <2>2. OpOk(o, row')
      BY <1>0, <1>14, <2>1 DEF InvalidateNext, OpsOk, TypeOK, Idle, Invalidation
  <2> HIDE DEF o, OpOk
  <2> QED  BY <1>4, <1>5, <2>1, <2>2
<1>15. ASSUME NEW i \in Instances, NEW k \in CacheKeys, Evict(i, k) PROVE UNCHANGED <<op, req>>
    BY <1>15 DEF Evict
<1>16. ASSUME NEW u \in Users, Claim(u) PROVE UNCHANGED <<op, req>>
    BY <1>16 DEF Claim
<1>17. ASSUME Tick \/ UNCHANGED vars PROVE UNCHANGED <<op, req>>
    BY <1>17 DEF Tick, vars
<1> QED
    BY <1>2, <1>3, <1>6, <1>7, <1>8, <1>9, <1>11, <1>12, <1>13, <1>14, <1>15, <1>16, <1>17
    DEF Next

------------------------------------------------------------------------------
\* A clean invalidation is not undone, and a new one is clean.
LEMMA CleanStep == IInv /\ [Next]_vars => CleanRevocationHolds'
<1> SUFFICES ASSUME TypeOK, RightfulState, EndingState, CleanRevocationHolds, [Next]_vars
             PROVE  CleanRevocationHolds'
    BY DEF IInv
<1> DEFINE NoCached(i, a) == \A k \in CacheKeys : cache[i][k] # None => cache[i][k].auth # a
           Harmless(q, i, a) == q.pc \in {"key", "insert"} /\ q.inst = i /\ q.h.auth = a
                                   => q.h.revoked
           NoLoad(i, a) == \A r \in Requests : Harmless(req[r], i, a)
<1>1. SUFFICES ASSUME NEW i \in Instances, NEW a \in Auths, <<i, a>> \in clean'
               PROVE  row'[a] # "active" /\ NoCached(i, a)' /\ NoLoad(i, a)'
    BY DEF CleanRevocationHolds
<1>2. <<i, a>> \in clean => row[a] # "active" /\ NoCached(i, a) /\ NoLoad(i, a)
    BY DEF CleanRevocationHolds
<1>3. row[a] # "active" => row'[a] # "active"
    BY EndedStaysEnded
<1>4. ASSUME NoCached(i, a), \A k \in CacheKeys : cache'[i][k] \in {cache[i][k], None}
      PROVE  NoCached(i, a)'
    BY <1>4
<1>5. ASSUME NoLoad(i, a), NEW r \in Requests, NEW q, req' = [req EXCEPT ![r] = q],
             Harmless(q, i, a)
      PROVE  NoLoad(i, a)'
    BY <1>5 DEF TypeOK
<1>6. ASSUME UNCHANGED clean, UNCHANGED <<cache, req>>
      PROVE  row'[a] # "active" /\ NoCached(i, a)' /\ NoLoad(i, a)'
    BY <1>1, <1>2, <1>3, <1>6
<1>7. Harmless(Idle, i, a)
    BY DEF Idle
<1>8. ASSUME NEW r \in Requests, NEW j \in Instances, NEW t \in Tenants, NEW tok \in Tokens,
             Lookup(r, j, t, tok)
      PROVE  row'[a] # "active" /\ NoCached(i, a)' /\ NoLoad(i, a)'
  <2> DEFINE k == <<t, tok>>
  <2>1. k \in CacheKeys
      BY DEF CacheKeys
  <2>2. /\ cache' = cache \/ cache' = [cache EXCEPT ![j][k] = None]
        /\ UNCHANGED clean
      BY <1>8 DEF Lookup, CacheKey
  <2>3. NoLoad(i, a) => NoLoad(i, a)'
      BY <1>8 DEF Lookup, TypeOK
  <2> HIDE DEF k
  <2>4. \A l \in CacheKeys : cache'[i][l] \in {cache[i][l], None}
      BY <2>1, <2>2 DEF TypeOK
  <2> HIDE DEF NoCached, NoLoad
  <2> QED  BY <1>1, <1>2, <1>3, <1>4, <2>2, <2>3, <2>4
<1>9. ASSUME NEW r \in Requests, LoadRow(r)
      PROVE  row'[a] # "active" /\ NoCached(i, a)' /\ NoLoad(i, a)'
  <2>1. <<i, a>> \in clean /\ cache' = cache
      BY <1>1, <1>9 DEF LoadRow
  <2>2. row[a] # "active" /\ NoCached(i, a) /\ NoLoad(i, a)
      BY <1>2, <2>1
  <2>3. ASSUME NEW h, h.auth = a => h.revoked PROVE Harmless(Loaded(req[r], h), i, a)
      BY <2>3 DEF Loaded
  <2>4. \/ req' = [req EXCEPT ![r] = Idle]
        \/ \E h : (h.auth = a => h.revoked) /\ req' = [req EXCEPT ![r] = Loaded(req[r], h)]
    <3> DEFINE h == FoundRow(req[r].tok)
    <3>1. req' = [req EXCEPT ![r] = IF h = None THEN Idle ELSE Loaded(req[r], h)]
        BY <1>9 DEF LoadRow
    <3>2. h # None /\ h.auth = a => h.revoked
      <4>1. row[a] \in {"revoked", "deleted"} /\ None # a
          BY <2>2, ConstantsAssumption DEF TypeOK
      <4>2. \/ h = None
            \/ \E u : h = [auth |-> None, user |-> u, revoked |-> FALSE]
            \/ \E b, u : row[b] # "deleted"
                          /\ h = [auth |-> b, user |-> u, revoked |-> row[b] = "revoked"]
          BY DEF FoundRow, FoundPreloaded
      <4> HIDE DEF h
      <4>3. ASSUME NEW u, h = [auth |-> None, user |-> u, revoked |-> FALSE] PROVE h.auth # a
          BY <4>1, <4>3
      <4>4. ASSUME NEW b, NEW u, row[b] # "deleted", h.auth = a,
                   h = [auth |-> b, user |-> u, revoked |-> row[b] = "revoked"]
            PROVE  h.revoked
        <5>1. b = a /\ h.revoked = (row[b] = "revoked")
            BY <4>4
        <5> QED  BY <4>1, <4>4, <5>1
      <4> QED  BY <4>2, <4>3, <4>4
    <3> HIDE DEF h
    <3> QED  BY <3>1, <3>2
  <2>5. NoCached(i, a)'
      BY <2>1, <2>2
  <2> HIDE DEF NoCached, NoLoad, Harmless
  <2> QED  BY <1>3, <1>5, <1>7, <2>2, <2>3, <2>4, <2>5
<1>10. ASSUME NEW r \in Requests, LoadKey(r)
       PROVE  row'[a] # "active" /\ NoCached(i, a)' /\ NoLoad(i, a)'
  <2>1. <<i, a>> \in clean /\ cache' = cache
      BY <1>1, <1>10 DEF LoadKey
  <2>2. row[a] # "active" /\ NoCached(i, a) /\ NoLoad(i, a)
      BY <1>2, <2>1
  <2>3. Harmless([req[r] EXCEPT !.pc = "insert"], i, a)
      BY <1>10, <2>2 DEF LoadKey, TypeOK, Idle, InFlight
  <2>4. NoCached(i, a)'
      BY <2>1, <2>2
  <2> HIDE DEF NoCached, NoLoad, Harmless
  <2> QED  BY <1>3, <1>5, <1>7, <1>10, <2>2, <2>3, <2>4 DEF LoadKey
<1>11. ASSUME NEW r \in Requests, Insert(r)
       PROVE  row'[a] # "active" /\ NoCached(i, a)' /\ NoLoad(i, a)'
  <2>1. /\ <<i, a>> \in clean
        /\ req[r] \in InFlight /\ req[r].pc = "insert"
      BY <1>1, <1>11 DEF Insert, TypeOK, Idle
  <2>2. row[a] # "active" /\ NoCached(i, a) /\ NoLoad(i, a)
      BY <1>2, <2>1
  <2>3. req[r].inst = i => req[r].h.auth # a
      BY <2>1, <2>2 DEF EndingState
  <2>4. <<req[r].tenant, req[r].tok>> \in CacheKeys /\ req[r].inst \in Instances
      BY <2>1 DEF InFlight, CacheKeys
  <2>5. NoCached(i, a)'
      BY <1>11, <2>2, <2>3, <2>4 DEF Insert, CacheKey, TypeOK
  <2>6. NoLoad(i, a)'
      BY <1>11, <2>1, <2>2 DEF Insert, TypeOK, InFlight
  <2> QED  BY <1>3, <2>2, <2>5, <2>6
<1>12. ASSUME NEW r \in Requests, Sign(r) \/ Refuse(r)
       PROVE  row'[a] # "active" /\ NoCached(i, a)' /\ NoLoad(i, a)'
  <2>1. /\ <<i, a>> \in clean /\ cache' = cache
        /\ req' = [req EXCEPT ![r] = Idle]
      BY <1>1, <1>12 DEF Sign, Refuse
  <2>2. NoCached(i, a)'
      BY <1>2, <2>1
  <2> HIDE DEF NoCached, NoLoad, Harmless
  <2> QED  BY <1>2, <1>3, <1>5, <1>7, <2>1, <2>2
<1>13. ASSUME NEW j \in Instances, NEW A \in SUBSET Auths, NEW U, DropHandlers(j, A, U),
              NoteClean(j, A), UNCHANGED <<row, req>>, \A b \in A : row[b] # "active"
       PROVE  row'[a] # "active" /\ NoCached(i, a)' /\ NoLoad(i, a)'
  <2>1. \A k \in CacheKeys : cache'[i][k] \in {cache[i][k], None}
      BY <1>13 DEF DropHandlers, TypeOK
  <2>2. CASE <<i, a>> \in clean
    <3>1. NoLoad(i, a)'
        BY <1>2, <1>13, <2>2
    <3> HIDE DEF NoCached, NoLoad
    <3> QED  BY <1>2, <1>3, <1>4, <2>1, <2>2, <3>1
  <2>3. CASE <<i, a>> \notin clean
    <3>1. i = j /\ a \in A /\ ~Loading(j, a)
        BY <1>1, <1>13, <2>3 DEF NoteClean
    <3>2. NoCached(i, a)'
        BY <1>13, <3>1 DEF DropHandlers, TypeOK
    <3>3. NoLoad(i, a)'
        BY <1>13, <3>1 DEF Loading
    <3> QED  BY <1>13, <3>1, <3>2, <3>3
  <2> QED  BY <2>2, <2>3
<1>14. ASSUME NEW j \in Instances, NEW k \in CacheKeys, Evict(j, k)
       PROVE  row'[a] # "active" /\ NoCached(i, a)' /\ NoLoad(i, a)'
  <2>1. \A l \in CacheKeys : cache'[i][l] \in {cache[i][l], None}
      BY <1>14 DEF Evict, TypeOK
  <2>2. <<i, a>> \in clean /\ UNCHANGED req
      BY <1>1, <1>14 DEF Evict
  <2>3. NoLoad(i, a)'
      BY <1>2, <2>2
  <2> HIDE DEF NoCached, NoLoad
  <2> QED  BY <1>2, <1>3, <1>4, <2>1, <2>2, <2>3
<1> HIDE DEF NoCached, NoLoad
<1>15. ASSUME NEW p \in Operators, Invalidate(p)
       PROVE  row'[a] # "active" /\ NoCached(i, a)' /\ NoLoad(i, a)'
  <2>1. op[p] \in Invalidation /\ \A b \in op[p].auths : row[b] # "active"
      BY <1>15 DEF Invalidate, TypeOK, Idle, EndingState
  <2>2. op[p].inst \in Instances /\ op[p].auths \in SUBSET Auths
      BY <2>1 DEF Invalidation
  <2> QED  BY <1>13, <1>15, <2>1, <2>2 DEF Invalidate
<1>16. ASSUME NEW p \in Operators, NEW b \in Auths, InvalidateNext(p, b)
       PROVE  row'[a] # "active" /\ NoCached(i, a)' /\ NoLoad(i, a)'
  <2>1. op[p] \in Invalidation /\ row[b] # "active"
      BY <1>16 DEF InvalidateNext, TypeOK, Idle, EndingState
  <2>2. op[p].inst \in Instances /\ {b} \in SUBSET Auths /\ \A c \in {b} : row[c] # "active"
      BY <2>1 DEF Invalidation
  <2> QED  BY <1>13, <1>16, <2>2 DEF InvalidateNext
<1>17. ASSUME NEW p \in Operators, NEW j \in Instances, NEW b \in Auths,
              RevokeSession(p, j, b) \/ RevokePrevious(p, j, b)
       PROVE  UNCHANGED <<cache, req>> /\ UNCHANGED clean
    BY <1>17 DEF RevokeSession, RevokePrevious, StartInvalidation
<1>18. ASSUME NEW p \in Operators, NEW j \in Instances, NEW u \in Users,
              RevokeCustomerApp(p, j, u) \/ ChangeKey(p, j, u) \/ DeleteAccount(p, j, u)
       PROVE  UNCHANGED <<cache, req>> /\ UNCHANGED clean
    BY <1>18 DEF RevokeCustomerApp, ChangeKey, ChangeKeyTransaction, DeleteAccount,
       StartInvalidation
<1>19. ASSUME NEW p \in Operators, RevokeCustomerAppFails(p)
       PROVE  UNCHANGED <<cache, req>> /\ UNCHANGED clean
    BY <1>19 DEF RevokeCustomerAppFails
<1>20. ASSUME NEW u \in Users, Claim(u) PROVE UNCHANGED <<cache, req>> /\ UNCHANGED clean
    BY <1>20 DEF Claim
<1>21. ASSUME Tick \/ UNCHANGED vars PROVE UNCHANGED <<cache, req>> /\ UNCHANGED clean
    BY <1>21 DEF Tick, vars
<1> QED
    BY <1>6, <1>8, <1>9, <1>10, <1>11, <1>12, <1>14, <1>15, <1>16, <1>17, <1>18, <1>19,
       <1>20, <1>21
    DEF Next

LEMMA InitIInv == Init => IInv
<1> SUFFICES ASSUME Init PROVE IInv
    OBVIOUS
<1>1. TypeOK
    BY ConstantsAssumption DEF Init, TypeOK
<1>2. RightfulState
    BY DEF Init, RightfulState, CacheKeys, Idle
<1>3. EndingState /\ CleanRevocationHolds
    BY DEF Init, EndingState, CleanRevocationHolds, Idle
<1> QED  BY <1>1, <1>2, <1>3 DEF IInv

\* The inductive invariant holds of every reachable state.
THEOREM Invariance == Spec => []IInv
<1>1. IInv /\ [Next]_vars => IInv'
    BY TypeStep, RightfulStep, EndingStep, CleanStep DEF IInv
<1> QED  BY InitIInv, <1>1, PTL DEF Spec

\* Every variable of the HTTP RPC path keeps its type.
THEOREM TypeCorrect == Spec => []TypeOK
<1>1. IInv => TypeOK
    BY DEF IInv
<1> QED  BY Invariance, <1>1, PTL

\* After invalidate_handlers ran in a process with no load of the
\* authorization under way there, get_handler of that process never again
\* yields a handler for it.
THEOREM CleanRevocation == Spec => []CleanRevocationHolds
<1>1. IInv => CleanRevocationHolds
    BY DEF IInv
<1> QED  BY Invariance, <1>1, PTL

\* get_handler gives a request only the handler of its own token and tenant,
\* from the cache as well as from the database.
THEOREM HandlersAreRightful == Spec => []RightParty
<1>1. IInv => RightParty
    BY DEF IInv, RightfulState, RightParty
<1> QED  BY Invariance, <1>1, PTL
==============================================================================

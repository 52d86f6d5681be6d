------------------------------- MODULE HttpRpc -------------------------------
(***************************************************************************)
(* The HTTP RPC path of the API server: get_handler (nostr_rpc.rs) with    *)
(* the per-process cache of HttpRpcHandler values (http_rpc_handler.rs),   *)
(* and the handlers that end an authorization and invalidate that cache.   *)
(*                                                                         *)
(* Several server processes (Instances) share one database; each has its   *)
(* own cache.  A request is split where its handler awaits: cache lookup,  *)
(* read of the authorization row, read of the key, insertion, use.         *)
(***************************************************************************)
EXTENDS Naturals, FiniteSets

CONSTANTS
    Instances,      \* API server processes
    Requests,       \* concurrent HTTP RPC requests
    Operators,      \* concurrent handlers that end authorizations
    Tenants,
    Users,
    Auths,          \* rows of oauth_authorizations, named by bunker pubkey
    Tokens,         \* UCAN bearer tokens
    Preloaded,      \* users imported without an email
    Owner,          \* Auths -> Users
    AuthExpiry,     \* Auths -> expires_at (NoExpiry for NULL)
    Mode,           \* Tokens -> "oauth" | "preloaded" | "session"
    TokenUser,      \* Tokens -> audience of the UCAN
    TokenAuth,      \* Tokens -> authorization named by the bunker_pubkey fact
    TokenTenant,    \* Tokens -> tenant_id fact
    TokenExpiry,    \* Tokens -> expiry of the UCAN
    NoExpiry,       \* beyond MaxTime
    None,           \* absent value
    MaxTime         \* bound on the clock

ASSUME ConstantsAssumption ==
    /\ Preloaded \subseteq Users
    /\ Owner \in [Auths -> Users]
    /\ AuthExpiry \in [Auths -> Nat]
    /\ Mode \in [Tokens -> {"oauth", "preloaded", "session"}]
    /\ TokenUser \in [Tokens -> Users]
    /\ TokenAuth \in [Tokens -> Auths]
    /\ TokenTenant \in [Tokens -> Tenants]
    /\ TokenExpiry \in [Tokens -> Nat]
    /\ NoExpiry \in Nat /\ MaxTime \in Nat /\ NoExpiry > MaxTime
    /\ None \notin Auths

VARIABLES
    now,        \* wall clock
    row,        \* state of each oauth_authorizations row
    key,        \* users that have a personal_keys row
    unclaimed,  \* users whose email is NULL
    cache,      \* cache[i] : cached handler for each BLAKE3(tenant, token)
    req,        \* the requests
    op,         \* the operators: an invalidation still to be done
    clean       \* ghost: <<i, a>> when i invalidated a with no load of a under way

vars == <<now, row, key, unclaimed, cache, req, op, clean>>

(***************************************************************************)
(* A handler remembers its authorization (None for a preloaded user), its  *)
(* user, and whether the row it was read from was revoked.                 *)
(***************************************************************************)
Handler == [auth : Auths \cup {None}, user : Users, revoked : BOOLEAN]

CacheKeys == Tenants \X Tokens

CacheKeyOfToken(tenant, tok) == <<TokenTenant[tok], tok>>

\* compute_token_cache_key: the hash covers the tenant and the token.
CacheKey(tenant, tok) == <<tenant, tok>>

Idle == [pc |-> "idle"]

(***************************************************************************)
(* What an operator still has to invalidate.  revoke_customer_app (looping)*)
(* does it one authorization at a time, the others in one go.              *)
(***************************************************************************)
Invalidation == [pc : {"invalidate"}, inst : Instances, auths : SUBSET Auths,
                 todo : SUBSET Auths, users : SUBSET Users, looping : BOOLEAN]

InFlight == [pc : {"row", "key", "insert", "ready"}, inst : Instances,
             tenant : Tenants, tok : Tokens, h : Handler \cup {None}]

TypeOK ==
    /\ now \in 0..MaxTime
    /\ row \in [Auths -> {"active", "revoked", "deleted"}]
    /\ key \subseteq Users
    /\ unclaimed \subseteq Users
    /\ cache \in [Instances -> [CacheKeys -> Handler \cup {None}]]
    /\ req \in [Requests -> InFlight \cup {Idle}]
    /\ op \in [Operators -> Invalidation \cup {Idle}]
    /\ clean \subseteq Instances \X Auths

Init ==
    /\ now = 0
    /\ row = [a \in Auths |-> "active"]
    /\ key = Users
    /\ unclaimed = Preloaded
    /\ cache = [i \in Instances |-> [k \in CacheKeys |-> None]]
    /\ req = [r \in Requests |-> Idle]
    /\ op = [p \in Operators |-> Idle]
    /\ clean = {}

------------------------------------------------------------------------------
(* HttpRpcHandler and validate_ucan_token.                                  *)

ExpiresAt(h) == IF h.auth = None THEN NoExpiry ELSE AuthExpiry[h.auth]

\* HttpRpcHandler::is_valid, on the cached fields only.
IsValid(h) == ~h.revoked /\ ~(ExpiresAt(h) < now)

\* validate_ucan_token: not expired, and issued for the request's tenant.
UcanValid(tok, tenant) == ~(TokenExpiry[tok] < now) /\ TokenTenant[tok] = tenant

------------------------------------------------------------------------------
(* get_handler and nostr_rpc.                                               *)

\* FAST PATH hit: a valid handler is used without looking at the UCAN, an
\* invalid one is evicted and the request refused.  Miss: the UCAN is
\* verified; a session UCAN (no bunker_pubkey, signed by the user) is refused.
Lookup(r, i, tenant, tok) ==
    LET k == CacheKey(tenant, tok)
        h == cache[i][k]
        go(pc, hh) == [pc |-> pc, inst |-> i, tenant |-> tenant, tok |-> tok, h |-> hh]
    IN  /\ req[r] = Idle
        /\ \/ /\ h # None /\ IsValid(h)
              /\ req' = [req EXCEPT ![r] = go("ready", h)]
              /\ UNCHANGED cache
           \/ /\ h # None /\ ~IsValid(h)
              /\ cache' = [cache EXCEPT ![i][k] = None]
              /\ UNCHANGED req
           \/ /\ h = None /\ UcanValid(tok, tenant) /\ Mode[tok] # "session"
              /\ req' = [req EXCEPT ![r] = go("row", None)]
              /\ UNCHANGED cache
           \/ /\ h = None /\ ~(UcanValid(tok, tenant) /\ Mode[tok] # "session")
              /\ UNCHANGED <<cache, req>>
        /\ UNCHANGED <<now, row, key, unclaimed, op, clean>>

\* The request once the row is read.
Loaded(q, h) == [pc |-> "key", inst |-> q.inst, tenant |-> q.tenant, tok |-> q.tok, h |-> h]

\* load_preloaded_user_handler: a preloaded user has no authorization, but must
\* still be unclaimed.
FoundPreloaded(u) ==
    IF u \in unclaimed THEN [auth |-> None, user |-> u, revoked |-> FALSE] ELSE None

FoundRowUnrevoked(tok) ==
    LET u == TokenUser[tok]
        a == TokenAuth[tok]
    IN  IF Mode[tok] = "oauth"
        THEN IF row[a] # "deleted" /\ Owner[a] = u
             THEN [auth |-> a, user |-> u, revoked |-> FALSE] ELSE None
        ELSE FoundPreloaded(u)

\* The authorization row, whose user is compared with the token's.
FoundRow(tok) ==
    LET u == TokenUser[tok]
        a == TokenAuth[tok]
    IN  IF Mode[tok] = "oauth"
        THEN IF row[a] # "deleted" /\ Owner[a] = u
             THEN [auth |-> a, user |-> u, revoked |-> row[a] = "revoked"] ELSE None
        ELSE FoundPreloaded(u)

\* load_handler_on_demand, load_preloaded_user_handler: the first query.
LoadRow(r) ==
    LET found == FoundRow(req[r].tok)
    IN  /\ req[r].pc = "row"
        /\ req' = [req EXCEPT ![r] = IF found = None THEN Idle ELSE Loaded(req[r], found)]
        /\ UNCHANGED <<now, row, key, unclaimed, cache, op, clean>>

\* find_encrypted_key_for_tenant and decrypt, then the validity check.
LoadKey(r) ==
    /\ req[r].pc = "key"
    /\ req' = [req EXCEPT ![r] = IF req[r].h.user \in key /\ IsValid(req[r].h)
                                 THEN [req[r] EXCEPT !.pc = "insert"]
                                 ELSE Idle]
    /\ UNCHANGED <<now, row, key, unclaimed, cache, op, clean>>

Insert(r) ==
    /\ req[r].pc = "insert"
    /\ cache' = [cache EXCEPT ![req[r].inst][CacheKey(req[r].tenant, req[r].tok)] = req[r].h]
    /\ req' = [req EXCEPT ![r].pc = "ready"]
    /\ UNCHANGED <<now, row, key, unclaimed, op, clean>>

\* sign_event, nip44_* and nip04_* check the handler again before they use
\* the key; the permission check may still refuse.
Sign(r) ==
    /\ req[r].pc = "ready" /\ IsValid(req[r].h)
    /\ req' = [req EXCEPT ![r] = Idle]
    /\ UNCHANGED <<now, row, key, unclaimed, cache, op, clean>>

\* The handler became invalid, the policy refuses, or only the public key
\* was asked for: no use of the private key.
Refuse(r) ==
    /\ req[r].pc = "ready"
    /\ req' = [req EXCEPT ![r] = Idle]
    /\ UNCHANGED <<now, row, key, unclaimed, cache, op, clean>>

------------------------------------------------------------------------------
(* The handlers that end an authorization: a database write, then the       *)
(* invalidation of the cache of the process that runs the handler.          *)

StartInvalidation(p, i, auths, users, looping) ==
    /\ op[p] = Idle
    /\ op' = [op EXCEPT ![p] = [pc |-> "invalidate", inst |-> i, auths |-> auths,
                                todo |-> auths, users |-> users, looping |-> looping]]
    /\ UNCHANGED <<now, cache, req, clean>>

\* revoke_session: only an authorization that is still active.
RevokeSession(p, i, a) ==
    /\ row[a] = "active"
    /\ row' = [row EXCEPT ![a] = "revoked"]
    /\ StartInvalidation(p, i, {a}, {}, FALSE)
    /\ UNCHANGED <<key, unclaimed>>

\* create_oauth_authorization revokes the authorization it replaces, whether
\* or not it was revoked before.
RevokePrevious(p, i, a) ==
    /\ row[a] # "deleted"
    /\ row' = [row EXCEPT ![a] = "revoked"]
    /\ StartInvalidation(p, i, {a}, {}, FALSE)
    /\ UNCHANGED <<key, unclaimed>>

\* revoke_customer_app: everything the customer granted (one app).
RevokeCustomerApp(p, i, u) ==
    LET mine == {a \in Auths : Owner[a] = u /\ row[a] = "active"}
    IN  /\ mine # {}
        /\ row' = [a \in Auths |-> IF a \in mine THEN "revoked" ELSE row[a]]
        /\ StartInvalidation(p, i, mine, {}, TRUE)
        /\ UNCHANGED <<key, unclaimed>>

\* change_key_transaction: rows and key of the old identity are deleted and its
\* email becomes NULL.
ChangeKeyTransaction(u) ==
    /\ row' = [a \in Auths |-> IF Owner[a] = u THEN "deleted" ELSE row[a]]
    /\ key' = key \ {u}
    /\ unclaimed' = unclaimed \cup {u}

\* change_key: the cache is searched by user.
ChangeKey(p, i, u) ==
    /\ u \in key /\ u \notin unclaimed
    /\ ChangeKeyTransaction(u)
    /\ StartInvalidation(p, i, {a \in Auths : Owner[a] = u}, {u}, FALSE)

\* delete_account: the user row goes and with it rows and key; the cache is
\* searched by the bunker pubkeys that existed.
DeleteAccount(p, i, u) ==
    LET mine == {a \in Auths : Owner[a] = u /\ row[a] # "deleted"}
    IN  /\ u \in key
        /\ row' = [a \in Auths |-> IF a \in mine THEN "deleted" ELSE row[a]]
        /\ key' = key \ {u}
        /\ unclaimed' = unclaimed \ {u}
        /\ StartInvalidation(p, i, mine, {}, FALSE)

\* invalidate_handlers: every entry of process i that matches is gone for the
\* next lookup.
DropHandlers(i, auths, users) ==
    LET hit(h) == h # None /\ (h.auth \in auths \/ h.user \in users)
    IN  cache' = [cache EXCEPT ![i] = [k \in CacheKeys |-> IF hit(cache[i][k]) THEN None
                                                           ELSE cache[i][k]]]

\* A request of process i read the authorization before it ended and has not
\* inserted its handler yet.
Loading(i, a) ==
    \E r \in Requests : /\ req[r].pc \in {"key", "insert"}
                        /\ req[r].inst = i
                        /\ req[r].h.auth = a /\ ~req[r].h.revoked

NoteClean(i, auths) == clean' = clean \cup ({i} \X {a \in auths : ~Loading(i, a)})

Invalidate(p) ==
    /\ op[p].pc = "invalidate" /\ ~op[p].looping
    /\ DropHandlers(op[p].inst, op[p].auths, op[p].users)
    /\ op' = [op EXCEPT ![p] = Idle]
    /\ NoteClean(op[p].inst, op[p].auths)
    /\ UNCHANGED <<now, row, key, unclaimed, req>>

\* One round of revoke_customer_app's loop; success is reported after the last.
InvalidateNext(p, a) ==
    LET last == op[p].todo = {a}
    IN  /\ op[p].pc = "invalidate" /\ op[p].looping /\ a \in op[p].todo
        /\ DropHandlers(op[p].inst, {a}, {})
        /\ op' = [op EXCEPT ![p] = IF last THEN Idle ELSE [op[p] EXCEPT !.todo = @ \ {a}]]
        /\ NoteClean(op[p].inst, {a})
        /\ UNCHANGED <<now, row, key, unclaimed, req>>

\* Its refresh-token update fails: the handler returns the error and never
\* reaches the invalidations that are left.
RevokeCustomerAppFails(p) ==
    /\ op[p].pc = "invalidate" /\ op[p].looping
    /\ op' = [op EXCEPT ![p] = Idle]
    /\ UNCHANGED <<now, row, key, unclaimed, cache, req, clean>>

\* claim_post: the preloaded user gets an email.
Claim(u) ==
    /\ u \in unclaimed /\ u \in key
    /\ unclaimed' = unclaimed \ {u}
    /\ UNCHANGED <<now, row, key, cache, req, op, clean>>

------------------------------------------------------------------------------
(* The environment.                                                         *)

\* moka evicts by size and by idle time.
Evict(i, k) ==
    /\ cache[i][k] # None
    /\ cache' = [cache EXCEPT ![i][k] = None]
    /\ UNCHANGED <<now, row, key, unclaimed, req, op, clean>>

Tick ==
    /\ now < MaxTime
    /\ now' = now + 1
    /\ UNCHANGED <<row, key, unclaimed, cache, req, op, clean>>

Next ==
    \/ \E r \in Requests, i \in Instances, t \in Tenants, tok \in Tokens : Lookup(r, i, t, tok)
    \/ \E r \in Requests : LoadRow(r) \/ LoadKey(r) \/ Insert(r) \/ Sign(r) \/ Refuse(r)
    \/ \E p \in Operators, i \in Instances, a \in Auths :
          RevokeSession(p, i, a) \/ RevokePrevious(p, i, a)
    \/ \E p \in Operators, a \in Auths : InvalidateNext(p, a)
    \/ \E p \in Operators, i \in Instances, u \in Users :
          RevokeCustomerApp(p, i, u) \/ ChangeKey(p, i, u) \/ DeleteAccount(p, i, u)
    \/ \E p \in Operators : Invalidate(p) \/ RevokeCustomerAppFails(p)
    \/ \E u \in Users : Claim(u)
    \/ \E i \in Instances, k \in CacheKeys : Evict(i, k)
    \/ Tick

Spec == Init /\ [][Next]_vars

------------------------------------------------------------------------------
(* Properties.                                                              *)

\* Once a process has invalidated its cache for an ended authorization, and no
\* load of that authorization was under way in it, that process holds no
\* usable handler for it and none is on the way: invalidate_handlers after the
\* database write is enough against every later request of the same process.
CleanRevocationHolds ==
    \A i \in Instances, a \in Auths : <<i, a>> \in clean =>
        /\ row[a] # "active"
        /\ \A k \in CacheKeys : cache[i][k] # None => cache[i][k].auth # a
        /\ \A r \in Requests :
              req[r].pc \in {"key", "insert"} /\ req[r].inst = i /\ req[r].h.auth = a
                 => req[r].h.revoked

\* The handler h answers the token tok on tenant t rightfully.
Rightful(h, t, tok) ==
    /\ TokenTenant[tok] = t
    /\ TokenUser[tok] = h.user
    /\ Mode[tok] = "oauth" => h.auth = TokenAuth[tok] /\ Owner[h.auth] = h.user

\* A handler is only ever given to a request that carries a token of the
\* handler's own user, for its own authorization, on the token's own tenant:
\* the cache hit, which skips the UCAN, never answers across tenants.
RightParty ==
    \A r \in Requests : req[r].pc = "ready" => Rightful(req[r].h, req[r].tenant, req[r].tok)

\* The inductive strengthenings.  Every cached or loaded handler is rightful
\* and a request is past the row read only with a handler.
RightfulState ==
    /\ \A i \in Instances, t \in Tenants, tok \in Tokens :
          cache[i][<<t, tok>>] # None => Rightful(cache[i][<<t, tok>>], t, tok)
    /\ \A r \in Requests :
          /\ req[r].pc = "row" => TokenTenant[req[r].tok] = req[r].tenant
          /\ req[r].pc \in {"key", "insert", "ready"} =>
                /\ req[r].h # None
                /\ Rightful(req[r].h, req[r].tenant, req[r].tok)

\* A handler about to be inserted was valid, and an invalidation is only under
\* way for authorizations that have ended.
EndingState ==
    /\ \A r \in Requests : req[r].pc = "insert" => ~req[r].h.revoked
    /\ \A p \in Operators : op[p].pc = "invalidate" =>
          /\ op[p].todo \subseteq op[p].auths
          /\ \A a \in op[p].auths : row[a] # "active"

IInv == TypeOK /\ RightfulState /\ EndingState /\ CleanRevocationHolds

==============================================================================

# TLA+ specifications of Keycast

Keycast keeps Nostr keys for its users and signs with them on behalf of
applications, over HTTP RPC and over NIP-46 relays. This directory holds TLA+
models of its stateful parts, TLC configurations that check them on small
instances, and TLAPS proofs. `PROJECT.json` lists the components, the runs, the
source lines behind every definition, the hazards and the theorems.

    tlc -workers 2 -config Signup.cfg Signup      # one run; see PROJECT.json
    tlapm OAuthTokensProofs.tla                   # the proofs of a module

## The system

A Keycast deployment is several identical processes over one Postgres database
and one Redis. Each process runs an HTTP API and a signer daemon.

| Part | Source | Model |
|---|---|---|
| HTTP RPC signing and its handler cache | `api/src/api/http/nostr_rpc.rs`, `api/src/handlers/http_rpc_handler.rs` | `HttpRpc` |
| OAuth codes, authorizations, refresh tokens | `api/src/api/http/oauth.rs`, `core/src/repositories/{oauth_code,refresh_token,oauth_authorization}.rs` | `OAuthTokens` |
| Cluster membership and hash ring | `cluster-hashring/src/{coordinator,registry,ring}.rs` | `Cluster` |
| NIP-46 signer daemon and its command channel | `signer/src/signer_daemon.rs`, `core/src/authorization_channel.rs` | `Nip46Signer` |
| Password registration, verification, reset | `api/src/api/http/auth.rs`, `api/src/bcrypt_queue.rs` | `Signup` |
| OAuth and headless registration, polling | `api/src/api/http/{oauth,headless,auth}.rs` | `OAuthSignup` |
| AT Protocol OAuth sessions and account links | `api/src/api/http/{atproto_oauth,atproto}.rs`, `core/src/repositories/atproto_oauth_session.rs` | `AtprotoOAuth` |
| Relay queue, bcrypt queue, secret pool, blocking threads | `signer/src/work_queue.rs`, `api/src/bcrypt_queue.rs`, `core/src/secret_pool.rs` | `BlockingPool` |

How they interact: a registration (`Signup`, `OAuthSignup`) creates an account;
the authorize pages issue a code and the token endpoint exchanges it for an
authorization (`OAuthTokens`), taking a prepared secret from the pool
(`BlockingPool`); the app then signs over HTTP (`HttpRpc`) or over relays
(`Nip46Signer`), where the ring decides which process answers (`Cluster`) and a
bounded queue feeds the workers (`BlockingPool`). Each model keeps the part of
its neighbours it meets: `HttpRpc` and `OAuthTokens` both have the handlers that
revoke an authorization (`revoke_session`, the replacement of a previous one,
`revoke_customer_app`), the first with their effect on caches, the second with
their effect on refresh tokens. `change_key` and `delete_account`, which delete
the rows, are in `HttpRpc` only: in the database the refresh tokens go with the row.

## Modules

In all of them a handler is split where it awaits something whose state others
may change (a database statement, a Redis command, a channel), and one action is
the whole of what happens between two such points. Names are the code's.

**`HttpRpc`** (`MCHttpRpc`, `HttpRpcProofs`). `row`, `key` and `unclaimed` are
the database; `cache` is each process's handler cache, `req` the RPC requests in
flight, `op` the handlers that have ended an authorization in the database and
still have caches to invalidate. `Lookup` is the fast path and the token check of
`get_handler`; `LoadRow`, `LoadKey` and `Insert` are the two loaders;
`RevokeSession`, `RevokePrevious`, `RevokeCustomerApp`, `ChangeKey` and
`DeleteAccount` are the database halves of the revoking handlers, and
`Invalidate`, `InvalidateNext` the cache halves. The ghost `clean` remembers
which process invalidated its cache for which authorization with no load of it
under way.

**`OAuthTokens`** (`MCOAuthTokens`, `OAuthTokensProofs`). `code`, `auth` and `rt`
are three tables; `ex` and `ref` are requests at the token endpoint. An exchange
finds the code, deletes it, resolves its scope, creates the authorization, issues
a refresh token, and ends the previous authorization; it may stop before any of
these. A refresh consumes its token (one `UPDATE ... RETURNING`), checks the
authorization and issues the successor. The exchange's branch for a code that
still carries a pending registration is not there: `oauth_register` and
`headless_register` never give the placeholder code to a client.

**`Cluster`**. `registry` is the Redis sorted set, an entry `"fresh"` or
`"stale"`; `sub` and `inbox` are Pub/Sub with messages lost while a process is
not subscribed; `ring` is each process's copy and `previous` the result of its
last full sync (`prev`). Heartbeat and sync are one task, the listener another;
they run on several threads (`main.rs:362`), so that their load, change and store of the
ring interleave: `hold` is what the listener is about to store, `lock` what the holder of
the registry's mutex is doing. `Ops` are the operations of the library the application
calls: none in the server, where `Exit`, the end of the process, deregisters
nothing. `AnchorPick` stands for the anchorhash crate: some fixed function of the
list of resources and the key.

**`Nip46Signer`** (`MCNip46Signer`). `row` is the authorization, in one of two
tables (`OAuth` says which); the API changes it and sends `Upsert` or `Remove`
through a bounded channel (a disconnect changes the row and sends nothing); the
listener handles one command at a time and the cache keeps a tombstone for what was removed. A request loads its
handler on a miss, connects or validates its client, loads the permissions and
uses the key. Marks on a request record what was already true when it arrived
(ended, deleted, another client's), and so what it must not be served after.

**`Signup`**. One email address; a registration's token also names its row, and
its key may be one the user brings, so that a later row can have the key of an
earlier one. The row records where its hash came from. `RegisterInsert`, `RegisterQueue` and
`RegisterUndo` are the three parts of `register`; `WorkerRecv` and `WorkerWrite`
the bcrypt worker, which finds the row by the token; then verification, resend,
reset, password change, the cleanup task, crashes (the queue is lost) and a clock
in units of five minutes. A request may fail or be dropped at any of its awaits
(`Fails`), and is dropped once it has had the five minutes of the deployment's
request timeout (`cloudbuild.yaml:88`).

**`OAuthSignup`** (`MCOAuthSignup`). A pending registration is a row of
`oauth_codes`; `VerifyFind` to `VerifyDelete` are the OAuth branch of
`verify_email` statement by statement, with a failure possible at each, and
`VerifyUndo` the removal of the issued code when Redis fails; `PollGet`,
`PollPending` and `PollDel` are the polling endpoint.

**`BlockingPool`**. Every wait on a crossbeam channel and every hash is a task on
Tokio's blocking pool of `Threads` threads. `phase` is the blocking call each
task of the runtime is at, `at` whether it is queued or on a thread, `waiting` the
FIFO of those without one; the channels are their fill. Tokio is external and
modelled from what the code relies on: at most `Threads` tasks at a time, started
in order, and no thread given up by a task that waits.

**`AtprotoOAuth`** (`MCAtprotoOAuth`, `AtprotoOAuthProofs`). `row` is
`atproto_oauth_sessions`, one row from the pushed request to the last refresh
token; `link` is a user's account link, reduced to what the handlers tell apart.
`aut` are requests at the authorize endpoint (find, identity, approve, store the
code: four statements), `call` requests at the token endpoint, `change` the
enable, disable and sync handlers, whose state change and revocation are two
writes. The checks of DPoP proofs, client assertions and PKCE appear as the
requests that fail, and as `BindingFails` where failing revokes the session.
`home`, `gave` and `off` are history.

## Runs

| Run | Checks | Shows |
|---|---|---|
| `HttpRpc` | `CleanRevocationHolds`, `RightParty` | After an invalidation that met no load in progress a process never serves the authorization again; a cached handler is only ever used for its token's tenant, user and authorization. |
| `OAuthTokens` | `TypeOK`, `NoForkedChain`, `RevokedChainIsDead` | However refreshes and exchanges overlap or fail, an authorization has at most one live refresh token or one request about to issue it; a refresh that started after the revocation never issues one. |
| `Cluster` | `SyncedRingsAgree` | On several threads, after deaths, a lost subscription or a heartbeat outage, and without the library's other operations: once nothing comes, goes or fails any more, every key is handled by exactly one running process, unless the ring of one has parted from its `previous_members`. What the exception lets through is the run `ClusterGhost`. |
| `ClusterLibrary` | `ShutdownIsFinal` | With the operations `main` does not call: `shutdown` awaits the tasks before it deregisters, so no heartbeat in flight, or taken by `select!` after the cancellation, registers the instance again. |
| `Nip46Signer` | `TypeOK`, `NoLateUse`, `NoUseAfterDeletion`, `NoForeignUse`, `RemovedStaysRemoved` | No request that arrives after an authorization ended and the daemon knows it is served; a removed handler is not brought back by a late load or an old command; a client other than the connected one never gets the key. |
| `Signup` | `TypeOK`, `VerifiedHasPassword`, `ChosenPasswordStands`, `EmailIsFreed` | Nobody is verified without a hash. No late bcrypt job overwrites a chosen password, except in a row into which a change meant for an earlier row of the same key was written (below). A row without a hash gets one or is deleted, provided the cleanup's `DELETE` does not fail for ever. |
| `OAuthSignup` | `TypeOK`, `HeadlessCanRetry`, `CodeHasAccount`, `HeadlessCodeIsLeft` | A headless registration's link works until a code has been left for the app; once its account exists a code that can be exchanged is left in Redis, unless the registration expires first; no code is issued without an account. That the app receives the code is not claimed: it may not poll, or lose the answer. |
| `AtprotoOAuth` | `TypeOK`, `OneResponse`, `CleanDisableHolds` | However approvals, exchanges, refreshes and revocations of a session overlap, a code or refresh token is answered with tokens once; after a disable that met no request of the user in flight nothing of theirs stays open. |
| `BlockingPool` | `TypeOK`, `GetReturns`, `QueuesDrain` | With a thread for every task, everyone who waits for a secret gets one and full queues drain. |
| `ClusterGhost` | `EventuallyOneOwner` (violated) | In the server as it is, without any fault but a death: a process joins, another adds it to its ring, the first dies and its entry expires before the other's next full sync. Its answer is the last one again, so the ring is not repaired and the dead member keeps its keys until the membership changes next. Both intervals are 30 seconds. |
| `Nip46Miss` | `MissLoadsAsRevoked` (violated) | A revoked team authorization that is not cached is loaded as active. |
| `BlockingPoolFull` | `GetReturns` (violated) | As many handlers waiting for a secret as there are blocking threads: the producer gets no thread, and nothing moves again. It takes 512 of them with Tokio's default; `cloudbuild.yaml:91` admits 50 requests at a time to an instance, so that deployment stays below, but nothing in the code ties the numbers. |

The three violated properties are sentences of the repository's own comments,
quoted in `PROJECT.json` under `findings`.

### Bounds

Two of everything that races is the smallest case in which two handlers of one
kind overlap. `HttpRpc` has two processes (local against remote invalidation),
two requests and one revoking handler, and three tokens: one in order, one that
names an authorization its user does not own, one of a preloaded user; any token
may be shown to any tenant. `OAuthTokens` has two codes and authorizations, so
that one replaces the other, and three refresh tokens, so that a chain can fork.
`Cluster` has two processes, which may each start and die, and one fault (a lost
subscription, a heartbeat outage or a forced deregistration); `ClusterGhost` needs
none. An instance id is never used again, as each start draws a new one. `Nip46Signer` has one authorization of either table, two clients, two
requests and a channel of one. `Signup` has three tokens, so that a registration,
a resend and a second registration of the same address fit in one behaviour, and
a clock of twenty minutes against the ten after which a row is stale. It has one
key, the worst case: a request that is about a row replaced by one with another
key changes nothing.
`OAuthSignup` has an app and a web page that register one address, two clicks at a
time and two failures. `BlockingPool` has one worker of each kind, two callers and
channels of one. `AtprotoOAuth` has one session, which all its races are about,
two users who may both approve it, two token requests, one code and three refresh
tokens, so that a chain can fork; with two codes and two authorize requests (12.9
million states, a quarter of an hour) the same properties hold. `Lead = 0` says that the
clocks agree, see below. In `BlockingPoolFull` the callers are as many as the threads and
there are threads for every worker and the producer; the code's numbers are 512
threads, two relay workers and one bcrypt worker per core, and 100 secrets.
Symmetry is used in the safety runs only.

### Fairness

* `Cluster`: the steps a process is in the middle of are weakly fair. The
  heartbeat's `ZADD` and `SyncRead` are strongly fair: they are branches of a
  `select!` over Tokio intervals, which fire again and again, and wait for a mutex.
  The cleanup a heartbeat does by chance is not fair, nor are starting, dying and
  losing a connection; the entry of a dead process does become stale. Nothing is
  assumed about how the 30 seconds compare with the time a start or a delivery takes.
* `Signup`: only `Cleanup` (a task with a five minute interval) and the clock.
  Neither users nor workers are assumed to act. A failed `DELETE` is logged and
  tried again (`bcrypt_queue.rs:242`); that it does not fail for ever is an
  assumption. It is one statement for all stale rows, and `team_users` refers to
  `users` without a cascade (`0001_initial_schema.sql:618`): a single stale row whose
  key is in a team makes it fail for all of them for as long as it is there.
* `OAuthSignup`: a request under way goes on or fails, codes and Redis keys
  expire, and the user clicks again as the page's "Please retry shortly" asks.
  The number of failures is bounded. Nothing obliges the app to poll.
* `BlockingPool`: threads take waiting tasks, tasks that can finish do, hashing
  does not fail for ever and a waiting handler is not passed over for ever.
  Arrivals are free in the passing run and steady in the violated one, so that
  the stall is not the effect of missing traffic.

## Proofs

`OAuthTokensProofs` proves for any number of codes, authorizations, tokens and
requests, and any life times: `TypeCorrect`, `RotationNeverForks` (`NoForkedChain`)
and `RevocationEndsChain` (`RevokedChainIsDead`). `NoForkedChain` is not inductive:
a request that has consumed a token, or created an authorization, is about to
issue one. The inductive invariant is

    IInv == TypeOK /\ ExchangeState /\ OneBaton /\ LateIsRevoked

`OneBaton` treats the right to the next refresh token as a baton held by exactly
one live token, one refresh after its consume, or one exchange before its issue;
`ExchangeState` ties an exchange's step to the authorization it created;
`LateIsRevoked` says that a refresh which began after the revocation is still
before the check, and that a revoked row stays revoked.

`HttpRpcProofs` proves for any processes, requests, users and tokens:
`TypeCorrect` (the type invariant, which the induction needs and no run checks), `CleanRevocation` (`CleanRevocationHolds`) and `HandlersAreRightful`
(`RightParty`), from

    IInv == TypeOK /\ RightfulState /\ EndingState /\ CleanRevocationHolds

`RightfulState` extends `RightParty` from handlers in use to those cached and on
the way; `EndingState` says that an invalidation is only under way for
authorizations that have ended in the database and that what is about to be
inserted was found valid. The argument is the order of the code: the row is
changed before the cache is cleared, so a load that begins later reads the ended
row, and one that began earlier is excluded by `clean`.

`AtprotoOAuthProofs` proves for any users, sessions, tokens and requests:
`TypeCorrect`, `CleanDisable` (`CleanDisableHolds`) and, under the hypothesis
`Lead = 0`, `GrantsAreSingleUse` (`OneResponse`), from

    IInv == TypeOK /\ Bound /\ AtHome /\ OffIsNotReady /\ CleanDisableHolds

and `Spent`. `Bound` gives a user to every row with a token, which the type of a
token request needs; `AtHome` keeps a token at the session it was generated for,
so that a code written back cannot turn up in another row; `Spent` says that what
was redeemed is not found again. The hypothesis is needed: `store_token_artifacts`
writes the redeemed code back with the server's present time as its expiry, and
the database compares that with its own clock.

All rest on the named assumption `ConstantsAssumption` of their module: the
tables of the constants have their types, `None` is none of the elements, codes
and refresh tokens differ.

Only model-checked: the liveness properties (`SyncedRingsAgree`, `EmailIsFreed`,
`HeadlessCodeIsLeft`, `GetReturns`, `QueuesDrain`), which depend on fairness and are
out of the prover's reach, and so far the safety properties of
`Cluster`, `Nip46Signer`, `Signup` and `OAuthSignup`.

## Other differences between the code and its text

Seen while modelling, each a behaviour of the models and not given a run:

* `magic_link.rs:655` says a revocation "Takes effect on the app's next call.";
  the invalidation reaches the cache of its own process only, and not a load that
  has read the row and not yet inserted (`nostr_rpc.rs:449-510`).
* `IDENTITY_INTEGRATION_GUIDE.md:484`: "Code is single-use only"; the exchange
  finds and deletes in two statements and does not look at the number of deleted
  rows, so two that overlap both succeed (`oauth.rs:2614`).
* `nostr_rpc.rs:356` "full access until account is claimed" and `:410` "No expiry
  (handled by token expiry)"; a cache hit looks neither at the claim nor at the
  token.
* `IDENTITY_INTEGRATION_GUIDE.md:222` uses scope `sign_event`, the default at
  `oauth.rs:641`; the exchange accepts only `policy:` scopes, after it has deleted
  the code.
* `coordinator.rs:437`: "Events are broadcast AFTER the ring has been updated.";
  the full sync broadcasts first (237-253).
* `main.rs:1025` expects a deregistration on drop; `registry.rs:21` only logs.
* `docs/synvya/support-users.md:392`: "The signer daemon enforces expiry."; for a
  cached team handler it is looked at only when the handler is loaded.
* `signer_daemon.rs:217`: the secret "becomes single-use after first successful
  connect"; two overlapping connects are both acknowledged.
* `auth.rs:2354`: "requiring the client to reconnect"; the first request after a
  disconnect stores its client again (`signer_daemon.rs:453`).
* `auth.rs:1542`: "password_hash IS NULL means still processing"; a resend before
  the bcrypt worker has written replaces the token by which the worker finds the
  row (`auth.rs:1756`), and the hash never comes.
* `oauth.rs`, poll: "Delete key (one-time use)"; GET and DEL are two commands, so
  two polls that overlap may both get the code, and the DEL of a poll that read the
  undone code of a failed click may remove the good one a later click left.

A behaviour of `Signup` that no text speaks about, the exception of
`ChosenPasswordStands`: a row with a brought key gets its password from a reset
before its registration has queued its job; the queue is full and the row is deleted,
by key; the same key registers again; and a `change_password` asked for the first
row writes its hash, by key, into the second, whose own bcrypt job then overwrites
it.

Behaviours of `AtprotoOAuth` that no text of the repository speaks about: two users
who approve one request at the same time may leave the code of one with the DID of
the other (`atproto_oauth.rs:1065-1076`, two statements); an approval that has read
a ready link completes after the disable; the write-back of a redeemed code
replaces a code stored meanwhile; a session revoked during an exchange gets no
refresh token, and its client an answer that says it did (`:1188`); a failed call
of the control plane overwrites a link that a sync has made ready (`atproto.rs:138`).

## Not modelled, and the plan

Left out for good: token signatures, PKCE and other cryptography, formatting and
mail, the web front end and clients, metrics, documentation pages, the IAM tokens
of the Redis connection, and `signer_manager.rs`, which is not compiled.

Planned, in this order:

1. Magic links, claim tokens and customer accounts: one-time tokens redeemed by
   overlapping requests, composed with `OAuthTokens`.
2. Teams: membership, invitations, stored keys and policies; the rule that a team
   keeps an administrator.
3. Custom permissions as operators checked against a reference definition.
4. Account deletion with its notices (delivery, retry, give-up), rate limiting,
   the caching key manager.
5. An abstract specification of what an authorization promises its user, which
   `HttpRpc` and `OAuthTokens` implement under refinement mappings.
6. Proofs: `RemovedStaysRemoved`, `NoForeignUse` and `NoLateUse` of `Nip46Signer`;
   `ChosenPasswordStands` and `VerifiedHasPassword` of `Signup`;
   `HeadlessCanRetry` and `CodeHasAccount` of `OAuthSignup`; that a thread for
   every task keeps `BlockingPool` from stalling.

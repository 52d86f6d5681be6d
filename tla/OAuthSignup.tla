---------------------------- MODULE OAuthSignup ----------------------------
(***************************************************************************)
(* Registration through OAuth, in the popup or headless: the account is    *)
(* created only when the link in the mail is clicked.  Until then an       *)
(* oauth_codes row holds the pending registration; the click creates the   *)
(* account, issues an authorization code, leaves it in Redis for the app   *)
(* that polls with its device_code, and deletes the pending row            *)
(* (oauth_register, headless_register, verify_email and poll).             *)
(*                                                                         *)
(* A registration stands for its verification token, device code, email    *)
(* address and key.  Expiry is an action: 24 hours for a pending row, ten  *)
(* minutes for a code, and for the Redis key ten minutes that begin later. *)
(***************************************************************************)
EXTENDS Naturals

CONSTANTS Regs,      \* registrations
          Headless,  \* those of headless_register
          EmailOf,   \* the email address of each
          KeyOf,     \* the public key of each
          Codes,     \* authorization codes; the name of a forgotten one is used again
          Clicks,    \* verify_email requests at one time
          Polls,     \* poll requests at one time
          MaxFaults, \* bound on failures
          None

ASSUME ConstantsAssumption ==
    /\ Headless \subseteq Regs /\ None \notin Regs \cup Codes
    /\ MaxFaults \in Nat

VARIABLES redisOn,    \* state.redis is configured; never changes
          pending,    \* the pending rows of oauth_codes
          user,       \* for each key, the registration its users row came from
          code,       \* the oauth_codes rows of issued codes: their registration
          redis,      \* oauth_poll:{device_code}
          click,      \* the verify_email requests
          poll,       \* the poll requests
          holders,    \* codes a client received
          delivered,  \* ghost: registrations whose code was left in Redis
          faults

vars == <<redisOn, pending, user, code, redis, click, poll, holders, delivered, faults>>

Keys == {KeyOf[r] : r \in Regs}
Idle == [pc |-> "idle"]

TypeOK ==
    /\ redisOn \in BOOLEAN
    /\ pending \in [Regs -> {"none", "pending", "expired", "deleted"}]
    /\ user \in [Keys -> Regs \cup {None}]
    /\ code \in [Codes -> Regs \cup {None}]
    /\ redis \in [Regs -> Codes \cup {None}]
    /\ click \in [Clicks -> {Idle} \cup
                    [pc : {"exists", "create", "store", "deliver", "undo", "delete"},
                     reg : Regs, code : Codes \cup {None}]]
    /\ poll \in [Polls -> {Idle} \cup [pc : {"del"}, reg : Regs, code : Codes]]
    /\ holders \subseteq Codes
    /\ delivered \subseteq Regs
    /\ faults \in 0..MaxFaults

Init ==
    /\ redisOn \in BOOLEAN
    /\ pending = [r \in Regs |-> "none"]
    /\ user = [k \in Keys |-> None]
    /\ code = [c \in Codes |-> None]
    /\ redis = [r \in Regs |-> None]
    /\ click = [v \in Clicks |-> Idle]
    /\ poll = [p \in Polls |-> Idle]
    /\ holders = {}
    /\ delivered = {}
    /\ faults = 0

\* A database or Redis call fails, or the process dies.
Fault == faults < MaxFaults /\ faults' = faults + 1

EmailTaken(r) == \E k \in Keys : user[k] # None /\ EmailOf[user[k]] = EmailOf[r]

Registered(r) == user[KeyOf[r]] # None

----------------------------------------------------------------------------
(***************************************************************************)
(* oauth_register and headless_register.  The checks precede the insertion *)
(* of the pending row; that no constraint ties the two is the same as a    *)
(* registration that came earlier.                                         *)
(***************************************************************************)
StorePending(r) ==
    /\ pending[r] = "none"
    /\ pending' = [pending EXCEPT ![r] = "pending"]
    /\ UNCHANGED <<user, code, redis, click, poll, holders, delivered, faults>>

OAuthRegister(r) ==
    /\ r \notin Headless
    /\ ~EmailTaken(r) /\ ~Registered(r)
    /\ StorePending(r)

\* A key the server generates is new.
HeadlessRegister(r) ==
    /\ r \in Headless
    /\ ~Registered(r) /\ ~EmailTaken(r)
    /\ StorePending(r)

\* Pending for EMAIL_VERIFICATION_EXPIRY_HOURS.
Expire(r) ==
    /\ pending[r] = "pending"
    /\ pending' = [pending EXCEPT ![r] = "expired"]
    /\ UNCHANGED <<user, code, redis, click, poll, holders, delivered, faults>>

----------------------------------------------------------------------------
(***************************************************************************)
(* verify_email with the token of a pending registration.                  *)
(***************************************************************************)
AtStep(v, pc) == click[v].pc = pc

Goto(v, pc, c) ==
    click' = [click EXCEPT ![v] = [pc |-> pc, reg |-> click[v].reg, code |-> c]]

Reply(v) == click' = [click EXCEPT ![v] = Idle]

\* find_by_verification_token: not expired.
VerifyFind(v, r) ==
    /\ AtStep(v, "idle") /\ pending[r] = "pending"
    /\ click' = [click EXCEPT ![v] = [pc |-> "exists", reg |-> r, code |-> None]]
    /\ UNCHANGED <<pending, user, code, redis, poll, holders, delivered, faults>>

VerifyExistsAlwaysCreates(v) ==
    /\ AtStep(v, "exists")
    /\ Goto(v, "create", None)
    /\ UNCHANGED <<pending, user, code, redis, poll, holders, delivered, faults>>

\* An account with this key means that an earlier click came this far.
VerifyExists(v) ==
    /\ AtStep(v, "exists")
    /\ Goto(v, IF Registered(click[v].reg) THEN "store" ELSE "create", None)
    /\ UNCHANGED <<pending, user, code, redis, poll, holders, delivered, faults>>

VerifyCreateIgnoresConflict(v) ==
    /\ AtStep(v, "create")
    /\ LET r == click[v].reg IN
       user' = IF EmailTaken(r) \/ Registered(r) THEN user
               ELSE [user EXCEPT ![KeyOf[r]] = r]
    /\ Goto(v, "store", None)
    /\ UNCHANGED <<pending, code, redis, poll, holders, delivered, faults>>

\* The users row and the personal key in one transaction; both the key and the
\* email address are unique, and a conflict ends the request.
VerifyCreate(v) ==
    /\ AtStep(v, "create")
    /\ LET r == click[v].reg IN
       \/ /\ ~EmailTaken(r) /\ ~Registered(r)
          /\ user' = [user EXCEPT ![KeyOf[r]] = r]
          /\ Goto(v, "store", None)
       \/ /\ EmailTaken(r) \/ Registered(r)
          /\ Reply(v)
          /\ UNCHANGED user
    /\ UNCHANGED <<pending, code, redis, poll, holders, delivered, faults>>

Forgotten(c) ==
    /\ code[c] = None /\ c \notin holders
    /\ \A r \in Regs : redis[r] # c
    /\ \A v \in Clicks : click[v] # Idle => click[v].code # c
    /\ \A p \in Polls : poll[p] # Idle => poll[p].code # c

\* A headless registration needs Redis: without it the click is to be retried.
VerifyStore(v, c) ==
    /\ AtStep(v, "store") /\ Forgotten(c)
    /\ \/ /\ click[v].reg \in Headless /\ ~redisOn
          /\ Reply(v)
          /\ UNCHANGED code
       \/ /\ click[v].reg \in Headless => redisOn
          /\ code' = [code EXCEPT ![c] = click[v].reg]
          /\ Goto(v, "deliver", c)
    /\ UNCHANGED <<pending, user, redis, poll, holders, delivered, faults>>

Setex(v) == redis' = [redis EXCEPT ![click[v].reg] = click[v].code]

VerifyDeliverContinues(v) ==
    /\ AtStep(v, "deliver")
    /\ \/ /\ redisOn /\ Setex(v)
          /\ delivered' = delivered \cup {click[v].reg}
          /\ UNCHANGED faults
       \/ /\ redisOn => Fault
          /\ ~redisOn => UNCHANGED faults
          /\ UNCHANGED <<redis, delivered>>
    /\ Goto(v, "delete", click[v].code)
    /\ UNCHANGED <<pending, user, code, poll, holders>>

\* setex: an error leaves open whether Redis has the value.  It ends a headless
\* request; a web request goes on, its code travels in the redirect.
VerifyDeliver(v) ==
    /\ AtStep(v, "deliver")
    /\ \/ /\ redisOn /\ Setex(v)
          /\ delivered' = delivered \cup {click[v].reg}
          /\ Goto(v, "delete", click[v].code)
          /\ UNCHANGED faults
       \/ /\ ~redisOn
          /\ Goto(v, "delete", click[v].code)
          /\ UNCHANGED <<redis, delivered, faults>>
       \/ /\ redisOn /\ Fault
          /\ Setex(v) \/ UNCHANGED redis
          /\ Goto(v, IF click[v].reg \in Headless THEN "undo" ELSE "delete", click[v].code)
          /\ UNCHANGED delivered
    /\ UNCHANGED <<pending, user, code, poll, holders>>

\* The code goes again; if that fails too it is only logged.
VerifyUndo(v) ==
    /\ AtStep(v, "undo")
    /\ \/ code' = [code EXCEPT ![click[v].code] = None] /\ UNCHANGED faults
       \/ Fault /\ UNCHANGED code
    /\ Reply(v)
    /\ UNCHANGED <<pending, user, redis, poll, holders, delivered>>

\* delete_by_verification_token, and the redirect of a web request.
VerifyDelete(v) ==
    /\ AtStep(v, "delete")
    /\ pending' = [pending EXCEPT ![click[v].reg] = "deleted"]
    /\ holders' = IF click[v].reg \in Headless THEN holders
                  ELSE holders \cup {click[v].code}
    /\ Reply(v)
    /\ UNCHANGED <<user, code, redis, poll, delivered, faults>>

VerifyFails(v) ==
    /\ ~AtStep(v, "idle") /\ Fault
    /\ Reply(v)
    /\ UNCHANGED <<pending, user, code, redis, poll, holders, delivered>>

----------------------------------------------------------------------------
(***************************************************************************)
(* poll: GET, then DEL of whatever the key holds by then.                  *)
(***************************************************************************)

PollGetUnchecked(p, r) ==
    /\ redisOn /\ poll[p] = Idle
    /\ poll' = [poll EXCEPT ![p] = [pc |-> "del", reg |-> r, code |-> redis[r]]]
    /\ UNCHANGED <<pending, user, code, redis, click, holders, delivered, faults>>

PollGet(p, r) ==
    /\ redisOn /\ poll[p] = Idle /\ redis[r] # None
    /\ poll' = [poll EXCEPT ![p] = [pc |-> "del", reg |-> r, code |-> redis[r]]]
    /\ UNCHANGED <<pending, user, code, redis, click, holders, delivered, faults>>

\* 202 while there is nothing, an error without Redis.
PollPending(p, r) ==
    /\ poll[p] = Idle
    /\ redisOn => redis[r] = None
    /\ UNCHANGED <<pending, user, code, redis, click, poll, holders, delivered, faults>>

\* The result of DEL is not looked at.
PollDel(p) ==
    /\ poll[p].pc = "del"
    /\ \/ redis' = [redis EXCEPT ![poll[p].reg] = None] /\ UNCHANGED faults
       \/ Fault /\ UNCHANGED redis
    /\ holders' = holders \cup {poll[p].code}
    /\ poll' = [poll EXCEPT ![p] = Idle]
    /\ UNCHANGED <<pending, user, code, click, delivered>>

----------------------------------------------------------------------------
\* The client exchanges its code, or gives it up when it is refused.
Exchange(c) ==
    /\ c \in holders
    /\ code' = [code EXCEPT ![c] = None]
    /\ holders' = holders \ {c}
    /\ UNCHANGED <<pending, user, redis, click, poll, delivered, faults>>

\* A code lives for ten minutes, a request for five (--timeout=300 in
\* cloudbuild.yaml): none expires under the click that stored it.
CodeExpire(c) ==
    /\ code[c] # None
    /\ \A v \in Clicks : click[v] # Idle => click[v].code # c
    /\ code' = [code EXCEPT ![c] = None]
    /\ UNCHANGED <<pending, user, redis, click, poll, holders, delivered, faults>>

\* The key was set after its code was stored and lives as long.
RedisExpire(r) ==
    /\ redis[r] # None /\ code[redis[r]] = None
    /\ redis' = [redis EXCEPT ![r] = None]
    /\ UNCHANGED <<pending, user, code, click, poll, holders, delivered, faults>>

Verify(v) ==
    \/ VerifyExists(v) \/ VerifyCreate(v) \/ VerifyDeliver(v)
    \/ VerifyUndo(v) \/ VerifyDelete(v)
    \/ \E c \in Codes : VerifyStore(v, c)

Next ==
    /\ \/ \E r \in Regs : OAuthRegister(r) \/ HeadlessRegister(r) \/ Expire(r) \/ RedisExpire(r)
       \/ \E v \in Clicks : \/ Verify(v) \/ VerifyFails(v)
                            \/ \E r \in Regs : VerifyFind(v, r)
       \/ \E p \in Polls : PollDel(p) \/ \E r \in Regs : PollGet(p, r) \/ PollPending(p, r)
       \/ \E c \in Codes : Exchange(c) \/ CodeExpire(c)
    /\ UNCHANGED redisOn

Spec == Init /\ [][Next]_vars

(***************************************************************************)
(* The requests run, the page's user retries as "Please retry shortly"     *)
(* asks, and what expires expires.                                         *)
(***************************************************************************)
FairSpec ==
    /\ Spec
    /\ \A v \in Clicks : WF_vars(Verify(v) /\ UNCHANGED redisOn)
    /\ \A p \in Polls : WF_vars(PollDel(p) /\ UNCHANGED redisOn)
    /\ \A r \in Regs : SF_vars((\E v \in Clicks : VerifyFind(v, r)) /\ UNCHANGED redisOn)
    /\ \A c \in Codes : WF_vars((Exchange(c) \/ CodeExpire(c)) /\ UNCHANGED redisOn)
    /\ \A r \in Regs : WF_vars(RedisExpire(r) /\ UNCHANGED redisOn)

----------------------------------------------------------------------------
(***************************************************************************)
(* A headless registration gives up its pending row only after its code    *)
(* was left for the app: until then the link can be clicked again, however *)
(* many clicks overlap and wherever one fails.                             *)
(***************************************************************************)
HeadlessCanRetry == \A r \in Headless : pending[r] = "deleted" => r \in delivered

(***************************************************************************)
(* A code that can be exchanged is the code of an account that exists,     *)
(* although two registrations with one email address may be pending and    *)
(* verified at the same time.                                              *)
(***************************************************************************)
CodeHasAccount == \A c \in Codes : code[c] # None => Registered(code[c])

\* What the poll endpoint hands out can be exchanged.
LiveCodeLeft(r) == redis[r] # None /\ code[redis[r]] = r

(***************************************************************************)
(* Once a click has created the account of a headless registration, a code *)
(* the app can exchange is eventually left in Redis for it, however that   *)
(* click and later ones ended, unless the registration expires first.      *)
(* That the app picks it up is not said: it may not poll, and the DEL of a *)
(* poll that read the undone code of a failed click may remove this one.   *)
(***************************************************************************)
HeadlessCodeIsLeft == \A r \in Headless :
    (redisOn /\ user[KeyOf[r]] = r /\ r \notin delivered)
        ~> (LiveCodeLeft(r) \/ pending[r] = "expired")

============================================================================

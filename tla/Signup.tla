------------------------------- MODULE Signup -------------------------------
(***************************************************************************)
(* Password sign-up for one email address of one tenant: registration      *)
(* stores the user without a password hash and queues a bcrypt job; a      *)
(* worker writes the hash into the row that still carries the job's        *)
(* verification token.  Meanwhile the user verifies the email, asks for    *)
(* another verification mail, resets or changes the password, and a        *)
(* cleanup task deletes rows whose hash never came                         *)
(* (api/src/bcrypt_queue.rs, api/src/api/http/auth.rs).                    *)
(*                                                                         *)
(* A registration makes a fresh token, which also names the row it creates; *)
(* its key pair is new or one the user brings, so that the key of a deleted *)
(* row may come back.  Only the origin of a password hash matters.  The    *)
(* clock counts units of five minutes, which is also how long a request    *)
(* may take (--timeout=300 in cloudbuild.yaml).  A request that changes    *)
(* nothing (unknown or expired token, wrong password, hash still missing,  *)
(* key or email taken) is not a step.                                      *)
(***************************************************************************)
EXTENDS Naturals, Sequences

CONSTANTS Tokens,    \* verification tokens
          Keys,      \* key pairs: generated, or brought by the user
          Handlers,  \* HTTP requests being served at one time
          Workers,   \* bcrypt workers
          Capacity,  \* QUEUE_CAPACITY
          MaxTime,   \* bound on the clock
          Faults,    \* which of "crash" and "error" may happen
          None

ASSUME ConstantsAssumption ==
    /\ None \notin Tokens
    /\ Capacity \in Nat \ {0}
    /\ MaxTime \in Nat
    /\ Faults \subseteq {"crash", "error"}

VARIABLES now,     \* the clock
          user,    \* the row of the users table with this email, or None
          queue,   \* the bcrypt queue: tokens of jobs
          worker,  \* the job each worker is hashing, or None
          h,       \* the requests being served
          issued   \* tokens generated so far

vars == <<now, user, queue, worker, h, issued>>

StaleAfter == 2  \* ten minutes: created_at < NOW() - INTERVAL '10 minutes'
ResendAfter == 1 \* five minutes between two verification mails

\* Where a hash comes from.
Hashes == {None, "register", "reset", "change"}

\* strayed is history: a change_password asked for an earlier row with the same
\* key was written into this one.
User == [row : Tokens, strayed : BOOLEAN, key : Keys, verified : BOOLEAN, hash : Hashes,
         vtoken : Tokens \cup {None}, reset : BOOLEAN,
         created : 0..MaxTime, sent : 0..MaxTime \cup {None}]

Idle == [pc |-> "idle"]

TypeOK ==
    /\ now \in 0..MaxTime
    /\ user \in User \cup {None}
    /\ queue \in Seq(Tokens) /\ Len(queue) <= Capacity
    /\ worker \in [Workers -> Tokens \cup {None}]
    /\ h \in [Handlers -> {Idle} \cup
                [pc : {"queue", "undo", "mark", "rotate", "reset", "change"},
                 row : Tokens, key : Keys, old : BOOLEAN]]
    /\ issued \subseteq Tokens

Init ==
    /\ now = 0
    /\ user = None
    /\ queue = << >>
    /\ worker = [w \in Workers |-> None]
    /\ h = [i \in Handlers |-> Idle]
    /\ issued = {}

----------------------------------------------------------------------------
\* A request keeps the key of the row it found; which row that was (row) is history.
Begin(i, pc, u) ==
    /\ h[i] = Idle
    /\ h' = [h EXCEPT ![i] = [pc |-> pc, row |-> u.row, key |-> u.key, old |-> FALSE]]

AtStep(i, pc) == h[i].pc = pc

End(i) == h' = [h EXCEPT ![i] = Idle]

\* UPDATE users .. WHERE pubkey = key: the row may be gone by now.
Matches(key) == user # None /\ user.key = key

\* register: the transaction inserts the row; email and key are unique.
RegisterInsert(i, t, k) ==
    /\ user = None /\ t \notin issued
    /\ now + StaleAfter <= MaxTime
    /\ user' = [row |-> t, strayed |-> FALSE, key |-> k, verified |-> FALSE, hash |-> None,
                vtoken |-> t, reset |-> FALSE, created |-> now, sent |-> None]
    /\ issued' = issued \cup {t}
    /\ Begin(i, "queue", user')
    /\ UNCHANGED <<now, queue, worker>>

RegisterQueueUnbounded(i) ==
    /\ AtStep(i, "queue")
    /\ queue' = Append(queue, h[i].row)
    /\ End(i)
    /\ UNCHANGED <<now, user, worker, issued>>

\* bcrypt_sender.try_send
RegisterQueue(i) ==
    /\ AtStep(i, "queue")
    /\ IF Len(queue) < Capacity
         THEN queue' = Append(queue, h[i].row) /\ End(i)
         ELSE h' = [h EXCEPT ![i].pc = "undo"] /\ UNCHANGED queue
    /\ UNCHANGED <<now, user, worker, issued>>

\* At capacity: the row goes again and the caller is told to retry.
RegisterUndo(i) ==
    /\ AtStep(i, "undo")
    /\ user' = IF Matches(h[i].key) THEN None ELSE user
    /\ End(i)
    /\ UNCHANGED <<now, queue, worker, issued>>

\* verify_email finds the row by the token of the mail.  Without a hash the
\* caller polls or registers again; the link lives longer than the model's clock.
VerifyFindHashless(i) ==
    /\ user # None /\ user.vtoken # None /\ ~user.verified
    /\ Begin(i, "mark", user)
    /\ UNCHANGED <<now, user, queue, worker, issued>>

VerifyFind(i) ==
    /\ user # None /\ user.vtoken # None /\ ~user.verified
    /\ user.hash # None
    /\ Begin(i, "mark", user)
    /\ UNCHANGED <<now, user, queue, worker, issued>>

VerifyMark(i) ==
    /\ AtStep(i, "mark")
    /\ user' = IF Matches(h[i].key) THEN [user EXCEPT !.verified = TRUE] ELSE user
    /\ End(i)
    /\ UNCHANGED <<now, queue, worker, issued>>

\* resend_verification: not for a verified email, and once in five minutes;
\* registration itself leaves email_verification_sent_at empty.
ResendFind(i) ==
    /\ user # None /\ ~user.verified
    /\ user.sent # None => now - user.sent >= ResendAfter
    /\ Begin(i, "rotate", user)
    /\ UNCHANGED <<now, user, queue, worker, issued>>

ResendRotate(i, t) ==
    /\ AtStep(i, "rotate") /\ t \notin issued
    /\ user' = IF Matches(h[i].key) THEN [user EXCEPT !.vtoken = t, !.sent = now] ELSE user
    /\ issued' = issued \cup {t}
    /\ End(i)
    /\ UNCHANGED <<now, queue, worker>>

ForgotPassword ==
    /\ user # None
    /\ user' = [user EXCEPT !.reset = TRUE]
    /\ UNCHANGED <<now, queue, worker, h, issued>>

\* reset_password finds the row by the reset token and hashes the new password.
ResetFind(i) ==
    /\ user # None /\ user.reset
    /\ Begin(i, "reset", user)
    /\ UNCHANGED <<now, user, queue, worker, issued>>

ResetWriteKeepsToken(i) ==
    /\ AtStep(i, "reset")
    /\ user' = IF Matches(h[i].key)
                 THEN [user EXCEPT !.hash = "reset", !.reset = FALSE, !.verified = TRUE]
                 ELSE user
    /\ End(i)
    /\ UNCHANGED <<now, queue, worker, issued>>

ResetWrite(i) ==
    /\ AtStep(i, "reset")
    /\ user' = IF Matches(h[i].key)
                 THEN [user EXCEPT !.hash = "reset", !.reset = FALSE, !.verified = TRUE,
                                   !.vtoken = None]
                 ELSE user
    /\ End(i)
    /\ UNCHANGED <<now, queue, worker, issued>>

\* change_password: a signed-in user proves the old password, then the new one
\* is hashed.
ChangeFind(i) ==
    /\ user # None /\ user.verified /\ user.hash # None
    /\ Begin(i, "change", user)
    /\ UNCHANGED <<now, user, queue, worker, issued>>

ChangeWrite(i) ==
    /\ AtStep(i, "change")
    /\ user' = IF Matches(h[i].key)
                 THEN [user EXCEPT !.hash = "change", !.strayed = @ \/ user.row # h[i].row]
                 ELSE user
    /\ End(i)
    /\ UNCHANGED <<now, queue, worker, issued>>

----------------------------------------------------------------------------
WorkerRecv(w) ==
    /\ worker[w] = None /\ queue # << >>
    /\ worker' = [worker EXCEPT ![w] = Head(queue)]
    /\ queue' = Tail(queue)
    /\ UNCHANGED <<now, user, h, issued>>

\* UPDATE users SET password_hash .. WHERE email_verification_token = token
WorkerWrite(w) ==
    /\ worker[w] # None
    /\ user' = IF user # None /\ user.vtoken = worker[w]
                 THEN [user EXCEPT !.hash = "register"] ELSE user
    /\ worker' = [worker EXCEPT ![w] = None]
    /\ UNCHANGED <<now, queue, h, issued>>

\* Hashing or the update fails: logged, and the job is gone.
WorkerFails(w) ==
    /\ "error" \in Faults
    /\ worker[w] # None
    /\ worker' = [worker EXCEPT ![w] = None]
    /\ UNCHANGED <<now, user, queue, h, issued>>

CleanupUnmarked ==
    /\ user # None /\ user.hash = None
    /\ user.vtoken # None /\ user.vtoken = user.row
    /\ now - user.created >= StaleAfter
    /\ user' = None
    /\ UNCHANGED <<now, queue, worker, h, issued>>

\* STALE_SIGNUP_CONDITION.  A DELETE that fails is logged, changes nothing and is
\* tried again five minutes later.
Cleanup ==
    /\ user # None /\ user.hash = None /\ user.vtoken # None
    /\ now - user.created >= StaleAfter
    /\ user' = None
    /\ UNCHANGED <<now, queue, worker, h, issued>>

\* The process dies with its queue, its workers and its requests.
Crash ==
    /\ "crash" \in Faults
    /\ queue' = << >>
    /\ worker' = [w \in Workers |-> None]
    /\ h' = [i \in Handlers |-> Idle]
    /\ UNCHANGED <<now, user, issued>>

\* A statement of the request fails, or its client goes away and its future is
\* dropped where it waits.
Fails(i) ==
    /\ h[i] # Idle
    /\ End(i)
    /\ UNCHANGED <<now, user, queue, worker, issued>>

\* Five minutes pass; a request that has had as much is dropped too.
Tick ==
    /\ now < MaxTime
    /\ now' = now + 1
    /\ h' = [i \in Handlers |-> IF h[i] = Idle \/ h[i].old THEN Idle
                                ELSE [h[i] EXCEPT !.old = TRUE]]
    /\ UNCHANGED <<user, queue, worker, issued>>

Handler(i) ==
    \/ RegisterQueue(i) \/ RegisterUndo(i)
    \/ VerifyFind(i) \/ VerifyMark(i)
    \/ ResendFind(i)
    \/ ResetFind(i) \/ ResetWrite(i)
    \/ ChangeFind(i) \/ ChangeWrite(i)
    \/ \E t \in Tokens : ResendRotate(i, t) \/ \E k \in Keys : RegisterInsert(i, t, k)
    \/ Fails(i)

Next ==
    \/ \E i \in Handlers : Handler(i)
    \/ ForgotPassword
    \/ \E w \in Workers : WorkerRecv(w) \/ WorkerWrite(w) \/ WorkerFails(w)
    \/ Cleanup \/ Crash \/ Tick

Spec == Init /\ [][Next]_vars

\* The cleanup task runs every five minutes for as long as some process is up,
\* and its DELETE does not fail for ever.
FairSpec == Spec /\ WF_vars(Cleanup) /\ WF_vars(Tick)

----------------------------------------------------------------------------
(***************************************************************************)
(* A password the user chose later (a reset or a change) is never replaced *)
(* by the bcrypt job of the registration, however late the worker writes:  *)
(* reset_password takes the token away the job looks for.  The exception   *)
(* is a row that a change_password asked for an earlier row with the same  *)
(* key was written into: its hash did not come from its own job, which is  *)
(* still to come.                                                          *)
(***************************************************************************)
ChosenPasswordStands ==
    [][user # None /\ user.hash \in {"reset", "change"} /\ ~user.strayed /\ user' # None
         => user'.hash # "register"]_vars

(***************************************************************************)
(* Nobody is verified without a password to sign in with, whatever order   *)
(* verification, resends, resets, jobs, cleanup and crashes come in:       *)
(* find_with_password and login rely on it.                                *)
(***************************************************************************)
VerifiedHasPassword == user # None /\ user.verified => user.hash # None

(***************************************************************************)
(* An email address never stays taken by an account nobody can use: a row  *)
(* without a hash gets one or is deleted by the cleanup task, although     *)
(* processes die, jobs fail and resends change the token, as long as the   *)
(* task's DELETE succeeds in the end.                                      *)
(***************************************************************************)
EmailIsFreed == (user # None /\ user.hash = None) ~> (user = None \/ user.hash # None)

============================================================================

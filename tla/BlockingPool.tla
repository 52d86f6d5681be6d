--------------------------- MODULE BlockingPool ---------------------------
(***************************************************************************)
(* The three bounded crossbeam channels of a Keycast process and the one   *)
(* pool of blocking threads they share: the relay queue with its workers   *)
(* (signer/src/work_queue.rs), the bcrypt queue with its workers           *)
(* (api/src/bcrypt_queue.rs) and the pool of prepared secrets with its     *)
(* producer (core/src/secret_pool.rs).                                     *)
(*                                                                         *)
(* Every recv, get and blocking send, every bcrypt hash and every piece of *)
(* cryptography is a spawn_blocking task.  Tokio runs a task on one of at  *)
(* most Threads threads and keeps the others in the order they came; a     *)
(* task that waits on a channel keeps its thread.  main sets the number of *)
(* worker threads and leaves this limit at Tokio's default.                *)
(***************************************************************************)
EXTENDS Naturals, FiniteSets, Sequences

CONSTANTS RelayWorkers, BcryptWorkers,
          Callers,    \* HTTP handlers that create an authorization
          Producer,   \* the secret pool's producer task
          Threads,    \* max_blocking_threads
          RelayCap, BcryptCap, PoolCap

ASSUME ConstantsAssumption ==
    /\ IsFiniteSet(RelayWorkers \cup BcryptWorkers \cup Callers)
    /\ Producer \notin RelayWorkers \cup BcryptWorkers \cup Callers
    /\ RelayWorkers \cap BcryptWorkers = {}
    /\ Callers \cap (RelayWorkers \cup BcryptWorkers) = {}
    /\ {Threads, RelayCap, BcryptCap, PoolCap} \subseteq Nat \ {0}

Workers == RelayWorkers \cup BcryptWorkers
Owners == Workers \cup Callers \cup {Producer}

VARIABLES phase,    \* the blocking call each task of the runtime is at
          at,       \* where that call is: not made yet, waiting, on a thread
          waiting,  \* the blocking tasks without a thread
          relayQ, bcryptQ, pool  \* the fill of the channels

vars == <<phase, at, waiting, relayQ, bcryptQ, pool>>

Running == {o \in Owners : at[o] = "running"}

TypeOK ==
    /\ phase \in [Owners -> {"recv", "serve", "hash", "send", "get", "away"}]
    /\ at \in [Owners -> {"ready", "waiting", "running"}]
    /\ waiting \in Seq(Owners)
    /\ relayQ \in 0..RelayCap
    /\ bcryptQ \in 0..BcryptCap
    /\ pool \in 0..PoolCap

Init ==
    /\ phase = [o \in Owners |-> IF o \in Workers THEN "recv"
                                 ELSE IF o = Producer THEN "hash" ELSE "away"]
    /\ at = [o \in Owners |-> "ready"]
    /\ waiting = << >>
    /\ relayQ = 0 /\ bcryptQ = 0 /\ pool = 0

----------------------------------------------------------------------------
(***************************************************************************)
(* Tokio's blocking pool.                                                  *)
(***************************************************************************)
SpawnBlocking(o) ==
    /\ at[o] = "ready" /\ phase[o] # "away"
    /\ at' = [at EXCEPT ![o] = "waiting"]
    /\ waiting' = Append(waiting, o)
    /\ UNCHANGED <<phase, relayQ, bcryptQ, pool>>

StartTask ==
    /\ waiting # << >> /\ Cardinality(Running) < Threads
    /\ at' = [at EXCEPT ![Head(waiting)] = "running"]
    /\ waiting' = Tail(waiting)
    /\ UNCHANGED <<phase, relayQ, bcryptQ, pool>>

\* o's task is on a thread in phase p, and ends; o goes on to phase next.
Return(o, p, next) ==
    /\ at[o] = "running" /\ phase[o] = p
    /\ at' = [at EXCEPT ![o] = "ready"]
    /\ phase' = [phase EXCEPT ![o] = next]
    /\ UNCHANGED waiting

----------------------------------------------------------------------------
(***************************************************************************)
(* The relay queue.                                                        *)
(***************************************************************************)
RelayTrySendUnbounded ==
    /\ relayQ' = relayQ + 1
    /\ UNCHANGED <<phase, at, waiting, bcryptQ, pool>>

\* RelaySender::try_send drops the event when the queue is full.
RelayTrySend ==
    /\ relayQ' = IF relayQ < RelayCap THEN relayQ + 1 ELSE relayQ
    /\ UNCHANGED <<phase, at, waiting, bcryptQ, pool>>

RelayRecv(w) ==
    /\ relayQ > 0
    /\ Return(w, "recv", "serve")
    /\ relayQ' = relayQ - 1
    /\ UNCHANGED <<bcryptQ, pool>>

RelayServeStopsOnError(w) ==
    /\ Return(w, "serve", "recv") \/ Return(w, "serve", "away")
    /\ UNCHANGED <<relayQ, bcryptQ, pool>>

\* An error of handle_nip46_request is logged; the worker goes on.
RelayServe(w) ==
    /\ Return(w, "serve", "recv")
    /\ UNCHANGED <<relayQ, bcryptQ, pool>>

----------------------------------------------------------------------------
(***************************************************************************)
(* The bcrypt queue.                                                       *)
(***************************************************************************)
\* BcryptSender::try_send; when the queue is full the registration is undone.
BcryptTrySend ==
    /\ bcryptQ' = IF bcryptQ < BcryptCap THEN bcryptQ + 1 ELSE bcryptQ
    /\ UNCHANGED <<phase, at, waiting, relayQ, pool>>

BcryptRecv(w) ==
    /\ bcryptQ > 0
    /\ Return(w, "recv", "hash")
    /\ bcryptQ' = bcryptQ - 1
    /\ UNCHANGED <<relayQ, pool>>

\* Hashed or failed, and then written or not: the worker goes on.
BcryptHash(w) ==
    /\ Return(w, "hash", "recv")
    /\ UNCHANGED <<relayQ, bcryptQ, pool>>

----------------------------------------------------------------------------
(***************************************************************************)
(* The secret pool.                                                        *)
(***************************************************************************)
ProducerHashStopsOnError ==
    /\ Return(Producer, "hash", "send") \/ Return(Producer, "hash", "away")
    /\ UNCHANGED <<relayQ, bcryptQ, pool>>

\* A hash that fails is retried after a pause.
ProducerHash ==
    /\ Return(Producer, "hash", "send") \/ Return(Producer, "hash", "hash")
    /\ UNCHANGED <<relayQ, bcryptQ, pool>>

\* The blocking send: backpressure when the pool is full.
ProducerSend ==
    /\ pool < PoolCap
    /\ Return(Producer, "send", "hash")
    /\ pool' = pool + 1
    /\ UNCHANGED <<relayQ, bcryptQ>>

CallGet(c) ==
    /\ phase[c] = "away"
    /\ phase' = [phase EXCEPT ![c] = "get"]
    /\ UNCHANGED <<at, waiting, relayQ, bcryptQ, pool>>

\* SecretPoolReceiver::get
Get(c) ==
    /\ pool > 0
    /\ Return(c, "get", "away")
    /\ pool' = pool - 1
    /\ UNCHANGED <<relayQ, bcryptQ>>

----------------------------------------------------------------------------
Next ==
    \/ RelayTrySend \/ BcryptTrySend \/ StartTask \/ ProducerHash \/ ProducerSend
    \/ \E o \in Owners : SpawnBlocking(o)
    \/ \E w \in RelayWorkers : RelayRecv(w) \/ RelayServe(w)
    \/ \E w \in BcryptWorkers : BcryptRecv(w) \/ BcryptHash(w)
    \/ \E c \in Callers : CallGet(c) \/ Get(c)

Spec == Init /\ [][Next]_vars

(***************************************************************************)
(* Tasks and threads run, a handler that waits for a secret is not passed  *)
(* over for ever, and hashing does not fail for ever.  Nothing is assumed  *)
(* about arrivals.                                                         *)
(***************************************************************************)
FairSpec ==
    /\ Spec
    /\ WF_vars(StartTask) /\ WF_vars(ProducerSend)
    /\ SF_vars(ProducerHash /\ phase'[Producer] = "send")
    /\ \A o \in Owners : WF_vars(SpawnBlocking(o))
    /\ WF_vars(\E w \in RelayWorkers : RelayRecv(w))
    /\ WF_vars(\E w \in BcryptWorkers : BcryptRecv(w))
    /\ \A w \in RelayWorkers : WF_vars(RelayServe(w))
    /\ \A w \in BcryptWorkers : WF_vars(BcryptHash(w))
    /\ \A c \in Callers : SF_vars(Get(c))

(***************************************************************************)
(* The same while events and registrations keep coming.                    *)
(***************************************************************************)
BusySpec == FairSpec /\ WF_vars(RelayTrySend) /\ WF_vars(BcryptTrySend)

----------------------------------------------------------------------------
(***************************************************************************)
(* get "blocks if pool is empty (waits for producer to generate more)":    *)
(* every handler that asks for a secret gets one.  Checked with a thread   *)
(* for every task, and with as many handlers as there are threads.         *)
(***************************************************************************)
GetReturns == \A c \in Callers : phase[c] = "get" ~> phase[c] = "away"

(***************************************************************************)
(* A full relay queue or bcrypt queue gets room again, so that it does not *)
(* drop events or refuse registrations for ever: no worker stops or is     *)
(* kept off its thread for good.                                           *)
(***************************************************************************)
QueuesDrain ==
    /\ relayQ = RelayCap ~> relayQ < RelayCap
    /\ bcryptQ = BcryptCap ~> bcryptQ < BcryptCap

============================================================================

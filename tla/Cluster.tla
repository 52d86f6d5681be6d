------------------------------- MODULE Cluster -------------------------------
(***************************************************************************)
(* cluster-hashring: the membership of the signer instances in Redis       *)
(* (RedisRegistry), each instance's copy of it (the HashRing behind an     *)
(* ArcSwap), and the tasks of ClusterCoordinator that keep the copy up to  *)
(* date: heartbeat and full sync (one task), and the Pub/Sub listener.     *)
(*                                                                         *)
(* Time is abstracted to what the code compares: an entry of the registry  *)
(* is fresh or older than STALE_THRESHOLD_SECS.                            *)
(***************************************************************************)
EXTENDS Integers, FiniteSets, Sequences, SequencesExt

CONSTANTS
    Nodes,      \* instances (processes; the id of one is never used again), integers
    Keys,       \* hashes of bunker pubkeys, naturals
    Ops,        \* the coordinator's operations the application calls
    MaxFaults   \* bound on lost connections, heartbeat outages and forced deregistrations

LibraryOps == {"shutdown", "force_deregister", "refresh"}

ASSUME ConstantsAssumption ==
    /\ Nodes \subseteq Int /\ Keys \subseteq Nat
    /\ Ops \subseteq LibraryOps
    /\ MaxFaults \in Nat

VARIABLES
    st,         \* where each process is in its life
    registry,   \* the sorted set signer_instances
    sub,        \* processes subscribed to the channel
    inbox,      \* messages on the way to each process
    ring,       \* HashRing::current_instances
    prev,       \* previous_members of the heartbeat task
    hb,         \* the heartbeat task
    listener,   \* the Pub/Sub listener task
    lock,       \* what the holder of the mutex around the registry is doing
    hold,       \* the listener's modified clone of the ring, before the store
    faults      \* how many of those there were

vars == <<st, registry, sub, inbox, ring, prev, hb, listener, lock, hold, faults>>

Free == [pc |-> "free", set |-> {}]
Starting == {"registered", "read", "subscribed"}

Init ==
    /\ st = [n \in Nodes |-> "off"]
    /\ registry = [n \in Nodes |-> "absent"]
    /\ sub = {}
    /\ inbox = [n \in Nodes |-> <<>>]
    /\ ring = [n \in Nodes |-> {}]
    /\ prev = [n \in Nodes |-> {}]
    /\ hb = [n \in Nodes |-> "none"]
    /\ listener = [n \in Nodes |-> "none"]
    /\ lock = [n \in Nodes |-> Free]
    /\ hold = [n \in Nodes |-> Free]
    /\ faults = 0

------------------------------------------------------------------------------
(* RedisRegistry and Pub/Sub.                                               *)

ActiveInstancesIgnoresAge == {n \in Nodes : registry[n] # "absent"}

\* get_active_instances: score within the threshold.
ActiveInstances == {n \in Nodes : registry[n] = "fresh"}

\* ZADD with the current time, by register and heartbeat.
ZAdd(reg, n) == [reg EXCEPT ![n] = "fresh"]

\* cleanup_stale.
CleanupStale(reg) == [n \in Nodes |-> IF reg[n] = "stale" THEN "absent" ELSE reg[n]]

\* publish_event reaches whoever is subscribed.
Publish(event, n) ==
    inbox' = [m \in Nodes |-> IF m \in sub
                              THEN Append(inbox[m], [event |-> event, id |-> n])
                              ELSE inbox[m]]

------------------------------------------------------------------------------
(* ClusterCoordinator::start_with_config.                                   *)

Register(n) ==
    /\ st[n] = "off"
    /\ st' = [st EXCEPT ![n] = "registered"]
    /\ registry' = ZAdd(registry, n)
    /\ UNCHANGED <<sub, inbox, ring, prev, hb, listener, lock, hold, faults>>

ReadInitial(n) ==
    /\ st[n] = "registered"
    /\ st' = [st EXCEPT ![n] = "read"]
    /\ ring' = [ring EXCEPT ![n] = ActiveInstances]
    /\ UNCHANGED <<registry, sub, inbox, prev, hb, listener, lock, hold, faults>>

Subscribe(n) ==
    /\ st[n] = "read"
    /\ st' = [st EXCEPT ![n] = "subscribed"]
    /\ sub' = sub \cup {n}
    /\ UNCHANGED <<registry, inbox, ring, prev, hb, listener, lock, hold, faults>>

\* The join event, then the two tasks are spawned.
PublishJoin(n) ==
    /\ st[n] = "subscribed"
    /\ st' = [st EXCEPT ![n] = "on"]
    /\ Publish("join", n)
    /\ hb' = [hb EXCEPT ![n] = "spawned"]
    /\ listener' = [listener EXCEPT ![n] = "loop"]
    /\ UNCHANGED <<registry, sub, ring, prev, lock, hold, faults>>

------------------------------------------------------------------------------
(* spawn_heartbeat_task.                                                    *)

\* The task starts with the ring as it is by then; the listener may have run.
StartHeartbeat(n) ==
    /\ hb[n] = "spawned"
    /\ hb' = [hb EXCEPT ![n] = "loop"]
    /\ prev' = [prev EXCEPT ![n] = ring[n]]
    /\ UNCHANGED <<st, registry, sub, inbox, ring, listener, lock, hold, faults>>

\* The task takes a tick, which select! may do after the cancellation as well,
\* and gets the registry lock.
HeartbeatTask(n) == hb[n] = "loop" /\ lock[n].pc = "free"

\* heartbeat, when Redis takes it: the tick may be from before a cancellation
\* (while it is on its way only the lock is held).  cleanup_stale by chance.  A
\* failed heartbeat changes nothing.
Heartbeat(n) ==
    /\ HeartbeatTask(n)
    /\ \/ registry' = ZAdd(registry, n)
       \/ registry' = CleanupStale(ZAdd(registry, n))
    /\ UNCHANGED <<st, sub, inbox, ring, prev, hb, listener, lock, hold, faults>>

\* Full sync: Redis answers get_active_instances.  (A failed one changes nothing.)
SyncRead(n) ==
    /\ HeartbeatTask(n)
    /\ lock' = [lock EXCEPT ![n] = [pc |-> "sync", set |-> ActiveInstances]]
    /\ UNCHANGED <<st, registry, sub, inbox, ring, prev, hb, listener, hold, faults>>

\* The answer is compared with previous_members, never with the ring; when they
\* differ the ring is rebuilt and stored.
SyncStore(n) ==
    /\ lock[n].pc = "sync"
    /\ lock' = [lock EXCEPT ![n] = Free]
    /\ \/ lock[n].set = prev[n] /\ UNCHANGED <<ring, prev>>
       \/ /\ lock[n].set # prev[n]
          /\ ring' = [ring EXCEPT ![n] = lock[n].set]
          /\ prev' = [prev EXCEPT ![n] = lock[n].set]
    /\ UNCHANGED <<st, registry, sub, inbox, hb, listener, hold, faults>>

\* select! takes the cancelled branch.
HeartbeatEnds(n) ==
    /\ st[n] = "cancelled" /\ HeartbeatTask(n)
    /\ hb' = [hb EXCEPT ![n] = "ended"]
    /\ UNCHANGED <<st, registry, sub, inbox, ring, prev, listener, lock, hold, faults>>

------------------------------------------------------------------------------
(* spawn_pubsub_listener and run_pubsub_loop.                               *)

\* add_instance and remove_instance.
Applied(m, members) ==
    IF m.event = "join" THEN members \cup {m.id} ELSE members \ {m.id}

\* A message is taken, the ring loaded, cloned and modified; own messages are
\* ignored.  On the multi-threaded runtime the other task runs in between.
Listen(n) ==
    LET m == Head(inbox[n])
    IN  /\ listener[n] = "loop" /\ hold[n].pc = "free"
        /\ inbox[n] # <<>>
        /\ inbox' = [inbox EXCEPT ![n] = Tail(@)]
        /\ hold' = [hold EXCEPT ![n] =
                       IF m.id = n THEN Free
                       ELSE [pc |-> "store", set |-> Applied(m, ring[n])]]
        /\ UNCHANGED <<st, registry, sub, ring, prev, hb, listener, lock, faults>>

StoreRing(n) ==
    /\ hold[n].pc = "store"
    /\ ring' = [ring EXCEPT ![n] = hold[n].set]
    /\ hold' = [hold EXCEPT ![n] = Free]
    /\ UNCHANGED <<st, registry, sub, inbox, prev, hb, listener, lock, faults>>

\* The connection drops; what is published until the resubscription is lost.
Disconnect(n) ==
    /\ n \in sub /\ faults < MaxFaults
    /\ sub' = sub \ {n}
    /\ inbox' = [inbox EXCEPT ![n] = <<>>]
    /\ faults' = faults + 1
    /\ UNCHANGED <<st, registry, ring, prev, hb, listener, lock, hold>>

Resubscribe(n) ==
    /\ st[n] = "on" /\ listener[n] = "loop" /\ n \notin sub
    /\ sub' = sub \cup {n}
    /\ UNCHANGED <<st, registry, inbox, ring, prev, hb, listener, lock, hold, faults>>

ListenerEnds(n) ==
    /\ st[n] = "cancelled" /\ listener[n] = "loop" /\ hold[n].pc = "free"
    /\ listener' = [listener EXCEPT ![n] = "ended"]
    /\ sub' = sub \ {n}
    /\ inbox' = [inbox EXCEPT ![n] = <<>>]
    /\ UNCHANGED <<st, registry, ring, prev, hb, lock, hold, faults>>

------------------------------------------------------------------------------
(* Operations of the coordinator's owner.                                   *)

\* shutdown: the token is cancelled and the tasks are awaited.  Then leave is
\* published (a failure to do so is ignored) and the entry removed.
Cancel(n) ==
    /\ "shutdown" \in Ops
    /\ st[n] = "on" /\ lock[n].pc # "refresh"
    /\ st' = [st EXCEPT ![n] = "cancelled"]
    /\ UNCHANGED <<registry, sub, inbox, ring, prev, hb, listener, lock, hold, faults>>

TasksEndedUnawaited(n) == lock[n].pc = "free"

\* Both handles are joined and the registry lock is had.
TasksEnded(n) == hb[n] = "ended" /\ listener[n] = "ended" /\ lock[n].pc = "free"

PublishLeave(n) ==
    /\ st[n] = "cancelled" /\ TasksEnded(n)
    /\ st' = [st EXCEPT ![n] = "published"]
    /\ Publish("leave", n) \/ UNCHANGED inbox
    /\ UNCHANGED <<registry, sub, ring, prev, hb, listener, lock, hold, faults>>

Deregister(n) ==
    /\ st[n] = "published"
    /\ st' = [st EXCEPT ![n] = "left"]
    /\ registry' = [registry EXCEPT ![n] = "absent"]
    /\ UNCHANGED <<sub, inbox, ring, prev, hb, listener, lock, hold, faults>>

\* force_deregister, under the registry lock; the tasks go on.
ForceDeregister(n) ==
    /\ "force_deregister" \in Ops
    /\ st[n] = "on" /\ lock[n].pc = "free" /\ faults < MaxFaults
    /\ Publish("leave", n)
    /\ registry' = [registry EXCEPT ![n] = "absent"]
    /\ faults' = faults + 1
    /\ UNCHANGED <<st, sub, ring, prev, hb, listener, lock, hold>>

\* refresh, under the registry lock: previous_members is not told.
RefreshRead(n) ==
    /\ "refresh" \in Ops
    /\ st[n] = "on" /\ lock[n].pc = "free"
    /\ registry' = CleanupStale(registry)
    /\ lock' = [lock EXCEPT ![n] = [pc |-> "refresh", set |-> ActiveInstances]]
    /\ UNCHANGED <<st, sub, inbox, ring, prev, hb, listener, hold, faults>>

RefreshStore(n) ==
    /\ lock[n].pc = "refresh"
    /\ lock' = [lock EXCEPT ![n] = Free]
    /\ ring' = [ring EXCEPT ![n] = lock[n].set]
    /\ UNCHANGED <<st, registry, sub, inbox, prev, hb, listener, hold, faults>>

\* The process ends: it crashes, or main returns, which drops the coordinator.
\* Neither touches the registry.
Exit(n) ==
    /\ st[n] \in {"on", "cancelled", "published"} \cup Starting
    /\ st' = [st EXCEPT ![n] = "dead"]
    /\ sub' = sub \ {n}
    /\ inbox' = [inbox EXCEPT ![n] = <<>>]
    /\ hb' = [hb EXCEPT ![n] = "ended"]
    /\ listener' = [listener EXCEPT ![n] = "ended"]
    /\ lock' = [lock EXCEPT ![n] = Free]
    /\ hold' = [hold EXCEPT ![n] = Free]
    /\ UNCHANGED <<registry, ring, prev, faults>>

------------------------------------------------------------------------------
(* The passage of the stale threshold without a heartbeat of n: it has      *)
(* stopped, or its heartbeats fail that long.                               *)

Running == {n \in Nodes : st[n] = "on"}

Expire(n) ==
    /\ registry[n] = "fresh" /\ st[n] # "off"
    /\ \/ st[n] = "dead" /\ UNCHANGED faults
       \/ st[n] # "dead" /\ faults < MaxFaults /\ faults' = faults + 1
    /\ registry' = [registry EXCEPT ![n] = "stale"]
    /\ UNCHANGED <<st, sub, inbox, ring, prev, hb, listener, lock, hold>>

\* What follows the registration, one step after the other.
Start(n) == ReadInitial(n) \/ Subscribe(n) \/ PublishJoin(n) \/ StartHeartbeat(n)

Node(n) ==
    \/ Register(n) \/ Start(n)
    \/ Heartbeat(n) \/ SyncRead(n) \/ SyncStore(n) \/ HeartbeatEnds(n)
    \/ Listen(n) \/ StoreRing(n) \/ Disconnect(n) \/ Resubscribe(n) \/ ListenerEnds(n)
    \/ Cancel(n) \/ PublishLeave(n) \/ Deregister(n)
    \/ ForceDeregister(n) \/ RefreshRead(n) \/ RefreshStore(n)
    \/ Exit(n) \/ Expire(n)

\* Everything has stopped.
Finished == (\A n \in Nodes : st[n] \in {"left", "dead"}) /\ UNCHANGED vars

Next == (\E n \in Nodes : Node(n)) \/ Finished

\* The tasks of a running process run, its steps do not hang, heartbeats do not
\* fail for ever, and time passes; the cleanup by chance may never come.  What
\* waits for a mutex or for one branch of select! is enabled again and again,
\* hence the strong fairness.
Fairness ==
    \A n \in Nodes :
        /\ WF_vars(Start(n))
        /\ SF_vars(Heartbeat(n) /\ registry' = ZAdd(registry, n)) /\ SF_vars(SyncRead(n))
        /\ WF_vars(SyncStore(n) \/ RefreshStore(n))
        /\ WF_vars(Listen(n) \/ StoreRing(n)) /\ WF_vars(Resubscribe(n))
        /\ SF_vars(HeartbeatEnds(n)) /\ SF_vars(ListenerEnds(n))
        /\ WF_vars(PublishLeave(n) \/ Deregister(n))
        /\ WF_vars(st[n] = "dead" /\ Expire(n))

Spec == Init /\ [][Next]_vars

FairSpec == Spec /\ Fairness

------------------------------------------------------------------------------
(* HashRing.                                                                *)

\* AnchorHash over a list of resources: some fixed function of list and key.
AnchorPick(resources, k) == resources[(k % Len(resources)) + 1]

\* rebuild_anchor sorts the ids, so that equal sets give equal rings.
RebuildAnchor(n) == SetToSortSeq(ring[n], <)

ShouldHandle(n, k) == ring[n] = {} \/ AnchorPick(RebuildAnchor(n), k) = n

------------------------------------------------------------------------------
(* Properties.                                                              *)

OneOwner ==
    Running # {} => \A k \in Keys : Cardinality({n \in Running : ShouldHandle(n, k)}) = 1

\* Once instances stop coming, going and failing, every bunker key is handled
\* by exactly one running instance, whatever was lost, late or interleaved
\* before, unless the ring of a running instance has parted from
\* previous_members: the full sync as backup repairs what it can see, and the
\* sorted rings of instances that agree on the members agree on the owners.
SyncedRingsAgree == <>[](OneOwner \/ \E n \in Running : ring[n] # prev[n])

\* "Real-time membership detection via Redis Pub/Sub with periodic full sync as
\* backup" (coordinator.rs:31): in the end every bunker key is handled by
\* exactly one running instance, without that exception.
EventuallyOneOwner == <>[]OneOwner

\* An instance that has shut down is out of the registry and stays out: a
\* heartbeat in flight at the cancellation, or one select! takes after it,
\* cannot register the instance again.
ShutdownIsFinal == \A n \in Nodes : st[n] = "left" => registry[n] = "absent"

==============================================================================

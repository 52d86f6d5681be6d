---------------------------- MODULE Nip46Signer ----------------------------
(***************************************************************************)
(* The signer daemon of one Keycast process: it serves NIP-46 requests     *)
(* from a handler cache that is filled on demand from two tables of        *)
(* authorizations, while the HTTP API creates, revokes, deletes and        *)
(* disconnects those authorizations and tells the daemon through a         *)
(* bounded channel (signer/src/signer_daemon.rs).                          *)
(*                                                                         *)
(* An authorization is named by its bunker public key.  The rows outlive   *)
(* the process; the cache, the channel and the requests do not.  An API    *)
(* call served by another process changes the row and sends this daemon    *)
(* nothing.  A request stands for one event that passed the hash ring      *)
(* check and was accepted by the relay queue; decryption, encryption and   *)
(* the reply change no state and are left out.                             *)
(***************************************************************************)
EXTENDS Naturals, Sequences

CONSTANTS Bunkers,      \* bunker public keys
          Clients,      \* NIP-46 client public keys
          Requests,     \* the requests being served at one time
          ChannelSize,  \* CHANNEL_BUFFER_SIZE
          None

ASSUME ConstantsAssumption ==
    /\ None \notin Clients
    /\ None \notin Bunkers
    /\ ChannelSize \in Nat \ {0}

VARIABLES OAuth,     \* the keys with a row in oauth_authorizations; never changes
          row,       \* the authorization rows
          cache,     \* the daemon's handlers, by bunker key
          sending,   \* commands an API handler is about to send
          channel,   \* the authorization channel
          listener,  \* the command listener, between two of its awaits
          req,       \* the requests being served
          removal    \* ghost: keys whose Remove command the listener finished

vars == <<OAuth, row, cache, sending, channel, listener, req, removal>>

Statuses == {"Active", "Revoked", "Expired"}
Commands == [cmd : {"Upsert", "Remove"}, bunker : Bunkers]

(***************************************************************************)
(* What was already true when a request to use the key arrived:            *)
(*   "ended"    its authorization was revoked, expired or deleted;         *)
(*   "deleted"  its authorization was deleted;                             *)
(*   "foreign"  another client was stored, and no store was in flight;     *)
(***************************************************************************)
Marks == {"ended", "deleted", "foreign"}

Idle == [pc |-> "idle"]

Serving == [pc : {"read", "insert", "select", "cstore", "exists", "vselect",
                  "vstore", "perm", "use"},
            bunker : Bunkers, client : Clients, method : {"connect", "use"},
            status : Statuses, marks : SUBSET Marks]

TypeOK ==
    /\ OAuth \subseteq Bunkers
    /\ row \in [Bunkers -> [state : {"new", "active", "revoked", "deleted"},
                            expired : BOOLEAN, client : Clients \cup {None}]]
    /\ cache \in [Bunkers -> Statuses \cup {None}]
    /\ sending \subseteq Commands
    /\ channel \in Seq(Commands) /\ Len(channel) <= ChannelSize
    /\ listener \in [pc : {"recv"}] \cup
                    [pc : {"mark", "insert"}, bunker : Bunkers]
    /\ req \in [Requests -> {Idle} \cup Serving]
    /\ removal \in [Bunkers -> {"none", "done", "straddled"}]

\* Every other key has its row in authorizations, the table of the teams.
Init ==
    /\ OAuth \in SUBSET Bunkers
    /\ row = [b \in Bunkers |->
                [state |-> "new", expired |-> FALSE, client |-> None]]
    /\ cache = [b \in Bunkers |-> None]
    /\ sending = {}
    /\ channel = << >>
    /\ listener = [pc |-> "recv"]
    /\ req = [r \in Requests |-> Idle]
    /\ removal = [b \in Bunkers |-> "none"]

(***************************************************************************)
(* The conditions the queries put on a row.                                *)
(***************************************************************************)
Exists(b) == row[b].state \in {"active", "revoked"}
Live(b) == row[b].state = "active" /\ ~row[b].expired

\* process_connect and validate_and_store_client filter team rows by expiry only.
Selected(b) == Exists(b) /\ ~row[b].expired /\ (b \in OAuth => Live(b))

----------------------------------------------------------------------------
(***************************************************************************)
(* The API side: a row changes, then the handler sends its command, unless *)
(* another process serves the call.                                        *)
(***************************************************************************)
Command(c, b) == [cmd |-> c, bunker |-> b]

Notify(c, b) == \E here \in BOOLEAN :
    sending' = IF here THEN sending \cup {Command(c, b)} ELSE sending

CreateAuthorization(b) ==
    /\ row[b].state = "new"
    /\ row' = [row EXCEPT ![b].state = "active"]
    /\ Notify("Upsert", b)
    /\ UNCHANGED <<cache, channel, listener, req, removal>>

RevokeAuthorization(b) ==
    /\ row[b].state = "active"
    /\ row' = [row EXCEPT ![b].state = "revoked"]
    /\ Notify("Remove", b)
    /\ UNCHANGED <<cache, channel, listener, req, removal>>

\* Deleting an account (by its user, an app or an admin) names its bunkers to the
\* daemon; change_key names the user's old key, which is no bunker's and so
\* removes nothing; deleting a stored key or a team deletes team rows and sends
\* nothing.
DeleteAuthorization(b) ==
    /\ Exists(b)
    /\ row' = [row EXCEPT ![b].state = "deleted"]
    /\ IF b \in OAuth THEN Notify("Remove", b) ELSE UNCHANGED sending
    /\ UNCHANGED <<cache, channel, listener, req, removal>>

Expire(b) ==
    /\ Exists(b) /\ ~row[b].expired
    /\ row' = [row EXCEPT ![b].expired = TRUE]
    /\ UNCHANGED <<cache, sending, channel, listener, req, removal>>

Unmark(b, m) == [r \in Requests |->
    IF req[r] # Idle /\ req[r].bunker = b
      THEN [req[r] EXCEPT !.marks = req[r].marks \ {m}] ELSE req[r]]

\* Clears the client of an unrevoked OAuth row; whoever comes next may be stored.
DisconnectClient(b) ==
    /\ b \in OAuth /\ row[b].state = "active"
    /\ row' = [row EXCEPT ![b].client = None]
    /\ req' = Unmark(b, "foreign")
    /\ UNCHANGED <<cache, sending, channel, listener, removal>>

SendUnbounded(c) ==
    /\ c \in sending
    /\ sending' = sending \ {c}
    /\ channel' = Append(channel, c)
    /\ UNCHANGED <<row, cache, listener, req, removal>>

\* tx.send(..).await waits while the channel is full.
Send(c) ==
    /\ c \in sending /\ Len(channel) < ChannelSize
    /\ sending' = sending \ {c}
    /\ channel' = Append(channel, c)
    /\ UNCHANGED <<row, cache, listener, req, removal>>

----------------------------------------------------------------------------
(***************************************************************************)
(* The command listener: one command at a time, in order.                  *)
(***************************************************************************)
Receive(c) ==
    /\ listener.pc = "recv" /\ channel # << >>
    /\ Head(channel).cmd = c
    /\ channel' = Tail(channel)

\* load_single_authorization reads the row, then loads and decrypts the key.
LoadedByUpsert(b) == IF b \in OAuth THEN Live(b) ELSE row[b].state = "active"

LoadedByUpsertUnfiltered(b) == Exists(b)

ListenUpsertUnfiltered ==
    /\ Receive("Upsert")
    /\ LET b == Head(channel).bunker IN
       listener' = IF LoadedByUpsertUnfiltered(b)
                     THEN [pc |-> "insert", bunker |-> b] ELSE listener
    /\ UNCHANGED <<row, cache, sending, req, removal>>

ListenUpsert ==
    /\ Receive("Upsert")
    /\ LET b == Head(channel).bunker IN
       listener' = IF LoadedByUpsert(b)
                     THEN [pc |-> "insert", bunker |-> b] ELSE listener
    /\ UNCHANGED <<row, cache, sending, req, removal>>

ListenInsert ==
    /\ listener.pc = "insert"
    /\ cache' = [cache EXCEPT ![listener.bunker] = "Active"]
    /\ listener' = [pc |-> "recv"]
    /\ UNCHANGED <<row, sending, channel, req, removal>>

\* The key row is gone or its decryption fails: logged, nothing is cached.
ListenFails ==
    /\ listener.pc = "insert"
    /\ listener' = [pc |-> "recv"]
    /\ UNCHANGED <<row, cache, sending, channel, req, removal>>

(***************************************************************************)
(* A Remove is finished when the cached handler is marked or none was      *)
(* found.  "straddled" notes that a request had read the row while it was  *)
(* active and has not inserted its handler yet.                            *)
(***************************************************************************)
Finished(b) ==
    [removal EXCEPT ![b] =
        IF \E r \in Requests : /\ req[r].pc = "insert" /\ req[r].bunker = b
                               /\ req[r].status = "Active"
          THEN "straddled" ELSE "done"]

ListenRemove ==
    /\ Receive("Remove")
    /\ LET b == Head(channel).bunker IN
       IF cache[b] # None
         THEN listener' = [pc |-> "mark", bunker |-> b] /\ UNCHANGED removal
         ELSE removal' = Finished(b) /\ UNCHANGED listener
    /\ UNCHANGED <<row, cache, sending, req>>

ListenMark ==
    /\ listener.pc = "mark"
    /\ cache' = [cache EXCEPT ![listener.bunker] = "Revoked"]
    /\ removal' = Finished(listener.bunker)
    /\ listener' = [pc |-> "recv"]
    /\ UNCHANGED <<row, sending, channel, req>>

----------------------------------------------------------------------------
(***************************************************************************)
(* A request.  The handler a request holds is a copy: what happens to the  *)
(* cache or the row afterwards does not reach it.                          *)
(***************************************************************************)
AtStep(r, pc) == req[r].pc = pc

Goto(r, pc) == req' = [req EXCEPT ![r] = [req[r] EXCEPT !.pc = pc]]

Reply(r) == req' = [req EXCEPT ![r] = Idle]

\* A tombstone gets an error reply; OAuth clients are validated, team clients not.
Dispatch(b, method, status) ==
    CASE status # "Active" -> "idle"
      [] status = "Active" /\ method = "connect" -> "select"
      [] status = "Active" /\ method = "use" ->
           IF b \in OAuth THEN "exists" ELSE "perm"

Continue(r, b, c, m, status, marks) ==
    LET pc == Dispatch(b, m, status) IN
    req' = [req EXCEPT ![r] =
              IF pc = "idle" THEN Idle
              ELSE [pc |-> pc, bunker |-> b, client |-> c, method |-> m,
                    status |-> status, marks |-> marks]]

StoreInFlight(b) == \E r \in Requests :
    req[r].pc \in {"cstore", "vstore"} /\ req[r].bunker = b

MarksAtArrival(b, c, method) == IF method = "connect" THEN {} ELSE
    {m \in Marks : \/ m = "ended" /\ row[b].state # "new" /\ ~Live(b)
                   \/ m = "deleted" /\ row[b].state = "deleted"
                   \/ /\ m = "foreign" /\ row[b].client \notin {c, None}
                      /\ ~StoreInFlight(b)}

\* handlers.get(bunker_pubkey): a hit is used as it is.
Arrive(r, b, c, m) ==
    /\ AtStep(r, "idle")
    /\ IF cache[b] # None
         THEN Continue(r, b, c, m, cache[b], MarksAtArrival(b, c, m))
         ELSE req' = [req EXCEPT ![r] =
                        [pc |-> "read", bunker |-> b, client |-> c, method |-> m,
                         status |-> "Active", marks |-> MarksAtArrival(b, c, m)]]
    /\ UNCHANGED <<row, cache, sending, channel, listener, removal>>

\* compute_status_from_oauth; the team query reads the expiry only.
ComputeStatus(b) ==
    IF b \in OAuth /\ row[b].state = "revoked" THEN "Revoked"
    ELSE IF row[b].expired THEN "Expired" ELSE "Active"

ReadRow(r) ==
    /\ AtStep(r, "read")
    /\ IF Exists(req[r].bunker)
         THEN req' = [req EXCEPT ![r] =
                [pc |-> "insert", bunker |-> req[r].bunker, client |-> req[r].client,
                 method |-> req[r].method, status |-> ComputeStatus(req[r].bunker),
                 marks |-> req[r].marks]]
         ELSE Reply(r)
    /\ UNCHANGED <<row, cache, sending, channel, listener, removal>>

\* The key was read and decrypted meanwhile.
InsertHandler(r) ==
    /\ AtStep(r, "insert")
    /\ cache' = [cache EXCEPT ![req[r].bunker] = req[r].status]
    /\ Continue(r, req[r].bunker, req[r].client, req[r].method, req[r].status,
                req[r].marks)
    /\ UNCHANGED <<row, sending, channel, listener, removal>>

\* Any await of a request may fail: the request ends with an error.
RequestFails(r) ==
    /\ ~AtStep(r, "idle")
    /\ Reply(r)
    /\ UNCHANGED <<row, cache, sending, channel, listener, removal>>

\* process_connect with the right secret: the client the row names gets an ack,
\* any other an error, and without one this client is stored.
ConnectSelect(r) ==
    /\ AtStep(r, "select")
    /\ LET b == req[r].bunker
           existing == IF Selected(b) THEN row[b].client ELSE None
       IN IF existing = None THEN Goto(r, "cstore") ELSE Reply(r)
    /\ UNCHANGED <<row, cache, sending, channel, listener, removal>>

\* UPDATE .. WHERE id = $2, whatever the row holds by now.
StoreClient(b, c) ==
    row' = IF Exists(b) THEN [row EXCEPT ![b].client = c] ELSE row

ConnectStore(r) ==
    /\ AtStep(r, "cstore")
    /\ StoreClient(req[r].bunker, req[r].client)
    /\ Reply(r)
    /\ UNCHANGED <<cache, sending, channel, listener, removal>>

\* validate_and_store_client: is this the client of the active row?
ValidateExistsUnfiltered(r) ==
    /\ AtStep(r, "exists")
    /\ Goto(r, IF Exists(req[r].bunker) /\ row[req[r].bunker].client = req[r].client
                 THEN "perm" ELSE "vselect")
    /\ UNCHANGED <<row, cache, sending, channel, listener, removal>>

ValidateExists(r) ==
    /\ AtStep(r, "exists")
    /\ Goto(r, IF Live(req[r].bunker) /\ row[req[r].bunker].client = req[r].client
                 THEN "perm" ELSE "vselect")
    /\ UNCHANGED <<row, cache, sending, channel, listener, removal>>

ValidateSelectConnected(r) ==
    /\ AtStep(r, "vselect")
    /\ IF Live(req[r].bunker) THEN Goto(r, "vstore") ELSE Reply(r)
    /\ UNCHANGED <<row, cache, sending, channel, listener, removal>>

\* If not, is there an active row without a client?
ValidateSelect(r) ==
    /\ AtStep(r, "vselect")
    /\ IF Live(req[r].bunker) /\ row[req[r].bunker].client = None
         THEN Goto(r, "vstore") ELSE Reply(r)
    /\ UNCHANGED <<row, cache, sending, channel, listener, removal>>

ValidateStore(r) ==
    /\ AtStep(r, "vstore")
    /\ StoreClient(req[r].bunker, req[r].client)
    /\ Goto(r, "perm")
    /\ UNCHANGED <<cache, sending, channel, listener, removal>>

LoadPermissionsUnchecked(r) ==
    /\ AtStep(r, "perm")
    /\ Goto(r, "use")
    /\ UNCHANGED <<row, cache, sending, channel, listener, removal>>

\* load_permissions finds the row by id, revoked or not; a policy may refuse,
\* as RequestFails does.
LoadPermissions(r) ==
    /\ AtStep(r, "perm")
    /\ IF Exists(req[r].bunker) THEN Goto(r, "use") ELSE Reply(r)
    /\ UNCHANGED <<row, cache, sending, channel, listener, removal>>

\* Sign, encrypt or decrypt with the user's key, and reply.
UseKey(r) ==
    /\ AtStep(r, "use")
    /\ Reply(r)
    /\ UNCHANGED <<row, cache, sending, channel, listener, removal>>

----------------------------------------------------------------------------
\* moka drops an entry when the cache is full.
Evict(b) ==
    /\ cache[b] # None
    /\ cache' = [cache EXCEPT ![b] = None]
    /\ UNCHANGED <<row, sending, channel, listener, req, removal>>

\* The hourly task drops tombstones older than a day.
CleanupTombstone(b) ==
    /\ cache[b] \in {"Revoked", "Expired"}
    /\ cache' = [cache EXCEPT ![b] = None]
    /\ UNCHANGED <<row, sending, channel, listener, req, removal>>

\* The process dies and comes back with an empty cache.
Restart ==
    /\ cache' = [b \in Bunkers |-> None]
    /\ sending' = {}
    /\ channel' = << >>
    /\ listener' = [pc |-> "recv"]
    /\ req' = [r \in Requests |-> Idle]
    /\ UNCHANGED <<row, removal>>

Request(r) ==
    \/ \E b \in Bunkers, c \in Clients, m \in {"connect", "use"} : Arrive(r, b, c, m)
    \/ ReadRow(r) \/ InsertHandler(r) \/ RequestFails(r)
    \/ ConnectSelect(r) \/ ConnectStore(r)
    \/ ValidateExists(r) \/ ValidateSelect(r) \/ ValidateStore(r)
    \/ LoadPermissions(r) \/ UseKey(r)

Api ==
    \/ \E b \in Bunkers : \/ CreateAuthorization(b) \/ RevokeAuthorization(b)
                          \/ DeleteAuthorization(b) \/ Expire(b)
                          \/ DisconnectClient(b)
    \/ \E c \in sending : Send(c)

Daemon ==
    \/ ListenUpsert \/ ListenInsert \/ ListenFails \/ ListenRemove \/ ListenMark
    \/ \E b \in Bunkers : Evict(b) \/ CleanupTombstone(b)
    \/ Restart

Next == (Api \/ Daemon \/ \E r \in Requests : Request(r)) /\ UNCHANGED OAuth

Spec == Init /\ [][Next]_vars

----------------------------------------------------------------------------
(***************************************************************************)
(* No request that arrived after its OAuth authorization was revoked,      *)
(* expired or deleted comes to use the user's key, however stale the       *)
(* cached handler is: validate_and_store_client asks the database again.   *)
(***************************************************************************)
NoLateUse == \A r \in Requests :
    AtStep(r, "use") /\ req[r].bunker \in OAuth => "ended" \notin req[r].marks

(***************************************************************************)
(* No request that arrived after its row was deleted, OAuth or team, comes *)
(* to use the key, although nothing tells the daemon to drop the cached    *)
(* handler of a team row: the policy is loaded through the row.            *)
(***************************************************************************)
NoUseAfterDeletion == \A r \in Requests :
    AtStep(r, "use") => "deleted" \notin req[r].marks

(***************************************************************************)
(* Once a client is stored and no other store is in flight, a request of   *)
(* another client that arrives later never uses the OAuth authorization's  *)
(* key, unless the owner disconnects the client meanwhile.                 *)
(***************************************************************************)
NoForeignUse == \A r \in Requests :
    AtStep(r, "use") /\ req[r].bunker \in OAuth => "foreign" \notin req[r].marks

(***************************************************************************)
(* Once the listener has finished a Remove command, the OAuth handler is   *)
(* not served as Active again: neither a late Upsert nor a load from the   *)
(* database brings it back, except a load that had already read the row.   *)
(***************************************************************************)
RemovedStaysRemoved == \A b \in OAuth : removal[b] = "done" => cache[b] # "Active"

(***************************************************************************)
(* "If not in cache, next request will load from DB as revoked": a request *)
(* that misses the cache after a Remove command was finished without a     *)
(* straddling load does not get an Active handler.                         *)
(***************************************************************************)
MissLoadsAsRevoked == \A r \in Requests :
    AtStep(r, "insert") /\ removal[req[r].bunker] = "done"
      => req[r].status # "Active"

============================================================================

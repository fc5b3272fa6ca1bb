------------------------- MODULE ControllerRegistry -------------------------
(***************************************************************************)
(* The daemon's registry of controller leases and pending control          *)
(* transfers (struct ControllerState, crates/splinterd/src/main.rs).       *)
(*                                                                         *)
(* The struct is one record, reached only under the `controller` lock, so  *)
(* every method is one step.  The methods are operators from a registry to *)
(* a registry, because callers chain several of them under one lock.       *)
(*                                                                         *)
(* A HashMap index that points to a lease or transfer ID is a total        *)
(* function whose value NoId stands for "no entry": IDs start at 1.        *)
(* Calls that return an error change nothing and are left out, except the  *)
(* one that does change the registry (decide_transfer on exhausted IDs).   *)
(***************************************************************************)
EXTENDS Naturals, Functions

CONSTANTS
  Connection,   \* daemon-wide connection IDs
  Splint,       \* Splint IDs
  Incarnation,  \* process incarnations
  Grant,        \* runtime grant IDs
  NoGrant,      \* grant_id = None: policy or first-party authority
  MaxId         \* stands for u64::MAX, the last value of both ID counters

ASSUME MaxIdAssumption == MaxId \in Nat \ {0}

NoId == 0
Ids == 1 .. MaxId
GrantId == Grant \cup {NoGrant}

ControllerLease ==
  [id : Ids, connection_id : Connection, splint_id : Splint,
   incarnation : Incarnation, grant_id : GrantId]

PendingControlTransfer ==
  [id : Ids, owner_connection_id : Connection,
   requester_connection_id : Connection, splint_id : Splint,
   incarnation : Incarnation, grant_id : GrantId]

Default ==
  [next_id |-> 1, next_transfer_id |-> 1,
   by_id |-> [i \in {} |-> i],
   by_splint |-> [s \in Splint |-> NoId],
   by_connection |-> [k \in Connection |-> NoId],
   transfers |-> [i \in {} |-> i],
   transfer_by_splint |-> [s \in Splint |-> NoId]]

-----------------------------------------------------------------------------
(* Leases *)

\* A HashMap insert.
Insert(map, key, value) ==
  [x \in DOMAIN map \cup {key} |-> IF x = key THEN value ELSE map[x]]

\* checked_add: the counter's last value is never handed out.
IdsLeft(counter) == counter < MaxId

CanAcquire(c, k, s) ==
  /\ c.by_connection[k] = NoId
  /\ c.by_splint[s] = NoId
  /\ IdsLeft(c.next_id)

\* Mutant: a new lease takes the lowest ID that is free.
AcquireFreeId(c, k, s, inc, g) ==
  LET id == CHOOSE i \in Ids \ DOMAIN c.by_id :
              \A j \in Ids \ DOMAIN c.by_id : i <= j
  IN [c EXCEPT
        !.by_id = Insert(@, id,
                    [id |-> id, connection_id |-> k, splint_id |-> s,
                     incarnation |-> inc, grant_id |-> g]),
        !.by_splint[s] = id,
        !.by_connection[k] = id]

Acquire(c, k, s, inc, g) ==
  [c EXCEPT
     !.next_id = @ + 1,
     !.by_id = Insert(@, c.next_id,
                 [id |-> c.next_id, connection_id |-> k, splint_id |-> s,
                  incarnation |-> inc, grant_id |-> g]),
     !.by_splint = [@ EXCEPT ![s] = c.next_id],
     !.by_connection = [@ EXCEPT ![k] = c.next_id]]

\* Mutant: the connection index keeps pointing to the released lease.
ReleaseForgetsConnection(c, ids) ==
  LET gone == ids \cap DOMAIN c.by_id IN
  [c EXCEPT
     !.by_id = Restrict(@, DOMAIN @ \ gone),
     !.by_splint = [s \in Splint |->
        IF \E i \in gone : c.by_id[i].splint_id = s THEN NoId ELSE @[s]]]

\* `release` for every ID in ids; an ID that names no lease is ignored.
Release(c, ids) ==
  LET gone == ids \cap DOMAIN c.by_id IN
  [c EXCEPT
     !.by_id = Restrict(@, DOMAIN @ \ gone),
     !.by_splint = [s \in Splint |->
        IF \E i \in gone : c.by_id[i].splint_id = s THEN NoId ELSE @[s]],
     !.by_connection = [k \in Connection |->
        IF \E i \in gone : c.by_id[i].connection_id = k THEN NoId ELSE @[k]]]

ReleaseConnection(c, k) == Release(c, {c.by_connection[k]})

\* The lease of a Splint, if it is for this incarnation.
LeasesOf(c, s, inc) ==
  {i \in {c.by_splint[s]} : i # NoId /\ c.by_id[i].incarnation = inc}

ReleaseIdentity(c, s, inc) == Release(c, LeasesOf(c, s, inc))

-----------------------------------------------------------------------------
(* Transfers *)

CanRequest(c, k, s, inc) ==
  /\ c.by_connection[k] = NoId
  /\ c.transfer_by_splint[s] = NoId
  /\ LeasesOf(c, s, inc) # {}
  /\ IdsLeft(c.next_transfer_id)

RequestTransfer(c, k, s, inc, g) ==
  [c EXCEPT
     !.next_transfer_id = @ + 1,
     !.transfers = Insert(@, c.next_transfer_id,
         [id |-> c.next_transfer_id,
          owner_connection_id |-> c.by_id[c.by_splint[s]].connection_id,
          requester_connection_id |-> k, splint_id |-> s,
          incarnation |-> inc, grant_id |-> g]),
     !.transfer_by_splint = [@ EXCEPT ![s] = c.next_transfer_id]]

\* `expire_transfer` for every ID in ids.
Expire(c, ids) ==
  LET gone == ids \cap DOMAIN c.transfers IN
  [c EXCEPT
     !.transfers = Restrict(@, DOMAIN @ \ gone),
     !.transfer_by_splint = [s \in Splint |->
        IF \E i \in gone : c.transfers[i].splint_id = s THEN NoId ELSE @[s]]]

\* Mutant: anybody's lease on the Splint will do.
StillValidAnyOwner(c, t) ==
  /\ LeasesOf(c, t.splint_id, t.incarnation) # {}
  /\ c.by_connection[t.requester_connection_id] = NoId

\* Whether the owner that a transfer names still holds the same incarnation
\* and the requester may still take a lease.
StillValid(c, t) ==
  /\ \E i \in LeasesOf(c, t.splint_id, t.incarnation) :
        c.by_id[i].connection_id = t.owner_connection_id
  /\ c.by_connection[t.requester_connection_id] = NoId

\* Only the owner decides, and a decided transfer is gone whatever comes of it.
CanDecide(c, k, tid) ==
  tid \in DOMAIN c.transfers /\ c.transfers[tid].owner_connection_id = k

DecideTransfer(c, tid, allow) ==
  LET t == c.transfers[tid]
      taken == Expire(c, {tid})
      freed == Release(taken, {taken.by_splint[t.splint_id]})
  IN IF allow /\ StillValid(taken, t) /\ IdsLeft(c.next_id)
     THEN Acquire(freed, t.requester_connection_id, t.splint_id,
                  t.incarnation, t.grant_id)
     ELSE taken

CanForce(c, k, s, inc) ==
  /\ c.by_connection[k] = NoId
  /\ LeasesOf(c, s, inc) # {}
  /\ IdsLeft(c.next_id)

ForceTransfer(c, k, s, inc, g) ==
  Acquire(Release(c, {c.by_splint[s]}), k, s, inc, g)

TransfersOf(c, connections) ==
  {i \in DOMAIN c.transfers :
     \/ c.transfers[i].owner_connection_id \in connections
     \/ c.transfers[i].requester_connection_id \in connections}

\* Mutant: only the requests made to the connection are cancelled.
CancelOwnedTransfers(c, k) ==
  Expire(c, {i \in DOMAIN c.transfers :
               c.transfers[i].owner_connection_id = k})

CancelConnectionTransfers(c, k) == Expire(c, TransfersOf(c, {k}))

CancelIdentityTransfer(c, s, inc) ==
  Expire(c, {i \in {c.transfer_by_splint[s]} :
               i # NoId /\ c.transfers[i].incarnation = inc})

-----------------------------------------------------------------------------
(* Revocations that cover several leases at once *)

ReleaseGrant(c, g) ==
  Expire(Release(c, {i \in DOMAIN c.by_id : c.by_id[i].grant_id = g}),
         {i \in DOMAIN c.transfers : c.transfers[i].grant_id = g})

ReleaseConnections(c, connections) ==
  Expire(Release(c, {i \in DOMAIN c.by_id :
                       c.by_id[i].connection_id \in connections}),
         TransfersOf(c, connections))

-----------------------------------------------------------------------------
(* What makes a registry value well formed. *)

WellTyped(c) ==
  /\ DOMAIN c = {"next_id", "next_transfer_id", "by_id", "by_splint",
                 "by_connection", "transfers", "transfer_by_splint"}
  /\ c.next_id \in Ids
  /\ c.next_transfer_id \in Ids
  /\ DOMAIN c.by_id \subseteq Ids
  /\ c.by_id \in [DOMAIN c.by_id -> ControllerLease]
  /\ c.by_splint \in [Splint -> Ids \cup {NoId}]
  /\ c.by_connection \in [Connection -> Ids \cup {NoId}]
  /\ DOMAIN c.transfers \subseteq Ids
  /\ c.transfers \in [DOMAIN c.transfers -> PendingControlTransfer]
  /\ c.transfer_by_splint \in [Splint -> Ids \cup {NoId}]

LeaseIndexes(c) ==
  /\ \A i \in DOMAIN c.by_id :
        /\ c.by_id[i].id = i
        /\ c.by_splint[c.by_id[i].splint_id] = i
        /\ c.by_connection[c.by_id[i].connection_id] = i
  /\ \A s \in Splint : c.by_splint[s] # NoId =>
        /\ c.by_splint[s] \in DOMAIN c.by_id
        /\ c.by_id[c.by_splint[s]].splint_id = s
  /\ \A k \in Connection : c.by_connection[k] # NoId =>
        /\ c.by_connection[k] \in DOMAIN c.by_id
        /\ c.by_id[c.by_connection[k]].connection_id = k

TransferIndexes(c) ==
  /\ \A i \in DOMAIN c.transfers :
        /\ c.transfers[i].id = i
        /\ c.transfer_by_splint[c.transfers[i].splint_id] = i
        /\ c.transfers[i].owner_connection_id
             # c.transfers[i].requester_connection_id
  /\ \A s \in Splint : c.transfer_by_splint[s] # NoId =>
        /\ c.transfer_by_splint[s] \in DOMAIN c.transfers
        /\ c.transfers[c.transfer_by_splint[s]].splint_id = s

CountersAhead(c) ==
  /\ \A i \in DOMAIN c.by_id : i < c.next_id
  /\ \A i \in DOMAIN c.transfers : i < c.next_transfer_id

=============================================================================

--------------------------- MODULE ControllerState ---------------------------
(***************************************************************************)
(* The controller registry on its own: requests, timers, disconnects and   *)
(* revocations arrive in any order, each one step under the controller     *)
(* lock (crates/splinterd/src/main.rs).                                    *)
(***************************************************************************)
EXTENDS ControllerRegistry

VARIABLE controllers

Init == controllers = Default

AcquireControl(k, s, inc, g) ==
  /\ CanAcquire(controllers, k, s)
  /\ controllers' = Acquire(controllers, k, s, inc, g)

\* release_owned: a connection gives up its own lease.
ReleaseControl(k) ==
  /\ controllers.by_connection[k] # NoId
  /\ controllers' = ReleaseConnection(controllers, k)

RequestControlTransfer(k, s, inc, g) ==
  /\ CanRequest(controllers, k, s, inc)
  /\ controllers' = RequestTransfer(controllers, k, s, inc, g)

DecideControlTransfer(k, tid, allow) ==
  /\ CanDecide(controllers, k, tid)
  /\ controllers' = DecideTransfer(controllers, tid, allow)

ForceControlTransfer(k, s, inc, g) ==
  /\ CanForce(controllers, k, s, inc)
  /\ controllers' = ForceTransfer(controllers, k, s, inc, g)

\* The 15-second timer of schedule_transfer_timeout.
TransferTimeout(tid) ==
  /\ tid \in DOMAIN controllers.transfers
  /\ controllers' = Expire(controllers, {tid})

\* cleanup_connection: both calls under one lock.
CleanupConnection(k) ==
  controllers' =
    CancelConnectionTransfers(ReleaseConnection(controllers, k), k)

RevokeGrantControllers(g) == controllers' = ReleaseGrant(controllers, g)

PolicyReload(connections) ==
  controllers' = ReleaseConnections(controllers, connections)

\* The process behind an incarnation ended (exit, kill, relaunch).
EndIdentity(s, inc) == controllers' = ReleaseIdentity(controllers, s, inc)

\* The Splint itself went away: its transfer is cancelled as well.
RetireIdentity(s, inc) ==
  controllers' =
    CancelIdentityTransfer(ReleaseIdentity(controllers, s, inc), s, inc)

Next ==
  \/ \E k \in Connection, s \in Splint, inc \in Incarnation, g \in GrantId :
       \/ AcquireControl(k, s, inc, g)
       \/ RequestControlTransfer(k, s, inc, g)
       \/ ForceControlTransfer(k, s, inc, g)
  \/ \E k \in Connection, tid \in Ids, allow \in BOOLEAN :
       DecideControlTransfer(k, tid, allow)
  \/ \E k \in Connection : ReleaseControl(k) \/ CleanupConnection(k)
  \/ \E tid \in Ids : TransferTimeout(tid)
  \/ \E g \in Grant : RevokeGrantControllers(g)
  \/ \E connections \in SUBSET Connection : PolicyReload(connections)
  \/ \E s \in Splint, inc \in Incarnation :
       EndIdentity(s, inc) \/ RetireIdentity(s, inc)

Spec == Init /\ [][Next]_controllers

-----------------------------------------------------------------------------
(* Properties *)

Leases == controllers.by_id
Transfers == controllers.transfers

\* Every map holds only well-formed entries and both counters stay inside the
\* ID space.
TypeOK == WellTyped(controllers)

\* The lease table and its two indexes name the same leases after any sequence
\* of acquisitions, transfers and revocations.  Since each index maps to one
\* lease, control is exclusive per Splint and per connection.
IndexesAgree == LeaseIndexes(controllers)

\* The transfer table and its index agree, so a Splint has at most one pending
\* transfer and no finished one keeps blocking new requests; and nobody is
\* asked to hand control to themselves.
TransfersAgree == TransferIndexes(controllers)

\* The tables and their indexes never disagree (lookups go through an index,
\* removals through a table): control and pending transfers are exclusive per
\* Splint, and a connection holds at most one lease.
TablesAgree == IndexesAgree /\ TransfersAgree

\* A controller ID a client still holds never comes to mean something else: a
\* lease in force is never edited, and a new one has an ID that no earlier
\* lease had (authorize trusts the ID alone to find the lease).
LeaseIdsAreForever ==
  [][/\ \A i \in DOMAIN Leases \cap DOMAIN Leases' : Leases'[i] = Leases[i]
     /\ \A i \in DOMAIN Leases' \ DOMAIN Leases : i >= controllers.next_id
     /\ controllers'.next_id >= controllers.next_id
     /\ CountersAhead(controllers)']_controllers

=============================================================================

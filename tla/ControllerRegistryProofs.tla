---------------------- MODULE ControllerRegistryProofs ----------------------
(***************************************************************************)
(* What every method of the controller registry preserves, for any number  *)
(* of connections, Splints, incarnations and grants and any ID space.      *)
(***************************************************************************)
EXTENDS ControllerRegistry, TLAPS

Sound(c) ==
  WellTyped(c) /\ LeaseIndexes(c) /\ TransferIndexes(c) /\ CountersAhead(c)

\* Taking a free Splint for a free connection keeps the registry sound.
LEMMA AcquireSound ==
  ASSUME NEW c, Sound(c), NEW k \in Connection, NEW s \in Splint,
         NEW inc \in Incarnation, NEW g \in GrantId, CanAcquire(c, k, s)
  PROVE  Sound(Acquire(c, k, s, inc, g))
<1> DEFINE lease == [id |-> c.next_id, connection_id |-> k, splint_id |-> s,
                     incarnation |-> inc, grant_id |-> g]
           d == Acquire(c, k, s, inc, g)
<1>1. /\ DOMAIN d = DOMAIN c
      /\ d.next_id = c.next_id + 1
      /\ d.next_transfer_id = c.next_transfer_id
      /\ d.by_id = Insert(c.by_id, c.next_id, lease)
      /\ d.by_splint = [c.by_splint EXCEPT ![s] = c.next_id]
      /\ d.by_connection = [c.by_connection EXCEPT ![k] = c.next_id]
      /\ d.transfers = c.transfers
      /\ d.transfer_by_splint = c.transfer_by_splint
  BY DEF Acquire, Sound, WellTyped
<1>2. WellTyped(d)
  BY <1>1, MaxIdAssumption DEF Sound, WellTyped, CanAcquire, IdsLeft, Insert, Ids, NoId, ControllerLease
<1>3. LeaseIndexes(d)
  BY <1>1, MaxIdAssumption DEF Sound, WellTyped, LeaseIndexes, CountersAhead, CanAcquire, Insert, Ids, NoId, ControllerLease
<1>4. TransferIndexes(d)
  BY <1>1 DEF Sound, TransferIndexes
<1>5. CountersAhead(d)
  BY <1>1 DEF Sound, WellTyped, CountersAhead, Insert, Ids
<1> QED BY <1>2, <1>3, <1>4, <1>5 DEF Sound

\* Giving up any set of leases keeps the registry sound.
LEMMA ReleaseSound ==
  ASSUME NEW c, Sound(c), NEW ids
  PROVE  /\ Sound(Release(c, ids))
         /\ Release(c, ids).next_id = c.next_id
         /\ Release(c, ids).transfers = c.transfers
         /\ Release(c, ids).transfer_by_splint = c.transfer_by_splint
<1> DEFINE gone == ids \cap DOMAIN c.by_id
           d == Release(c, ids)
<1>1. /\ DOMAIN d = DOMAIN c
      /\ d.next_id = c.next_id
      /\ d.next_transfer_id = c.next_transfer_id
      /\ d.by_id = Restrict(c.by_id, DOMAIN c.by_id \ gone)
      /\ d.by_splint = [s \in Splint |->
           IF \E i \in gone : c.by_id[i].splint_id = s
           THEN NoId ELSE c.by_splint[s]]
      /\ d.by_connection = [k \in Connection |->
           IF \E i \in gone : c.by_id[i].connection_id = k
           THEN NoId ELSE c.by_connection[k]]
      /\ d.transfers = c.transfers
      /\ d.transfer_by_splint = c.transfer_by_splint
  BY DEF Release, Sound, WellTyped
<1> HIDE DEF d
<1>2. WellTyped(d)
  BY <1>1 DEF Sound, WellTyped, Restrict
<1>3. LeaseIndexes(d)
  <2>1. ASSUME NEW i \in DOMAIN d.by_id
        PROVE  /\ d.by_id[i].id = i
               /\ d.by_splint[d.by_id[i].splint_id] = i
               /\ d.by_connection[d.by_id[i].connection_id] = i
    <3>1. i \in DOMAIN c.by_id /\ i \notin gone /\ d.by_id[i] = c.by_id[i]
      BY <1>1, <2>1 DEF Restrict
    <3>2. c.by_id[i].splint_id \in Splint /\ c.by_id[i].connection_id \in Connection
      BY <3>1 DEF Sound, WellTyped, ControllerLease
    <3>3. \A j \in gone : /\ c.by_id[j].splint_id # c.by_id[i].splint_id
                          /\ c.by_id[j].connection_id # c.by_id[i].connection_id
      BY <3>1 DEF Sound, LeaseIndexes
    <3>4. /\ d.by_splint[c.by_id[i].splint_id]
               = c.by_splint[c.by_id[i].splint_id]
          /\ d.by_connection[c.by_id[i].connection_id]
               = c.by_connection[c.by_id[i].connection_id]
      BY <1>1, <3>2, <3>3
    <3> QED BY <3>1, <3>4 DEF Sound, LeaseIndexes
  <2>2. ASSUME NEW s \in Splint, d.by_splint[s] # NoId
        PROVE  /\ d.by_splint[s] \in DOMAIN d.by_id
               /\ d.by_id[d.by_splint[s]].splint_id = s
    BY <1>1, <2>2 DEF Sound, LeaseIndexes, Restrict
  <2>3. ASSUME NEW k \in Connection, d.by_connection[k] # NoId
        PROVE  /\ d.by_connection[k] \in DOMAIN d.by_id
               /\ d.by_id[d.by_connection[k]].connection_id = k
    BY <1>1, <2>3 DEF Sound, LeaseIndexes, Restrict
  <2> QED BY <2>1, <2>2, <2>3 DEF LeaseIndexes
<1>4. TransferIndexes(d)
  BY <1>1 DEF Sound, TransferIndexes
<1>5. CountersAhead(d)
  BY <1>1 DEF Sound, CountersAhead, Restrict
<1> QED BY <1>1, <1>2, <1>3, <1>4, <1>5 DEF Sound, d

\* A registered request is filed under its Splint and names two connections.
LEMMA RequestSound ==
  ASSUME NEW c, Sound(c), NEW k \in Connection, NEW s \in Splint,
         NEW inc \in Incarnation, NEW g \in GrantId, CanRequest(c, k, s, inc)
  PROVE  Sound(RequestTransfer(c, k, s, inc, g))
<1> DEFINE lease == c.by_id[c.by_splint[s]]
           t == [id |-> c.next_transfer_id,
                 owner_connection_id |-> lease.connection_id,
                 requester_connection_id |-> k, splint_id |-> s,
                 incarnation |-> inc, grant_id |-> g]
           d == RequestTransfer(c, k, s, inc, g)
<1>1. /\ DOMAIN d = DOMAIN c
      /\ d.next_id = c.next_id
      /\ d.next_transfer_id = c.next_transfer_id + 1
      /\ d.by_id = c.by_id
      /\ d.by_splint = c.by_splint
      /\ d.by_connection = c.by_connection
      /\ d.transfers = Insert(c.transfers, c.next_transfer_id, t)
      /\ d.transfer_by_splint =
           [c.transfer_by_splint EXCEPT ![s] = c.next_transfer_id]
  BY DEF RequestTransfer, Sound, WellTyped
<1>2. c.by_splint[s] \in DOMAIN c.by_id
  BY DEF CanRequest, LeasesOf, Sound, LeaseIndexes
<1>3. lease.connection_id \in Connection /\ lease.connection_id # k
  BY <1>2 DEF CanRequest, Sound, WellTyped, LeaseIndexes, ControllerLease, Ids, NoId
<1> HIDE DEF d, lease
<1>4. t \in PendingControlTransfer /\ c.next_transfer_id + 1 \in Ids
  BY <1>3, MaxIdAssumption
  DEF PendingControlTransfer, Sound, WellTyped, CanRequest, IdsLeft, Ids
<1>5. WellTyped(d)
  <2> HIDE DEF t
  <2> QED BY <1>1, <1>4 DEF Sound, WellTyped, Insert
<1>6. TransferIndexes(d)
  BY <1>1, <1>3, <1>4 DEF Sound, WellTyped, TransferIndexes, CountersAhead,
     CanRequest, Insert, Ids, NoId, PendingControlTransfer
<1>7. LeaseIndexes(d)
  BY <1>1 DEF Sound, LeaseIndexes
<1>8. CountersAhead(d)
  BY <1>1 DEF Sound, WellTyped, CountersAhead, Insert, Ids
<1> QED BY <1>5, <1>6, <1>7, <1>8 DEF Sound, d

\* Dropping any set of transfers keeps the registry sound and its leases as
\* they were.
LEMMA ExpireSound ==
  ASSUME NEW c, Sound(c), NEW ids
  PROVE  /\ Sound(Expire(c, ids))
         /\ Expire(c, ids).next_id = c.next_id
         /\ Expire(c, ids).by_id = c.by_id
         /\ Expire(c, ids).by_splint = c.by_splint
         /\ Expire(c, ids).by_connection = c.by_connection
<1> DEFINE gone == ids \cap DOMAIN c.transfers
           d == Expire(c, ids)
<1>1. /\ DOMAIN d = DOMAIN c
      /\ d.next_id = c.next_id
      /\ d.next_transfer_id = c.next_transfer_id
      /\ d.by_id = c.by_id
      /\ d.by_splint = c.by_splint
      /\ d.by_connection = c.by_connection
      /\ d.transfers = Restrict(c.transfers, DOMAIN c.transfers \ gone)
      /\ d.transfer_by_splint = [s \in Splint |->
           IF \E i \in gone : c.transfers[i].splint_id = s
           THEN NoId ELSE c.transfer_by_splint[s]]
  BY DEF Expire, Sound, WellTyped
<1> HIDE DEF d
<1>2. WellTyped(d)
  BY <1>1 DEF Sound, WellTyped, Restrict
<1>3. TransferIndexes(d)
  <2>1. ASSUME NEW i \in DOMAIN d.transfers
        PROVE  /\ d.transfers[i].id = i
               /\ d.transfer_by_splint[d.transfers[i].splint_id] = i
               /\ d.transfers[i].owner_connection_id
                    # d.transfers[i].requester_connection_id
    <3>1. /\ i \in DOMAIN c.transfers /\ i \notin gone
          /\ d.transfers[i] = c.transfers[i]
      BY <1>1, <2>1 DEF Restrict
    <3>2. c.transfers[i].splint_id \in Splint
      BY <3>1 DEF Sound, WellTyped, PendingControlTransfer
    <3>3. \A j \in gone : c.transfers[j].splint_id # c.transfers[i].splint_id
      BY <3>1 DEF Sound, TransferIndexes
    <3>4. d.transfer_by_splint[c.transfers[i].splint_id]
            = c.transfer_by_splint[c.transfers[i].splint_id]
      BY <1>1, <3>2, <3>3
    <3> QED BY <3>1, <3>4 DEF Sound, TransferIndexes
  <2>2. ASSUME NEW s \in Splint, d.transfer_by_splint[s] # NoId
        PROVE  /\ d.transfer_by_splint[s] \in DOMAIN d.transfers
               /\ d.transfers[d.transfer_by_splint[s]].splint_id = s
    BY <1>1, <2>2 DEF Sound, TransferIndexes, Restrict
  <2> QED BY <2>1, <2>2 DEF TransferIndexes
<1>4. LeaseIndexes(d)
  BY <1>1 DEF Sound, LeaseIndexes
<1>5. CountersAhead(d)
  BY <1>1 DEF Sound, CountersAhead, Restrict
<1> QED BY <1>1, <1>2, <1>3, <1>4, <1>5 DEF Sound, d

\* Taking control from its owner leaves both the Splint and the new connection
\* free to be paired.
LEMMA TakeoverFrees ==
  ASSUME NEW c, Sound(c), NEW k \in Connection, NEW s \in Splint,
         NEW inc \in Incarnation, CanForce(c, k, s, inc)
  PROVE  CanAcquire(Release(c, {c.by_splint[s]}), k, s)
<1> DEFINE gone == {c.by_splint[s]} \cap DOMAIN c.by_id
           d == Release(c, {c.by_splint[s]})
<1>1. /\ d.next_id = c.next_id
      /\ d.by_splint[s] =
           IF \E i \in gone : c.by_id[i].splint_id = s
           THEN NoId ELSE c.by_splint[s]
      /\ d.by_connection[k] =
           IF \E i \in gone : c.by_id[i].connection_id = k
           THEN NoId ELSE c.by_connection[k]
  BY DEF Release, Sound, WellTyped
<1>2. c.by_splint[s] \in gone /\ c.by_id[c.by_splint[s]].splint_id = s
  BY DEF CanForce, LeasesOf, Sound, LeaseIndexes
<1> QED BY <1>1, <1>2 DEF CanForce, CanAcquire

\* Deciding a transfer is dropping it, or dropping it and then forcing its
\* Splint over to the requester.
LEMMA DecideIsExpireOrForce ==
  ASSUME NEW c, Sound(c), NEW tid \in DOMAIN c.transfers,
         NEW allow \in BOOLEAN
  PROVE  LET t == c.transfers[tid]
             d == Expire(c, {tid})
         IN \/ DecideTransfer(c, tid, allow) = d
            \/ /\ StillValid(d, t)
               /\ CanForce(d, t.requester_connection_id, t.splint_id,
                           t.incarnation)
               /\ DecideTransfer(c, tid, allow) =
                    ForceTransfer(d, t.requester_connection_id, t.splint_id,
                                  t.incarnation, t.grant_id)
<1> DEFINE t == c.transfers[tid]
           d == Expire(c, {tid})
<1>1. d.next_id = c.next_id
  BY ExpireSound
<1>2. CASE allow /\ StillValid(d, t) /\ IdsLeft(c.next_id)
  BY <1>1, <1>2 DEF DecideTransfer, ForceTransfer, CanForce, StillValid
<1>3. CASE ~(allow /\ StillValid(d, t) /\ IdsLeft(c.next_id))
  BY <1>3 DEF DecideTransfer
<1> QED BY <1>2, <1>3

LEMMA TransferFields ==
  ASSUME NEW c, Sound(c), NEW tid \in DOMAIN c.transfers
  PROVE  /\ c.transfers[tid].owner_connection_id \in Connection
         /\ c.transfers[tid].requester_connection_id \in Connection
         /\ c.transfers[tid].splint_id \in Splint
         /\ c.transfers[tid].incarnation \in Incarnation
         /\ c.transfers[tid].grant_id \in GrantId
BY DEF Sound, WellTyped, PendingControlTransfer

LEMMA ForceSound ==
  ASSUME NEW c, Sound(c), NEW k \in Connection, NEW s \in Splint,
         NEW inc \in Incarnation, NEW g \in GrantId, CanForce(c, k, s, inc)
  PROVE  Sound(ForceTransfer(c, k, s, inc, g))
BY ReleaseSound, TakeoverFrees, AcquireSound DEF ForceTransfer

LEMMA DecideSound ==
  ASSUME NEW c, Sound(c), NEW tid \in DOMAIN c.transfers, NEW allow \in BOOLEAN
  PROVE  Sound(DecideTransfer(c, tid, allow))
<1> DEFINE t == c.transfers[tid]
           d == Expire(c, {tid})
<1>1. Sound(d)
  BY ExpireSound
<1>2. /\ t.requester_connection_id \in Connection /\ t.splint_id \in Splint
      /\ t.incarnation \in Incarnation /\ t.grant_id \in GrantId
  BY TransferFields
<1> HIDE DEF d, t
<1>3. CanForce(d, t.requester_connection_id, t.splint_id, t.incarnation)
      => Sound(ForceTransfer(d, t.requester_connection_id, t.splint_id,
                             t.incarnation, t.grant_id))
  BY <1>1, <1>2, ForceSound
<1> QED BY <1>1, <1>3, DecideIsExpireOrForce DEF d, t

\* A fresh daemon's registry is sound.
LEMMA DefaultSound == Sound(Default)
BY MaxIdAssumption DEF Sound, WellTyped, LeaseIndexes, TransferIndexes,
   CountersAhead, Default, Ids, NoId

-----------------------------------------------------------------------------
(* Lease IDs are never reused and leases never edited. *)

\* What a method may do to the lease table.
Preserves(c, d) ==
  /\ \A i \in DOMAIN c.by_id \cap DOMAIN d.by_id : d.by_id[i] = c.by_id[i]
  /\ \A i \in DOMAIN d.by_id \ DOMAIN c.by_id : i >= c.next_id
  /\ d.next_id >= c.next_id

LEMMA AcquirePreserves ==
  ASSUME NEW c, Sound(c), NEW k, NEW s, NEW inc, NEW g
  PROVE  Preserves(c, Acquire(c, k, s, inc, g))
<1> DEFINE d == Acquire(c, k, s, inc, g)
<1>1. /\ d.next_id = c.next_id + 1
      /\ DOMAIN d.by_id = DOMAIN c.by_id \cup {c.next_id}
      /\ \A i \in DOMAIN c.by_id : i # c.next_id => d.by_id[i] = c.by_id[i]
  BY DEF Acquire, Sound, WellTyped, Insert
<1> HIDE DEF d
<1>2. c.next_id \in Nat /\ \A i \in DOMAIN c.by_id : i < c.next_id /\ i \in Nat
  BY DEF Sound, WellTyped, CountersAhead, Ids
<1> QED BY <1>1, <1>2 DEF Preserves, d

LEMMA ReleasePreserves ==
  ASSUME NEW c, Sound(c), NEW ids
  PROVE  Preserves(c, Release(c, ids))
<1>1. /\ Release(c, ids).next_id = c.next_id
      /\ Release(c, ids).by_id
           = Restrict(c.by_id, DOMAIN c.by_id \ (ids \cap DOMAIN c.by_id))
  BY DEF Release, Sound, WellTyped
<1> QED BY <1>1 DEF Preserves, Restrict, Sound, WellTyped, Ids

LEMMA SameLeasesPreserves ==
  ASSUME NEW c, Sound(c), NEW d, d.by_id = c.by_id, d.next_id = c.next_id
  PROVE  Preserves(c, d)
BY DEF Preserves, Sound, WellTyped, Ids

LEMMA PreservesTransitive ==
  ASSUME NEW c, NEW d, NEW e, Sound(c), Sound(d), Sound(e),
         Preserves(c, d), Preserves(d, e)
  PROVE  Preserves(c, e)
<1>1. /\ c.next_id \in Nat /\ d.next_id \in Nat /\ e.next_id \in Nat
      /\ DOMAIN c.by_id \subseteq Nat /\ DOMAIN d.by_id \subseteq Nat
      /\ DOMAIN e.by_id \subseteq Nat
      /\ \A i \in DOMAIN c.by_id : i < c.next_id
  BY DEF Sound, WellTyped, CountersAhead, Ids
<1> QED BY <1>1 DEF Preserves

LEMMA ForcePreserves ==
  ASSUME NEW c, Sound(c), NEW k \in Connection, NEW s \in Splint,
         NEW inc \in Incarnation, NEW g \in GrantId, CanForce(c, k, s, inc)
  PROVE  Preserves(c, ForceTransfer(c, k, s, inc, g))
<1> DEFINE d == Release(c, {c.by_splint[s]})
<1>1. Sound(d) /\ Preserves(c, d)
  BY ReleaseSound, ReleasePreserves
<1> HIDE DEF d
<1>2. Preserves(d, Acquire(d, k, s, inc, g))
  BY <1>1, AcquirePreserves
<1> QED BY <1>1, <1>2, PreservesTransitive, ForceSound DEF ForceTransfer, d

LEMMA DecidePreserves ==
  ASSUME NEW c, Sound(c), NEW tid \in DOMAIN c.transfers, NEW allow \in BOOLEAN
  PROVE  Preserves(c, DecideTransfer(c, tid, allow))
<1> DEFINE t == c.transfers[tid]
           d == Expire(c, {tid})
           e == ForceTransfer(d, t.requester_connection_id, t.splint_id,
                              t.incarnation, t.grant_id)
<1>1. Sound(d) /\ Preserves(c, d)
  BY ExpireSound, SameLeasesPreserves
<1>2. /\ t.requester_connection_id \in Connection /\ t.splint_id \in Splint
      /\ t.incarnation \in Incarnation /\ t.grant_id \in GrantId
  BY TransferFields
<1>3. ASSUME CanForce(d, t.requester_connection_id, t.splint_id, t.incarnation)
      PROVE  Preserves(c, e)
  <2> HIDE DEF d, t
  <2>1. Sound(e) /\ Preserves(d, e)
    BY <1>1, <1>2, <1>3, ForceSound, ForcePreserves
  <2> HIDE DEF e
  <2> QED BY <1>1, <2>1, PreservesTransitive
<1> HIDE DEF d, t
<1> QED BY <1>1, <1>3, DecideIsExpireOrForce DEF d, t

\* Releasing leases and then dropping transfers, the shape of a disconnect and
\* of every revocation.
LEMMA RevokePreserves ==
  ASSUME NEW c, Sound(c), NEW ids, NEW tids
  PROVE  Preserves(c, Expire(Release(c, ids), tids))
<1> DEFINE d == Release(c, ids)
<1>1. Sound(d) /\ Preserves(c, d)
  BY ReleaseSound, ReleasePreserves
<1> HIDE DEF d
<1>2. Sound(Expire(d, tids)) /\ Preserves(d, Expire(d, tids))
  BY <1>1, ExpireSound, SameLeasesPreserves
<1> QED BY <1>1, <1>2, PreservesTransitive DEF d

=============================================================================

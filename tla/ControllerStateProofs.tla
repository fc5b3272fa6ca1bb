------------------------ MODULE ControllerStateProofs ------------------------
(***************************************************************************)
(* Theorems about ControllerState, for every value of its constants: the   *)
(* registry is sound, lease IDs are never reused, and the whole implements *)
(* ExclusiveControl.                                                       *)
(***************************************************************************)
EXTENDS ControlRefinement, ControllerRegistryProofs

\* Every action keeps the registry sound.
LEMMA NextSound ==
  ASSUME Sound(controllers), [Next]_controllers
  PROVE  Sound(controllers)'
<1>1. ASSUME NEW k \in Connection, NEW s \in Splint, NEW inc \in Incarnation,
             NEW g \in GrantId
      PROVE  /\ AcquireControl(k, s, inc, g) => Sound(controllers)'
             /\ RequestControlTransfer(k, s, inc, g) => Sound(controllers)'
             /\ ForceControlTransfer(k, s, inc, g) => Sound(controllers)'
  BY AcquireSound, RequestSound, ForceSound
  DEF AcquireControl, RequestControlTransfer, ForceControlTransfer
<1>2. ASSUME NEW k \in Connection, NEW tid \in Ids, NEW allow \in BOOLEAN,
             DecideControlTransfer(k, tid, allow)
      PROVE  Sound(controllers)'
  BY <1>2, DecideSound DEF DecideControlTransfer, CanDecide
<1>3. ASSUME NEW k \in Connection, ReleaseControl(k) \/ CleanupConnection(k)
      PROVE  Sound(controllers)'
  BY <1>3, ReleaseSound, ExpireSound
  DEF ReleaseControl, CleanupConnection, ReleaseConnection,
      CancelConnectionTransfers
<1>4. ASSUME NEW tid \in Ids, TransferTimeout(tid)
      PROVE  Sound(controllers)'
  BY <1>4, ExpireSound DEF TransferTimeout
<1>5. ASSUME NEW g \in Grant, RevokeGrantControllers(g)
      PROVE  Sound(controllers)'
  BY <1>5, ReleaseSound, ExpireSound DEF RevokeGrantControllers, ReleaseGrant
<1>6. ASSUME NEW connections \in SUBSET Connection, PolicyReload(connections)
      PROVE  Sound(controllers)'
  BY <1>6, ReleaseSound, ExpireSound DEF PolicyReload, ReleaseConnections
<1>7. ASSUME NEW s \in Splint, NEW inc \in Incarnation,
             EndIdentity(s, inc) \/ RetireIdentity(s, inc)
      PROVE  Sound(controllers)'
  BY <1>7, ReleaseSound, ExpireSound
  DEF EndIdentity, RetireIdentity, ReleaseIdentity, CancelIdentityTransfer
<1>8. CASE UNCHANGED controllers
  BY <1>8
<1> QED BY <1>1, <1>2, <1>3, <1>4, <1>5, <1>6, <1>7, <1>8 DEF Next

\* The registry is sound in every state that requests, timers, disconnects and
\* revocations can reach, in any order.
THEOREM RegistrySound == Spec => []Sound(controllers)
<1>1. Init => Sound(controllers)
  BY DefaultSound DEF Init
<1>2. Sound(controllers) /\ [Next]_controllers => Sound(controllers)'
  BY NextSound
<1> QED BY <1>1, <1>2, PTL DEF Spec

\* Type correctness of the registry.
THEOREM TypeCorrect == Spec => []TypeOK
<1>1. Sound(controllers) => TypeOK
  BY DEF Sound, TypeOK
<1> QED BY <1>1, RegistrySound, PTL

\* Control is exclusive: the lease table and both indexes always agree.
THEOREM ControlIsExclusive == Spec => []IndexesAgree
<1>1. Sound(controllers) => IndexesAgree
  BY DEF Sound, IndexesAgree
<1> QED BY <1>1, RegistrySound, PTL

\* A Splint has at most one pending transfer, between two connections.
THEOREM TransfersAreExclusive == Spec => []TransfersAgree
<1>1. Sound(controllers) => TransfersAgree
  BY DEF Sound, TransfersAgree
<1> QED BY <1>1, RegistrySound, PTL

\* The tables and their indexes never disagree.
THEOREM TablesAlwaysAgree == Spec => []TablesAgree
<1>1. Sound(controllers) => TablesAgree
  BY DEF Sound, TablesAgree, IndexesAgree, TransfersAgree
<1> QED BY <1>1, RegistrySound, PTL

LEMMA NextPreserves ==
  ASSUME Sound(controllers), [Next]_controllers
  PROVE  Preserves(controllers, controllers')
<1>1. ASSUME NEW k \in Connection, NEW s \in Splint, NEW inc \in Incarnation,
             NEW g \in GrantId
      PROVE  /\ AcquireControl(k, s, inc, g)
                  => Preserves(controllers, controllers')
             /\ ForceControlTransfer(k, s, inc, g)
                  => Preserves(controllers, controllers')
  BY AcquirePreserves, ForcePreserves DEF AcquireControl, ForceControlTransfer
<1>2. ASSUME NEW k \in Connection, NEW s \in Splint, NEW inc \in Incarnation,
             NEW g \in GrantId, RequestControlTransfer(k, s, inc, g)
      PROVE  Preserves(controllers, controllers')
  <2>1. controllers'.by_id = controllers.by_id
        /\ controllers'.next_id = controllers.next_id
    BY <1>2 DEF RequestControlTransfer, RequestTransfer, Sound, WellTyped
  <2> QED BY <2>1, SameLeasesPreserves
<1>3. ASSUME NEW k \in Connection, NEW tid \in Ids, NEW allow \in BOOLEAN,
             DecideControlTransfer(k, tid, allow)
      PROVE  Preserves(controllers, controllers')
  BY <1>3, DecidePreserves DEF DecideControlTransfer, CanDecide
<1>4. ASSUME NEW k \in Connection, ReleaseControl(k) \/ CleanupConnection(k)
      PROVE  Preserves(controllers, controllers')
  BY <1>4, ReleasePreserves, RevokePreserves
  DEF ReleaseControl, CleanupConnection, ReleaseConnection,
      CancelConnectionTransfers
<1>5. ASSUME NEW tid \in Ids, TransferTimeout(tid)
      PROVE  Preserves(controllers, controllers')
  BY <1>5, ExpireSound, SameLeasesPreserves DEF TransferTimeout
<1>6. ASSUME NEW g \in Grant, RevokeGrantControllers(g)
      PROVE  Preserves(controllers, controllers')
  BY <1>6, RevokePreserves DEF RevokeGrantControllers, ReleaseGrant
<1>7. ASSUME NEW connections \in SUBSET Connection, PolicyReload(connections)
      PROVE  Preserves(controllers, controllers')
  BY <1>7, RevokePreserves DEF PolicyReload, ReleaseConnections
<1>8. ASSUME NEW s \in Splint, NEW inc \in Incarnation,
             EndIdentity(s, inc) \/ RetireIdentity(s, inc)
      PROVE  Preserves(controllers, controllers')
  BY <1>8, ReleasePreserves, RevokePreserves
  DEF EndIdentity, RetireIdentity, ReleaseIdentity, CancelIdentityTransfer
<1>9. CASE UNCHANGED controllers
  BY <1>9, SameLeasesPreserves
<1> QED BY <1>1, <1>2, <1>3, <1>4, <1>5, <1>6, <1>7, <1>8, <1>9 DEF Next

\* No controller ID is ever handed out twice, and a lease in force keeps its
\* owner, Splint and incarnation for as long as it exists.
THEOREM LeaseIdsNeverReused == Spec => LeaseIdsAreForever
<1>1. ASSUME Sound(controllers), [Next]_controllers
      PROVE  [/\ \A i \in DOMAIN Leases \cap DOMAIN Leases' :
                     Leases'[i] = Leases[i]
              /\ \A i \in DOMAIN Leases' \ DOMAIN Leases :
                     i >= controllers.next_id
              /\ controllers'.next_id >= controllers.next_id
              /\ CountersAhead(controllers)']_controllers
  BY <1>1, NextSound, NextPreserves DEF Preserves, Leases, Sound
<1> QED BY <1>1, RegistrySound, PTL DEF Spec, LeaseIdsAreForever

-----------------------------------------------------------------------------
(* Refinement: each method's effect on the owner map and the request map.  *)

LEMMA AcquireMaps ==
  ASSUME NEW c, Sound(c), NEW k \in Connection, NEW s \in Splint,
         NEW inc \in Incarnation, NEW g \in GrantId, CanAcquire(c, k, s)
  PROVE  LET d == Acquire(c, k, s, inc, g) IN
         /\ OwnerOf(d) = [OwnerOf(c) EXCEPT ![s] =
                            [connection |-> k, incarnation |-> inc]]
         /\ AskedOf(d) = AskedOf(c)
<1> DEFINE lease == [id |-> c.next_id, connection_id |-> k, splint_id |-> s,
                     incarnation |-> inc, grant_id |-> g]
           d == Acquire(c, k, s, inc, g)
<1>1. /\ d.by_id = Insert(c.by_id, c.next_id, lease)
      /\ d.by_splint = [c.by_splint EXCEPT ![s] = c.next_id]
      /\ d.transfers = c.transfers
      /\ d.transfer_by_splint = c.transfer_by_splint
  BY DEF Acquire, Sound, WellTyped
<1> HIDE DEF d
<1>2. d.by_splint[s] = c.next_id /\ c.next_id # NoId /\ d.by_id[c.next_id] = lease
  BY <1>1 DEF Sound, WellTyped, Insert, Ids, NoId
<1>3. ASSUME NEW r \in Splint, r # s, c.by_splint[r] # NoId
      PROVE  d.by_id[d.by_splint[r]] = c.by_id[c.by_splint[r]]
  <2>1. c.by_splint[r] \in DOMAIN c.by_id /\ c.by_splint[r] # c.next_id
    BY <1>3 DEF Sound, WellTyped, LeaseIndexes, CountersAhead, Ids
  <2> QED BY <1>1, <1>3, <2>1 DEF Sound, WellTyped, Insert
<1>4. \A r \in Splint \ {s} : d.by_splint[r] = c.by_splint[r]
  BY <1>1 DEF Sound, WellTyped
<1>5. OwnerOf(d)[s] = [connection |-> k, incarnation |-> inc]
  BY <1>2 DEF OwnerOf
<1>6. \A r \in Splint \ {s} : OwnerOf(d)[r] = OwnerOf(c)[r]
  BY <1>3, <1>4 DEF OwnerOf
<1>7. OwnerOf(d) = [OwnerOf(c) EXCEPT ![s] =
                      [connection |-> k, incarnation |-> inc]]
  <2>1. /\ OwnerOf(d) = [r \in Splint |-> OwnerOf(d)[r]]
        /\ OwnerOf(c) = [r \in Splint |-> OwnerOf(c)[r]]
    BY DEF OwnerOf
  <2> QED BY <1>5, <1>6, <2>1
<1>8. AskedOf(d) = AskedOf(c)
  BY <1>1 DEF AskedOf
<1> QED BY <1>7, <1>8 DEF d

LEMMA ReleaseMaps ==
  ASSUME NEW c, Sound(c), NEW ids
  PROVE  LET d == Release(c, ids) IN
         /\ OwnerOf(d) = [s \in Splint |->
                            IF c.by_splint[s] \in ids THEN None
                            ELSE OwnerOf(c)[s]]
         /\ AskedOf(d) = AskedOf(c)
<1> DEFINE gone == ids \cap DOMAIN c.by_id
           d == Release(c, ids)
<1>1. /\ d.by_id = Restrict(c.by_id, DOMAIN c.by_id \ gone)
      /\ d.by_splint = [s \in Splint |->
           IF \E i \in gone : c.by_id[i].splint_id = s
           THEN NoId ELSE c.by_splint[s]]
      /\ d.transfers = c.transfers
      /\ d.transfer_by_splint = c.transfer_by_splint
  BY DEF Release, Sound, WellTyped
<1> HIDE DEF d
<1>2. ASSUME NEW s \in Splint
      PROVE  OwnerOf(d)[s] = IF c.by_splint[s] \in ids THEN None
                             ELSE OwnerOf(c)[s]
  <2>1. CASE c.by_splint[s] = NoId
    <3>1. d.by_splint[s] = NoId
      BY <1>1, <2>1
    <3> QED BY <2>1, <3>1 DEF OwnerOf
  <2>2. CASE c.by_splint[s] # NoId /\ c.by_splint[s] \in ids
    <3>1. c.by_splint[s] \in gone /\ c.by_id[c.by_splint[s]].splint_id = s
      BY <2>2 DEF Sound, LeaseIndexes
    <3>2. d.by_splint[s] = NoId
      BY <1>1, <3>1
    <3> QED BY <2>2, <3>2 DEF OwnerOf
  <2>3. CASE c.by_splint[s] # NoId /\ c.by_splint[s] \notin ids
    <3>1. c.by_splint[s] \in DOMAIN c.by_id \ gone
      BY <2>3 DEF Sound, LeaseIndexes
    <3>2. \A i \in gone : c.by_id[i].splint_id # s
      BY <2>3 DEF Sound, LeaseIndexes
    <3>3. d.by_splint[s] = c.by_splint[s]
      BY <1>1, <3>2
    <3>4. d.by_id[c.by_splint[s]] = c.by_id[c.by_splint[s]]
      BY <1>1, <3>1 DEF Restrict
    <3> QED BY <2>3, <3>3, <3>4 DEF OwnerOf
  <2> QED BY <2>1, <2>2, <2>3
<1>3. OwnerOf(d) = [s \in Splint |-> OwnerOf(d)[s]]
  BY DEF OwnerOf
<1>4. AskedOf(d) = AskedOf(c)
  BY <1>1 DEF AskedOf
<1> QED BY <1>2, <1>3, <1>4 DEF d

LEMMA ExpireMaps ==
  ASSUME NEW c, Sound(c), NEW ids
  PROVE  LET d == Expire(c, ids) IN
         /\ OwnerOf(d) = OwnerOf(c)
         /\ AskedOf(d) = [s \in Splint |->
                            IF c.transfer_by_splint[s] \in ids THEN None
                            ELSE AskedOf(c)[s]]
<1> DEFINE gone == ids \cap DOMAIN c.transfers
           d == Expire(c, ids)
<1>1. /\ d.transfers = Restrict(c.transfers, DOMAIN c.transfers \ gone)
      /\ d.transfer_by_splint = [s \in Splint |->
           IF \E i \in gone : c.transfers[i].splint_id = s
           THEN NoId ELSE c.transfer_by_splint[s]]
      /\ d.by_id = c.by_id
      /\ d.by_splint = c.by_splint
  BY DEF Expire, Sound, WellTyped
<1> HIDE DEF d
<1>2. ASSUME NEW s \in Splint
      PROVE  AskedOf(d)[s] = IF c.transfer_by_splint[s] \in ids THEN None
                             ELSE AskedOf(c)[s]
  <2>1. CASE c.transfer_by_splint[s] = NoId
    <3>1. d.transfer_by_splint[s] = NoId
      BY <1>1, <2>1
    <3> QED BY <2>1, <3>1 DEF AskedOf
  <2>2. CASE c.transfer_by_splint[s] # NoId /\ c.transfer_by_splint[s] \in ids
    <3>1. /\ c.transfer_by_splint[s] \in gone
          /\ c.transfers[c.transfer_by_splint[s]].splint_id = s
      BY <2>2 DEF Sound, TransferIndexes
    <3>2. d.transfer_by_splint[s] = NoId
      BY <1>1, <3>1
    <3> QED BY <2>2, <3>2 DEF AskedOf
  <2>3. CASE c.transfer_by_splint[s] # NoId /\ c.transfer_by_splint[s] \notin ids
    <3>1. c.transfer_by_splint[s] \in DOMAIN c.transfers \ gone
      BY <2>3 DEF Sound, TransferIndexes
    <3>2. \A i \in gone : c.transfers[i].splint_id # s
      BY <2>3 DEF Sound, TransferIndexes
    <3>3. d.transfer_by_splint[s] = c.transfer_by_splint[s]
      BY <1>1, <3>2
    <3>4. d.transfers[c.transfer_by_splint[s]]
            = c.transfers[c.transfer_by_splint[s]]
      BY <1>1, <3>1 DEF Restrict
    <3> QED BY <2>3, <3>3, <3>4 DEF AskedOf
  <2> QED BY <2>1, <2>2, <2>3
<1>3. AskedOf(d) = [s \in Splint |-> AskedOf(d)[s]]
  BY DEF AskedOf
<1>4. OwnerOf(d) = OwnerOf(c)
  BY <1>1 DEF OwnerOf
<1> QED BY <1>2, <1>3, <1>4 DEF d

\* A Splint whose lease is for this incarnation has an owner of it.
LEMMA HasOwner ==
  ASSUME NEW c, Sound(c), NEW s \in Splint, NEW inc \in Incarnation,
         LeasesOf(c, s, inc) # {}
  PROVE  /\ OwnerOf(c)[s] # None
         /\ OwnerOf(c)[s] =
              [connection |-> c.by_id[c.by_splint[s]].connection_id,
               incarnation |-> inc]
         /\ c.by_id[c.by_splint[s]].connection_id \in Connection
<1>1. /\ c.by_splint[s] # NoId
      /\ c.by_splint[s] \in DOMAIN c.by_id
      /\ c.by_id[c.by_splint[s]].incarnation = inc
  BY DEF LeasesOf, Sound, LeaseIndexes
<1>2. c.by_id[c.by_splint[s]].connection_id \in Connection
  BY <1>1 DEF Sound, WellTyped, ControllerLease
<1>3. OwnerOf(c)[s] = [connection |-> c.by_id[c.by_splint[s]].connection_id,
                       incarnation |-> inc]
  BY <1>1 DEF OwnerOf
<1>4. OwnerOf(c)[s] \in Abstract!Owner
  BY <1>2, <1>3 DEF Abstract!Owner
<1> QED BY <1>2, <1>3, <1>4, NoneAssumption

LEMMA RequestMaps ==
  ASSUME NEW c, Sound(c), NEW k \in Connection, NEW s \in Splint,
         NEW inc \in Incarnation, NEW g \in GrantId, CanRequest(c, k, s, inc)
  PROVE  LET d == RequestTransfer(c, k, s, inc, g) IN
         /\ OwnerOf(d) = OwnerOf(c)
         /\ AskedOf(d) = [AskedOf(c) EXCEPT ![s] =
              [from |-> OwnerOf(c)[s].connection, by |-> k,
               incarnation |-> inc]]
<1> DEFINE who == c.by_id[c.by_splint[s]].connection_id
           t == [id |-> c.next_transfer_id, owner_connection_id |-> who,
                 requester_connection_id |-> k, splint_id |-> s,
                 incarnation |-> inc, grant_id |-> g]
           d == RequestTransfer(c, k, s, inc, g)
<1>1. /\ d.by_id = c.by_id
      /\ d.by_splint = c.by_splint
      /\ d.transfers = Insert(c.transfers, c.next_transfer_id, t)
      /\ d.transfer_by_splint =
           [c.transfer_by_splint EXCEPT ![s] = c.next_transfer_id]
  BY DEF RequestTransfer, Sound, WellTyped
<1>2. OwnerOf(c)[s].connection = who
  <2>1. OwnerOf(c)[s] = [connection |-> who, incarnation |-> inc]
    BY HasOwner DEF CanRequest
  <2> HIDE DEF who
  <2> QED BY <2>1
<1> HIDE DEF d, who
<1>3. /\ d.transfer_by_splint[s] = c.next_transfer_id
      /\ c.next_transfer_id # NoId
      /\ d.transfers[c.next_transfer_id] = t
  BY <1>1 DEF Sound, WellTyped, Insert, Ids, NoId
<1>4. \A r \in Splint \ {s} : d.transfer_by_splint[r] = c.transfer_by_splint[r]
  BY <1>1 DEF Sound, WellTyped
<1>5. ASSUME NEW r \in Splint, r # s, c.transfer_by_splint[r] # NoId
      PROVE  d.transfers[c.transfer_by_splint[r]]
               = c.transfers[c.transfer_by_splint[r]]
  <2>1. /\ c.transfer_by_splint[r] \in DOMAIN c.transfers
        /\ c.transfer_by_splint[r] # c.next_transfer_id
    BY <1>5 DEF Sound, WellTyped, TransferIndexes, CountersAhead, Ids
  <2> QED BY <1>1, <2>1 DEF Insert
<1>6. AskedOf(d)[s] = [from |-> who, by |-> k, incarnation |-> inc]
  BY <1>3 DEF AskedOf
<1>7. \A r \in Splint \ {s} : AskedOf(d)[r] = AskedOf(c)[r]
  BY <1>4, <1>5 DEF AskedOf
<1>8. /\ AskedOf(d) = [r \in Splint |-> AskedOf(d)[r]]
      /\ AskedOf(c) = [r \in Splint |-> AskedOf(c)[r]]
  BY DEF AskedOf
<1>9. OwnerOf(d) = OwnerOf(c)
  BY <1>1 DEF OwnerOf
<1> QED BY <1>2, <1>6, <1>7, <1>8, <1>9 DEF d

\* Forcing a transfer replaces the owner's connection and nothing else.
LEMMA ForceMaps ==
  ASSUME NEW c, Sound(c), NEW k \in Connection, NEW s \in Splint,
         NEW inc \in Incarnation, NEW g \in GrantId, CanForce(c, k, s, inc)
  PROVE  /\ OwnerOf(ForceTransfer(c, k, s, inc, g))
              = [OwnerOf(c) EXCEPT ![s].connection = k]
         /\ AskedOf(ForceTransfer(c, k, s, inc, g)) = AskedOf(c)
<1> DEFINE id == c.by_splint[s]
           e == Release(c, {id})
           d == Acquire(e, k, s, inc, g)
<1>1. Sound(e) /\ CanAcquire(e, k, s)
  BY ReleaseSound, TakeoverFrees
<1>2. /\ OwnerOf(e) = [r \in Splint |-> IF c.by_splint[r] \in {id} THEN None
                                        ELSE OwnerOf(c)[r]]
      /\ AskedOf(e) = AskedOf(c)
  BY ReleaseMaps
<1>3. ASSUME NEW r \in Splint, r # s PROVE c.by_splint[r] # id
  <2>1. id # NoId /\ id \in DOMAIN c.by_id /\ c.by_id[id].splint_id = s
    BY DEF CanForce, LeasesOf, Sound, LeaseIndexes
  <2> QED BY <1>3, <2>1 DEF Sound, LeaseIndexes
<1> HIDE DEF e
<1>4. /\ OwnerOf(d) = [OwnerOf(e) EXCEPT ![s] =
                         [connection |-> k, incarnation |-> inc]]
      /\ AskedOf(d) = AskedOf(e)
  BY <1>1, AcquireMaps
<1>5. OwnerOf(c)[s] = [connection |-> c.by_id[id].connection_id,
                       incarnation |-> inc]
  BY HasOwner DEF CanForce
<1>6. OwnerOf(c) = [r \in Splint |-> OwnerOf(c)[r]]
  BY DEF OwnerOf
<1>7. [OwnerOf(c)[s] EXCEPT !.connection = k]
        = [connection |-> k, incarnation |-> inc]
  BY <1>5
<1>8. OwnerOf(d) = [OwnerOf(c) EXCEPT ![s].connection = k]
  BY <1>2, <1>3, <1>4, <1>6, <1>7
<1> QED BY <1>2, <1>4, <1>8 DEF ForceTransfer, e

-----------------------------------------------------------------------------
(* The step simulation. *)

\* A connection without a lease owns nothing.
LEMMA FreeOwnsNothing ==
  ASSUME Sound(controllers), NEW k \in Connection,
         controllers.by_connection[k] = NoId
  PROVE  ~Abstract!Owns(k)
<1> SUFFICES ASSUME NEW s \in Splint, OwnerOf(controllers)[s] # None,
                    OwnerOf(controllers)[s].connection = k
             PROVE  FALSE
  BY DEF Abstract!Owns
<1> DEFINE id == controllers.by_splint[s]
<1>1. id # NoId
  BY DEF OwnerOf
<1>2. OwnerOf(controllers)[s].connection = controllers.by_id[id].connection_id
  BY <1>1 DEF OwnerOf
<1>3. id \in DOMAIN controllers.by_id
  BY <1>1 DEF Sound, LeaseIndexes
<1> QED BY <1>1, <1>2, <1>3 DEF Sound, LeaseIndexes

\* Releasing leases and then dropping transfers is one Give step.
LEMMA RevokeGives ==
  ASSUME Sound(controllers), NEW ids, NEW tids,
         controllers' = Expire(Release(controllers, ids), tids)
  PROVE  Abstract!Next
<1> DEFINE d == Release(controllers, ids)
           splints == {s \in Splint : controllers.by_splint[s] \in ids}
           requests == {s \in Splint :
                          controllers.transfer_by_splint[s] \in tids}
<1>1. Sound(d) /\ d.transfer_by_splint = controllers.transfer_by_splint
  BY ReleaseSound
<1>2. /\ OwnerOf(d) = [s \in Splint |->
                         IF controllers.by_splint[s] \in ids THEN None
                         ELSE OwnerOf(controllers)[s]]
      /\ AskedOf(d) = AskedOf(controllers)
  BY ReleaseMaps
<1> HIDE DEF d
<1>3. /\ OwnerOf(controllers') = OwnerOf(d)
      /\ AskedOf(controllers') = [s \in Splint |->
           IF d.transfer_by_splint[s] \in tids THEN None ELSE AskedOf(d)[s]]
  BY <1>1, ExpireMaps DEF d
<1>4. Abstract!Give(splints, requests)
  BY <1>1, <1>2, <1>3 DEF Abstract!Give
<1> QED BY <1>4 DEF Abstract!Next

LEMMA ExpireGives ==
  ASSUME Sound(controllers), NEW tids,
         controllers' = Expire(controllers, tids)
  PROVE  Abstract!Next
<1> DEFINE requests == {s \in Splint :
                          controllers.transfer_by_splint[s] \in tids}
<1>1. /\ OwnerOf(controllers') = OwnerOf(controllers)
      /\ AskedOf(controllers') = [s \in Splint |->
           IF controllers.transfer_by_splint[s] \in tids THEN None
           ELSE AskedOf(controllers)[s]]
  BY ExpireMaps
<1>2. OwnerOf(controllers) = [s \in Splint |-> OwnerOf(controllers)[s]]
  BY DEF OwnerOf
<1>3. Abstract!Give({}, requests)
  BY <1>1, <1>2 DEF Abstract!Give
<1> QED BY <1>3 DEF Abstract!Next

LEMMA ReleaseGives ==
  ASSUME Sound(controllers), NEW ids,
         controllers' = Release(controllers, ids)
  PROVE  Abstract!Next
<1> DEFINE splints == {s \in Splint : controllers.by_splint[s] \in ids}
<1>1. /\ OwnerOf(controllers') = [s \in Splint |->
           IF controllers.by_splint[s] \in ids THEN None
           ELSE OwnerOf(controllers)[s]]
      /\ AskedOf(controllers') = AskedOf(controllers)
  BY ReleaseMaps
<1>2. AskedOf(controllers) = [s \in Splint |-> AskedOf(controllers)[s]]
  BY DEF AskedOf
<1>3. Abstract!Give(splints, {})
  BY <1>1, <1>2 DEF Abstract!Give
<1> QED BY <1>3 DEF Abstract!Next

LEMMA AcquireTakes ==
  ASSUME Sound(controllers), NEW k \in Connection, NEW s \in Splint,
         NEW inc \in Incarnation, NEW g \in GrantId,
         AcquireControl(k, s, inc, g)
  PROVE  Abstract!Take(s, k, inc)
<1>1. /\ OwnerOf(controllers') = [OwnerOf(controllers) EXCEPT ![s] =
           [connection |-> k, incarnation |-> inc]]
      /\ AskedOf(controllers') = AskedOf(controllers)
  BY AcquireMaps DEF AcquireControl
<1>2. OwnerOf(controllers)[s] = None
  BY DEF AcquireControl, CanAcquire, OwnerOf
<1>3. ~Abstract!Owns(k)
  BY FreeOwnsNothing DEF AcquireControl, CanAcquire
<1> QED BY <1>1, <1>2, <1>3 DEF Abstract!Take

LEMMA RequestAsks ==
  ASSUME Sound(controllers), NEW k \in Connection, NEW s \in Splint,
         NEW inc \in Incarnation, NEW g \in GrantId,
         RequestControlTransfer(k, s, inc, g)
  PROVE  Abstract!Ask(s, k)
<1> DEFINE who == controllers.by_id[controllers.by_splint[s]].connection_id
<1>1. /\ OwnerOf(controllers') = OwnerOf(controllers)
      /\ AskedOf(controllers') = [AskedOf(controllers) EXCEPT ![s] =
           [from |-> OwnerOf(controllers)[s].connection, by |-> k,
            incarnation |-> inc]]
  BY RequestMaps DEF RequestControlTransfer
<1>2. /\ OwnerOf(controllers)[s] # None
      /\ OwnerOf(controllers)[s] = [connection |-> who, incarnation |-> inc]
  BY HasOwner DEF RequestControlTransfer, CanRequest
<1>3. AskedOf(controllers)[s] = None
  BY DEF RequestControlTransfer, CanRequest, AskedOf
<1>4. ~Abstract!Owns(k)
  BY FreeOwnsNothing DEF RequestControlTransfer, CanRequest
<1> HIDE DEF who
<1>5. OwnerOf(controllers)[s].incarnation = inc
  BY <1>2
<1> QED BY <1>1, <1>2, <1>3, <1>4, <1>5 DEF Abstract!Ask

LEMMA ForceSeizes ==
  ASSUME Sound(controllers), NEW k \in Connection, NEW s \in Splint,
         NEW inc \in Incarnation, NEW g \in GrantId,
         ForceControlTransfer(k, s, inc, g)
  PROVE  Abstract!Seize(s, k)
<1>1. /\ OwnerOf(controllers') =
           [OwnerOf(controllers) EXCEPT ![s].connection = k]
      /\ AskedOf(controllers') = AskedOf(controllers)
  BY ForceMaps DEF ForceControlTransfer
<1>2. OwnerOf(controllers)[s] # None
  BY HasOwner DEF ForceControlTransfer, CanForce
<1>3. ~Abstract!Owns(k)
  BY FreeOwnsNothing DEF ForceControlTransfer, CanForce
<1> QED BY <1>1, <1>2, <1>3 DEF Abstract!Seize

\* An allowed transfer is the abstract agreement of the owner that was asked.
LEMMA GrantAgrees ==
  ASSUME Sound(controllers), NEW tid \in DOMAIN Transfers,
         NEW d, d = Expire(controllers, {tid}),
         NEW t, t = Transfers[tid], StillValid(d, t),
         CanForce(d, t.requester_connection_id, t.splint_id, t.incarnation),
         controllers' = ForceTransfer(d, t.requester_connection_id,
                          t.splint_id, t.incarnation, t.grant_id)
  PROVE  Abstract!Agree(t.splint_id)
<1> DEFINE s == t.splint_id
           k == t.requester_connection_id
           was == [from |-> t.owner_connection_id, by |-> k,
                   incarnation |-> t.incarnation]
<1>1. /\ k \in Connection /\ s \in Splint /\ t.incarnation \in Incarnation
      /\ t.owner_connection_id \in Connection /\ t.grant_id \in GrantId
  BY TransferFields DEF Transfers
<1>2. /\ Sound(d) /\ d.by_id = controllers.by_id
      /\ d.by_splint = controllers.by_splint
      /\ d.by_connection = controllers.by_connection
  BY ExpireSound
<1>3. /\ controllers.transfer_by_splint[s] = tid
      /\ \A r \in Splint \ {s} : controllers.transfer_by_splint[r] # tid
  <2>1. tid # NoId
    BY DEF Sound, WellTyped, Transfers, Ids, NoId
  <2> QED BY <1>1, <2>1 DEF Sound, TransferIndexes, Transfers
<1>4. AskedOf(controllers)[s] = was
  <2>1. tid # NoId
    BY DEF Sound, WellTyped, Transfers, Ids, NoId
  <2> QED BY <1>1, <1>3, <2>1 DEF AskedOf, Transfers
<1>5. AskedOf(controllers)[s] # None
  <2>1. was \in Abstract!Request
    BY <1>1 DEF Abstract!Request
  <2> HIDE DEF was
  <2> QED BY <1>4, <2>1, NoneAssumption
<1>6. AskedOf(d) = [AskedOf(controllers) EXCEPT ![s] = None]
      /\ OwnerOf(d) = OwnerOf(controllers)
  <2>1. /\ OwnerOf(d) = OwnerOf(controllers)
        /\ AskedOf(d) = [r \in Splint |->
             IF controllers.transfer_by_splint[r] \in {tid} THEN None
             ELSE AskedOf(controllers)[r]]
    BY ExpireMaps
  <2>2. AskedOf(controllers) = [r \in Splint |-> AskedOf(controllers)[r]]
    BY DEF AskedOf
  <2> QED BY <1>3, <2>1, <2>2
<1>7. /\ OwnerOf(controllers') = [OwnerOf(d) EXCEPT ![s].connection = k]
      /\ AskedOf(controllers') = AskedOf(d)
  <2> DEFINE inc == t.incarnation
             g == t.grant_id
  <2>1. /\ CanForce(d, k, s, inc)
        /\ controllers' = ForceTransfer(d, k, s, inc, g)
        /\ inc \in Incarnation /\ g \in GrantId
    BY <1>1
  <2> HIDE DEF k, s, inc, g
  <2>2. /\ OwnerOf(ForceTransfer(d, k, s, inc, g))
             = [OwnerOf(d) EXCEPT ![s].connection = k]
        /\ AskedOf(ForceTransfer(d, k, s, inc, g)) = AskedOf(d)
    BY ONLY <1>1, <1>2, <2>1, ForceMaps
  <2> QED BY <2>1, <2>2
<1>8. OwnerOf(controllers)[s] = [connection |-> t.owner_connection_id,
                                 incarnation |-> t.incarnation]
  <2>1. /\ LeasesOf(d, s, t.incarnation) # {}
        /\ d.by_id[d.by_splint[s]].connection_id = t.owner_connection_id
    BY DEF StillValid, LeasesOf
  <2>2. OwnerOf(d)[s] = [connection |-> d.by_id[d.by_splint[s]].connection_id,
                         incarnation |-> t.incarnation]
    BY <1>1, <1>2, <2>1, HasOwner
  <2> QED BY <1>6, <2>1, <2>2
<1>9. ~Abstract!Owns(k)
  BY <1>1, <1>2, FreeOwnsNothing DEF CanForce
<1> QED
  <2>1. /\ AskedOf(controllers)[s].from = t.owner_connection_id
        /\ AskedOf(controllers)[s].by = k
        /\ AskedOf(controllers)[s].incarnation = t.incarnation
    BY <1>4
  <2> HIDE DEF s, k, was
  <2>3. Abstract!Agree(s)
    BY <1>5, <1>6, <1>7, <1>8, <1>9, <2>1 DEF Abstract!Agree
  <2> QED BY <2>3 DEF s

LEMMA DecideStep ==
  ASSUME Sound(controllers), NEW k \in Connection, NEW tid \in Ids,
         NEW allow \in BOOLEAN, DecideControlTransfer(k, tid, allow)
  PROVE  Abstract!Next
<1> DEFINE t == Transfers[tid]
           d == Expire(controllers, {tid})
<1>1. tid \in DOMAIN Transfers
  BY DEF DecideControlTransfer, CanDecide, Transfers
<1>2. \/ controllers' = d
      \/ /\ StillValid(d, t)
         /\ CanForce(d, t.requester_connection_id, t.splint_id, t.incarnation)
         /\ controllers' = ForceTransfer(d, t.requester_connection_id,
                             t.splint_id, t.incarnation, t.grant_id)
  BY <1>1, DecideIsExpireOrForce DEF DecideControlTransfer, Transfers
<1>3. CASE controllers' = d
  BY <1>3, ExpireGives
<1>4. CASE /\ StillValid(d, t)
           /\ CanForce(d, t.requester_connection_id, t.splint_id, t.incarnation)
           /\ controllers' = ForceTransfer(d, t.requester_connection_id,
                               t.splint_id, t.incarnation, t.grant_id)
  <2>1. Abstract!Agree(t.splint_id)
    BY <1>1, <1>4, GrantAgrees
  <2>2. t.splint_id \in Splint
    BY <1>1, TransferFields DEF Transfers
  <2> QED BY <2>1, <2>2 DEF Abstract!Next
<1> QED BY <1>2, <1>3, <1>4

LEMMA NextSimulates ==
  ASSUME Sound(controllers), [Next]_controllers
  PROVE  [Abstract!Next]_(Abstract!vars)
<1>1. ASSUME NEW k \in Connection, NEW s \in Splint, NEW inc \in Incarnation,
             NEW g \in GrantId,
             \/ AcquireControl(k, s, inc, g)
             \/ RequestControlTransfer(k, s, inc, g)
             \/ ForceControlTransfer(k, s, inc, g)
      PROVE  Abstract!Next
  BY <1>1, AcquireTakes, RequestAsks, ForceSeizes DEF Abstract!Next
<1>2. ASSUME NEW k \in Connection, NEW tid \in Ids, NEW allow \in BOOLEAN,
             DecideControlTransfer(k, tid, allow)
      PROVE  Abstract!Next
  BY <1>2, DecideStep
<1>3. ASSUME NEW k \in Connection, ReleaseControl(k)
      PROVE  Abstract!Next
  BY <1>3, ReleaseGives DEF ReleaseControl, ReleaseConnection
<1>4. ASSUME NEW k \in Connection, CleanupConnection(k)
      PROVE  Abstract!Next
  BY <1>4, RevokeGives
  DEF CleanupConnection, ReleaseConnection, CancelConnectionTransfers
<1>5. ASSUME NEW tid \in Ids, TransferTimeout(tid)
      PROVE  Abstract!Next
  BY <1>5, ExpireGives DEF TransferTimeout
<1>6. ASSUME NEW g \in Grant, RevokeGrantControllers(g)
      PROVE  Abstract!Next
  BY <1>6, RevokeGives DEF RevokeGrantControllers, ReleaseGrant
<1>7. ASSUME NEW connections \in SUBSET Connection, PolicyReload(connections)
      PROVE  Abstract!Next
  BY <1>7, RevokeGives DEF PolicyReload, ReleaseConnections
<1>8. ASSUME NEW s \in Splint, NEW inc \in Incarnation, EndIdentity(s, inc)
      PROVE  Abstract!Next
  BY <1>8, ReleaseGives DEF EndIdentity, ReleaseIdentity
<1>9. ASSUME NEW s \in Splint, NEW inc \in Incarnation, RetireIdentity(s, inc)
      PROVE  Abstract!Next
  BY <1>9, RevokeGives
  DEF RetireIdentity, ReleaseIdentity, CancelIdentityTransfer
<1>10. CASE UNCHANGED controllers
  BY <1>10 DEF Abstract!vars
<1> QED BY <1>1, <1>2, <1>3, <1>4, <1>5, <1>6, <1>7, <1>8, <1>9, <1>10 DEF Next

\* The registry implements exclusive control for every number of connections
\* and Splints: whatever the interleaving, ownership passes directly between
\* connections only by the asked owner's agreement or by force.
THEOREM RegistryImplementsExclusiveControl ==
  Spec => ImplementsExclusiveControl
<1>1. Init => Abstract!Init
  <2>1. ASSUME Init PROVE OwnerOf(controllers) = [s \in Splint |-> None]
    BY <2>1 DEF Init, Default, OwnerOf
  <2>2. ASSUME Init PROVE AskedOf(controllers) = [s \in Splint |-> None]
    BY <2>2 DEF Init, Default, AskedOf
  <2> QED BY <2>1, <2>2 DEF Abstract!Init
<1>2. Sound(controllers) /\ [Next]_controllers
        => [Abstract!Next]_(Abstract!vars)
  BY NextSimulates
<1> QED
  BY <1>1, <1>2, RegistrySound, PTL
  DEF Spec, ImplementsExclusiveControl, Abstract!Spec

=============================================================================

----------------------- MODULE ControlLifecycleProofs -----------------------
(***************************************************************************)
(* What leases and transfers rest on, for any number of connections,       *)
(* Splints, grants and processes: nobody who has left controls anything,   *)
(* and nothing rests on a grant that was taken back.                       *)
(***************************************************************************)
EXTENDS ControlLifecycle, ControllerRegistryProofs, SequenceTheorems

(* Every lease and both sides of every transfer belong to C, under G.      *)
Backed(c, C, G) ==
  /\ \A i \in DOMAIN c.by_id : c.by_id[i].connection_id \in C /\ c.by_id[i].grant_id \in G
  /\ \A i \in DOMAIN c.transfers :
       /\ c.transfers[i].owner_connection_id \in C
       /\ c.transfers[i].requester_connection_id \in C
       /\ c.transfers[i].grant_id \in G

(* A lease of a connection in C under a grant in G is backed. *)
LEMMA AcquireBacked ==
  ASSUME NEW c, Sound(c), NEW C, NEW G, Backed(c, C, G),
         NEW k \in C, NEW s, NEW inc, NEW g \in G
  PROVE  Backed(Acquire(c, k, s, inc, g), C, G)
<1> DEFINE d == Acquire(c, k, s, inc, g)
<1>1. /\ d.by_id = Insert(c.by_id, c.next_id,
                     [id |-> c.next_id, connection_id |-> k, splint_id |-> s,
                      incarnation |-> inc, grant_id |-> g])
      /\ d.transfers = c.transfers
  BY DEF Acquire, Sound, WellTyped
<1> HIDE DEF d
<1>2. Backed(d, C, G)
  BY <1>1 DEF Backed, Insert
<1> QED BY <1>2 DEF d

(* Releasing keeps what remains backed. *)
LEMMA ReleaseBacked ==
  ASSUME NEW c, Sound(c), NEW C, NEW G, Backed(c, C, G), NEW ids
  PROVE  Backed(Release(c, ids), C, G)
<1> DEFINE d == Release(c, ids)
<1>1. /\ d.by_id = Restrict(c.by_id, DOMAIN c.by_id \ (ids \cap DOMAIN c.by_id))
      /\ d.transfers = c.transfers
  BY DEF Release, Sound, WellTyped
<1> HIDE DEF d
<1>2. Backed(d, C, G)
  BY <1>1 DEF Backed, Restrict
<1> QED BY <1>2 DEF d

(* So does expiring transfers. *)
LEMMA ExpireBacked ==
  ASSUME NEW c, Sound(c), NEW C, NEW G, Backed(c, C, G), NEW ids
  PROVE  Backed(Expire(c, ids), C, G)
<1> DEFINE d == Expire(c, ids)
<1>1. /\ d.transfers = Restrict(c.transfers, DOMAIN c.transfers \ (ids \cap DOMAIN c.transfers))
      /\ d.by_id = c.by_id
  BY DEF Expire, Sound, WellTyped
<1> HIDE DEF d
<1>2. Backed(d, C, G)
  BY <1>1 DEF Backed, Restrict
<1> QED BY <1>2 DEF d

(* A transfer is asked of an owner that is backed itself. *)
LEMMA RequestBacked ==
  ASSUME NEW c, Sound(c), NEW C, NEW G, Backed(c, C, G),
         NEW k \in C, NEW s \in Splint, NEW inc, NEW g \in G, CanRequest(c, k, s, inc)
  PROVE  Backed(RequestTransfer(c, k, s, inc, g), C, G)
<1> DEFINE d == RequestTransfer(c, k, s, inc, g)
           owner == c.by_id[c.by_splint[s]].connection_id
<1>1. c.by_splint[s] \in DOMAIN c.by_id
  BY DEF CanRequest, LeasesOf, Sound, LeaseIndexes
<1>2. owner \in C
  BY <1>1 DEF Backed
<1>3. /\ d.transfers = Insert(c.transfers, c.next_transfer_id,
           [id |-> c.next_transfer_id, owner_connection_id |-> owner,
            requester_connection_id |-> k, splint_id |-> s, incarnation |-> inc, grant_id |-> g])
      /\ d.by_id = c.by_id
  BY DEF RequestTransfer, Sound, WellTyped
<1> HIDE DEF d, owner
<1>4. Backed(d, C, G)
  BY <1>2, <1>3 DEF Backed, Insert
<1> QED BY <1>4 DEF d

(* A forced transfer is a release and an acquisition. *)
LEMMA ForceBacked ==
  ASSUME NEW c, Sound(c), NEW C, NEW G, Backed(c, C, G),
         NEW k \in C, NEW s, NEW inc, NEW g \in G
  PROVE  Backed(ForceTransfer(c, k, s, inc, g), C, G)
<1>1. Sound(Release(c, {c.by_splint[s]}))
  BY ReleaseSound
<1>2. Backed(Release(c, {c.by_splint[s]}), C, G)
  BY ReleaseBacked
<1> QED BY <1>1, <1>2, AcquireBacked DEF ForceTransfer

(* The decision hands the lease to a requester that is backed already. *)
LEMMA DecideBacked ==
  ASSUME NEW c, Sound(c), NEW C, NEW G, Backed(c, C, G),
         NEW tid \in DOMAIN c.transfers, NEW allow \in BOOLEAN
  PROVE  Backed(DecideTransfer(c, tid, allow), C, G)
<1> DEFINE t == c.transfers[tid]
           d == Expire(c, {tid})
           e == Release(d, {d.by_splint[t.splint_id]})
<1>1. Sound(d) /\ Backed(d, C, G)
  BY ExpireSound, ExpireBacked
<1>2. Sound(e) /\ Backed(e, C, G)
  <2> HIDE DEF d
  <2> QED BY <1>1, ReleaseSound, ReleaseBacked
<1>3. t.requester_connection_id \in C /\ t.grant_id \in G
  BY DEF Backed
<1>4. \/ DecideTransfer(c, tid, allow) = d
      \/ DecideTransfer(c, tid, allow)
           = Acquire(e, t.requester_connection_id, t.splint_id, t.incarnation, t.grant_id)
  BY DEF DecideTransfer
<1> HIDE DEF t, d, e
<1>5. Backed(Acquire(e, t.requester_connection_id, t.splint_id, t.incarnation, t.grant_id), C, G)
  BY <1>2, <1>3, AcquireBacked
<1> QED BY <1>1, <1>4, <1>5

(* A connection's cleanup leaves nothing of it. *)
LEMMA CleanupBacked ==
  ASSUME NEW c, Sound(c), NEW C, NEW G, Backed(c, C, G), NEW k \in Connection
  PROVE  Backed(CancelConnectionTransfers(ReleaseConnection(c, k), k), C \ {k}, G)
<1> DEFINE d == Release(c, {c.by_connection[k]})
           ids == TransfersOf(d, {k})
           e == Expire(d, ids)
<1>1. /\ d.by_id = Restrict(c.by_id, DOMAIN c.by_id \ ({c.by_connection[k]} \cap DOMAIN c.by_id))
      /\ d.transfers = c.transfers
  BY DEF Release, Sound, WellTyped
<1>0. Sound(d)
  BY ReleaseSound
<1>2. \A i \in DOMAIN d.by_id : d.by_id[i].connection_id \in C \ {k} /\ d.by_id[i].grant_id \in G
  BY <1>1 DEF Backed, Restrict, Sound, LeaseIndexes
<1> HIDE DEF d
<1>3. /\ e.transfers = Restrict(d.transfers, DOMAIN d.transfers \ (ids \cap DOMAIN d.transfers))
      /\ e.by_id = d.by_id
  BY <1>0 DEF Expire, Sound, WellTyped
<1>4. ids = {i \in DOMAIN d.transfers : \/ d.transfers[i].owner_connection_id = k
                                        \/ d.transfers[i].requester_connection_id = k}
  BY DEF TransfersOf
<1> HIDE DEF e, ids
<1>5. \A i \in DOMAIN e.transfers :
        i \in DOMAIN c.transfers /\ i \notin ids /\ e.transfers[i] = c.transfers[i]
  BY <1>1, <1>3 DEF Restrict
<1>6. \A i \in DOMAIN e.transfers : /\ e.transfers[i].owner_connection_id \in C \ {k}
                                    /\ e.transfers[i].requester_connection_id \in C \ {k}
                                    /\ e.transfers[i].grant_id \in G
  BY <1>1, <1>4, <1>5 DEF Backed
<1>7. Backed(e, C \ {k}, G)
  BY <1>2, <1>3, <1>6 DEF Backed
<1> QED BY <1>7 DEF d, e, ids, CancelConnectionTransfers, ReleaseConnection

(* A revocation leaves nothing of its grant. *)
LEMMA RevokeBacked ==
  ASSUME NEW c, Sound(c), NEW C, NEW G, Backed(c, C, G), NEW g
  PROVE  Backed(ReleaseGrant(c, g), C, G \ {g})
<1> DEFINE leases == {i \in DOMAIN c.by_id : c.by_id[i].grant_id = g}
           ids == {i \in DOMAIN c.transfers : c.transfers[i].grant_id = g}
           d == Release(c, leases)
           e == Expire(d, ids)
<1>1. /\ d.by_id = Restrict(c.by_id, DOMAIN c.by_id \ (leases \cap DOMAIN c.by_id))
      /\ d.transfers = c.transfers
  BY DEF Release, Sound, WellTyped
<1>0. Sound(d)
  BY ReleaseSound
<1> HIDE DEF d
<1>2. /\ e.transfers = Restrict(d.transfers, DOMAIN d.transfers \ (ids \cap DOMAIN d.transfers))
      /\ e.by_id = d.by_id
  BY <1>0 DEF Expire, Sound, WellTyped
<1> HIDE DEF e
<1>3. Backed(e, C, G \ {g})
  BY <1>1, <1>2 DEF Backed, Restrict
<1> QED BY <1>3 DEF e, d, ReleaseGrant

-----------------------------------------------------------------------------
(* The invariant.  A request that waits to register belongs to an open     *)
(* connection, and a spawn is the last step of its transaction.            *)

Good == {NoGrant} \cup {g \in Grant : grants[g].status # "ended" \/ g \in ending}

Types ==
  /\ runtimes \in [Splint -> Incarnation \cup {NoRuntime}]
  /\ ended \subseteq Incarnation
  /\ states \in [Splint -> {"Running", "Exited", "Closed"}]
  /\ last \in [Splint -> Incarnation \cup {0}]
  /\ allocated \in 0 .. LastIncarnation
  /\ observers \subseteq Identity
  /\ connected \subseteq Connection
  /\ ending \subseteq Grant
  /\ grants \in [Grant -> [status : {"new", "live", "revoked", "ended"},
                          covers : Identity \cup {WholeLair}]]

RequestsTyped ==
  /\ request = [k \in Connection |-> request[k]]
  /\ \A k \in Connection :
       /\ request[k].op \in {"acquire", "transfer", "force"} =>
            /\ k \in connected /\ request[k].splint \in Splint
            /\ request[k].incarnation \in Incarnation /\ request[k].grant \in GrantId
       /\ request[k].op = "kill" =>
            request[k].splint \in Splint /\ request[k].incarnation \in Incarnation

StepName == {"release", "retire", "revoke", "exited", "unregister", "spawn"}

StepsTyped ==
  /\ transaction \in [splint : Splint \cup {"none"}, incarnation : Incarnation \cup {0},
                      steps : Seq(StepName)]
  /\ transaction.steps # <<>> => transaction.splint \in Splint
  /\ \A i \in 1 .. Len(transaction.steps) : transaction.steps[i] = "spawn" =>
       i = Len(transaction.steps) /\ allocated < LastIncarnation

Registry == Sound(controllers) /\ Backed(controllers, connected, Good)

IInv ==
  /\ Registry
  /\ Types /\ RequestsTyped /\ StepsTyped

(* The invariant holds before the first request. *)
LEMMA InitHolds == Init => IInv
<1> SUFFICES ASSUME Init PROVE IInv
  OBVIOUS
<1>1. Sound(controllers)
  BY DefaultSound DEF Init
<1>2. Backed(controllers, connected, Good)
  BY DEF Init, Backed, Default
<1>3. Types /\ RequestsTyped
  BY LifecycleAssumption DEF Init, Types, RequestsTyped, NoRuntime, Idle
<1>4. StepsTyped
  BY DEF Init, StepsTyped, Free
<1> QED BY <1>1, <1>2, <1>3, <1>4 DEF IInv, Registry

(* A registry that did not change is as good as before, as long as neither *)
(* connections nor grants went. *)
LEMMA StillBacked ==
  ASSUME Registry, controllers' = controllers, connected' = connected, Good \subseteq Good'
  PROVE  Registry'
BY DEF Registry, Backed, Sound, WellTyped, LeaseIndexes, TransferIndexes, CountersAhead

(* A plan of steps, with a spawn only at its end and only when an          *)
(* incarnation is left. *)
Plan(st) ==
  /\ st \in Seq(StepName)
  /\ \A j \in 1 .. Len(st) : st[j] = "spawn" => j = Len(st) /\ allocated < LastIncarnation

(* The plans of the transactions that start no process. *)
LEMMA Plans ==
  ASSUME NEW s, NEW inc
  PROVE  /\ Plan(<<"release", "revoke">>) /\ Plan(<<"retire", "revoke">>) /\ Plan(Finalize)
         /\ Plan(KillSteps(s, inc))
<1>1. Plan(<<"release", "revoke">>) /\ Plan(<<"retire", "revoke">>)
  BY DEF Plan, StepName
<1>2. Plan(Finalize) /\ Plan(<<"unregister">>) /\ Len(Finalize) = 3 /\ Len(<<"unregister">>) = 1
  BY DEF Plan, Finalize, StepName
<1>3. Plan(Finalize \o <<"unregister">>)
  <2> DEFINE f == Finalize
             u == <<"unregister">>
  <2>1. f \in Seq(StepName) /\ u \in Seq(StepName) /\ Len(f) = 3 /\ Len(u) = 1
    BY <1>2 DEF Plan
  <2>2. u[1] = "unregister" /\ \A i \in 1 .. 3 : f[i] # "spawn"
    BY DEF Finalize
  <2> HIDE DEF f, u
  <2>3. /\ f \o u \in Seq(StepName) /\ Len(f \o u) = Len(f) + Len(u)
        /\ \A i \in 1 .. Len(f) + Len(u) : (f \o u)[i] = IF i <= Len(f) THEN f[i] ELSE u[i - Len(f)]
    BY <2>1, ConcatProperties
  <2>4. \A i \in 1 .. 4 : (f \o u)[i] # "spawn" /\ Len(f \o u) = 4
    BY <2>1, <2>2, <2>3
  <2>5. Plan(f \o u)
    BY <2>3, <2>4 DEF Plan
  <2> QED BY <2>5 DEF f, u
<1>4. \/ KillSteps(s, inc) = <<"unregister">>
      \/ KillSteps(s, inc) = Finalize \o <<"unregister">>
  <2>1. <<>> \o <<"unregister">> = <<"unregister">>
    OBVIOUS
  <2>2. KillSteps(s, inc) = (IF Unfinalized(s, inc) THEN Finalize ELSE <<>>) \o <<"unregister">>
    BY DEF KillSteps
  <2>3. CASE Unfinalized(s, inc)
    BY <2>2, <2>3
  <2>4. CASE ~ Unfinalized(s, inc)
    BY <2>1, <2>2, <2>4
  <2> QED BY <2>3, <2>4
<1> QED BY <1>1, <1>2, <1>3, <1>4

(* And those of a relaunch. *)
LEMMA SpawnPlans ==
  ASSUME allocated < LastIncarnation
  PROVE  Plan(<<"spawn">>) /\ Plan(<<"release", "revoke", "spawn">>)
BY DEF Plan, StepName

(* A transaction begins with a plan. *)
LEMMA BeginPlan ==
  ASSUME NEW s \in Splint, NEW inc \in Incarnation \cup {0}, NEW st, Plan(st),
         Begin(s, inc, st), allocated' = allocated
  PROVE  StepsTyped'
BY DEF Begin, StepsTyped, Plan

(* What is left of a plan is a plan, and after a spawn nothing is left. *)
LEMMA StepPlan ==
  ASSUME StepsTyped, NEW name, Step(name),
         allocated' = allocated \/ name = "spawn"
  PROVE  StepsTyped' /\ transaction.splint \in Splint
         /\ (name = "spawn" => allocated < LastIncarnation)
<1> DEFINE st == transaction.steps
<1>1. st \in Seq(StepName) /\ st # <<>> /\ Len(st) \in Nat /\ Len(st) >= 1 /\ Head(st) = st[1]
      /\ st[1] = name /\ transaction.splint \in Splint
  BY DEF StepsTyped, Step, PermitFree
<1>2. Tail(st) \in Seq(StepName) /\ Len(Tail(st)) = Len(st) - 1
      /\ \A j \in 1 .. Len(st) - 1 : Tail(st)[j] = st[j + 1]
  BY <1>1, HeadTailProperties
<1>3. name = "spawn" => Len(st) = 1 /\ allocated < LastIncarnation
  <2>1. 1 \in 1 .. Len(st)
    BY <1>1
  <2> QED BY <1>1, <2>1 DEF StepsTyped
<1>4. CASE Tail(st) = <<>>
  <2>1. transaction' = Free
    BY <1>4 DEF Step
  <2> QED BY <1>1, <1>3, <2>1 DEF StepsTyped, Free
<1>5. CASE Tail(st) # <<>>
  <2>1. name # "spawn"
    <3>1. Len(st) = 1 => Tail(st) = <<>>
      <4>1. Tail(st) # <<>> => Len(Tail(st)) \in Nat \ {0}
        BY <1>2, EmptySeq
      <4> QED BY <1>2, <4>1
    <3> QED BY <1>3, <1>5, <3>1
  <2>2. transaction' = [transaction EXCEPT !.steps = Tail(st)]
    BY <1>5 DEF Step
  <2>3. transaction'.steps = Tail(st) /\ transaction'.splint = transaction.splint
        /\ transaction' \in [splint : Splint \cup {"none"}, incarnation : Incarnation \cup {0},
                             steps : Seq(StepName)]
    BY <1>2, <2>2 DEF StepsTyped
  <2>4. \A j \in 1 .. Len(Tail(st)) : Tail(st)[j] = "spawn" =>
          j = Len(Tail(st)) /\ allocated < LastIncarnation
    <3> SUFFICES ASSUME NEW j \in 1 .. Len(Tail(st)), Tail(st)[j] = "spawn"
                 PROVE j = Len(Tail(st)) /\ allocated < LastIncarnation
      OBVIOUS
    <3>1. st[j + 1] = "spawn" /\ j + 1 \in 1 .. Len(st)
      BY <1>1, <1>2
    <3>2. j + 1 = Len(st) /\ allocated < LastIncarnation
      BY <3>1 DEF StepsTyped
    <3> QED BY <1>1, <1>2, <3>2
  <2> QED BY <1>1, <1>3, <2>1, <2>3, <2>4 DEF StepsTyped
<1> QED BY <1>4, <1>5

(* A step of a connection. *)
LEMMA RequestsKeepTypes ==
  ASSUME NEW k \in Connection, IInv,
    \/ \E s \in Splint, g \in GrantId, op \in {"acquire", "transfer", "force"} : CheckControl(k, op, s, g)
    \/ RegisterControl(k)
    \/ ReleaseControl(k)
    \/ Disconnect(k)
    \/ \E allow \in BOOLEAN : DecideControlTransfer(k, allow)
    \/ \E s \in Splint : BeginKill(k, s)
    \/ FinishKill(k)
  PROVE  Types' /\ RequestsTyped' /\ StepsTyped'
<1> USE LifecycleAssumption DEF IInv, NoRuntime, Idle, Identity, WholeLair
<1>1. ASSUME NEW s \in Splint, NEW g \in GrantId, NEW op \in {"acquire", "transfer", "force"}, CheckControl(k, op, s, g)
      PROVE  Types' /\ RequestsTyped' /\ StepsTyped'
  <2>1. Types'
    BY <1>1 DEF CheckControl, Types
  <2>2. RequestsTyped'
    BY <1>1 DEF CheckControl, Types, RequestsTyped
  <2>3. StepsTyped'
    BY <1>1 DEF CheckControl, Types, StepsTyped
  <2> QED BY <2>1, <2>2, <2>3
<1>2. CASE RegisterControl(k)
  <2>1. Types'
    BY <1>2 DEF RegisterControl, Types
  <2>2. RequestsTyped'
    BY <1>2 DEF RegisterControl, Types, RequestsTyped
  <2>3. StepsTyped'
    BY <1>2 DEF RegisterControl, Types, StepsTyped
  <2> QED BY <2>1, <2>2, <2>3
<1>3. CASE ReleaseControl(k)
  <2>1. Types'
    BY <1>3 DEF ReleaseControl, Types
  <2>2. RequestsTyped'
    BY <1>3 DEF ReleaseControl, Types, RequestsTyped
  <2>3. StepsTyped'
    BY <1>3 DEF ReleaseControl, Types, StepsTyped
  <2> QED BY <2>1, <2>2, <2>3
<1>4. CASE Disconnect(k)
  <2>1. Types'
    BY <1>4 DEF Disconnect, Types
  <2>2. RequestsTyped'
    BY <1>4 DEF Disconnect, Types, RequestsTyped
  <2>3. StepsTyped'
    BY <1>4 DEF Disconnect, Types, StepsTyped
  <2> QED BY <2>1, <2>2, <2>3
<1>5. ASSUME NEW allow \in BOOLEAN, DecideControlTransfer(k, allow)
      PROVE  Types' /\ RequestsTyped' /\ StepsTyped'
  <2>1. Types'
    BY <1>5 DEF DecideControlTransfer, Types
  <2>2. RequestsTyped'
    BY <1>5 DEF DecideControlTransfer, Types, RequestsTyped
  <2>3. StepsTyped'
    BY <1>5 DEF DecideControlTransfer, Types, StepsTyped
  <2> QED BY <2>1, <2>2, <2>3
<1>6. ASSUME NEW s \in Splint, BeginKill(k, s)
      PROVE  Types' /\ RequestsTyped' /\ StepsTyped'
  <2>1. Types'
    BY <1>6 DEF BeginKill, Types
  <2>2. RequestsTyped'
    BY <1>6 DEF BeginKill, Types, RequestsTyped
  <2>3. StepsTyped'
    BY <1>6, Plans, BeginPlan DEF BeginKill, Types
  <2> QED BY <2>1, <2>2, <2>3
<1>7. CASE FinishKill(k)
  <2>1. Types'
    BY <1>7 DEF FinishKill, Types
  <2>2. RequestsTyped'
    BY <1>7 DEF FinishKill, Types, RequestsTyped
  <2>3. StepsTyped'
    BY <1>7, Plans, BeginPlan DEF FinishKill, RequestsTyped
  <2> QED BY <2>1, <2>2, <2>3
<1> QED BY <1>1, <1>2, <1>3, <1>4, <1>5, <1>6, <1>7

(* A step of a grant. *)
LEMMA GrantsKeepTypes ==
  ASSUME NEW g \in Grant, IInv,
    \/ \E s \in Splint : IssueGrant(g, s)
    \/ EndGrant(g)
    \/ RevokeGrantControllers(g)
  PROVE  Types' /\ RequestsTyped' /\ StepsTyped'
<1> USE LifecycleAssumption DEF IInv, NoRuntime, Idle, Identity, WholeLair
<1>1. ASSUME NEW s \in Splint, IssueGrant(g, s)
      PROVE  Types' /\ RequestsTyped' /\ StepsTyped'
  <2>1. Types'
    BY <1>1 DEF IssueGrant, Types
  <2>2. RequestsTyped'
    BY <1>1 DEF IssueGrant, Types, RequestsTyped
  <2>3. StepsTyped'
    BY <1>1 DEF IssueGrant, Types, StepsTyped
  <2> QED BY <2>1, <2>2, <2>3
<1>2. CASE EndGrant(g)
  <2>1. Types'
    BY <1>2 DEF EndGrant, Types
  <2>2. RequestsTyped'
    BY <1>2 DEF EndGrant, Types, RequestsTyped
  <2>3. StepsTyped'
    BY <1>2 DEF EndGrant, Types, StepsTyped
  <2> QED BY <2>1, <2>2, <2>3
<1>3. CASE RevokeGrantControllers(g)
  <2>1. Types'
    BY <1>3 DEF RevokeGrantControllers, Types
  <2>2. RequestsTyped'
    BY <1>3 DEF RevokeGrantControllers, Types, RequestsTyped
  <2>3. StepsTyped'
    BY <1>3 DEF RevokeGrantControllers, Types, StepsTyped
  <2> QED BY <2>1, <2>2, <2>3
<1> QED BY <1>1, <1>2, <1>3

(* A step of a process, or the begin of a transaction. *)
LEMMA ProcessesKeepTypes ==
  ASSUME NEW s \in Splint, IInv,
    \/ ProcessExit(s)
    \/ Relaunch(s)
    \/ CloseSplint(s)
    \/ TerminateLair(s)
    \/ \E inc \in Incarnation : ObserveExit(s, inc)
  PROVE  Types' /\ RequestsTyped' /\ StepsTyped'
<1> USE LifecycleAssumption DEF IInv, NoRuntime, Idle, Identity, WholeLair
<1>1. CASE ProcessExit(s)
  <2>1. Types'
    BY <1>1 DEF ProcessExit, Types
  <2>2. RequestsTyped'
    BY <1>1 DEF ProcessExit, Types, RequestsTyped
  <2>3. StepsTyped'
    BY <1>1 DEF ProcessExit, Types, StepsTyped
  <2> QED BY <2>1, <2>2, <2>3
<1>2. CASE Relaunch(s)
  <2>1. Types'
    BY <1>2 DEF Relaunch, Types
  <2>2. RequestsTyped'
    BY <1>2 DEF Relaunch, Types, RequestsTyped
  <2>3. StepsTyped'
    BY <1>2, SpawnPlans, BeginPlan DEF Relaunch, Types
  <2> QED BY <2>1, <2>2, <2>3
<1>3. CASE CloseSplint(s)
  <2>1. Types'
    BY <1>3 DEF CloseSplint, Types
  <2>2. RequestsTyped'
    BY <1>3 DEF CloseSplint, Types, RequestsTyped
  <2>3. StepsTyped'
    BY <1>3 DEF CloseSplint, Types, StepsTyped
  <2> QED BY <2>1, <2>2, <2>3
<1>4. CASE TerminateLair(s)
  <2>1. Types'
    BY <1>4 DEF TerminateLair, Types
  <2>2. RequestsTyped'
    BY <1>4 DEF TerminateLair, Types, RequestsTyped
  <2>3. StepsTyped'
    BY <1>4, Plans, BeginPlan DEF TerminateLair, Types
  <2> QED BY <2>1, <2>2, <2>3
<1>5. ASSUME NEW inc \in Incarnation, ObserveExit(s, inc)
      PROVE  Types' /\ RequestsTyped' /\ StepsTyped'
  <2>1. Types'
    BY <1>5 DEF ObserveExit, Types
  <2>2. RequestsTyped'
    BY <1>5 DEF ObserveExit, Types, RequestsTyped
  <2>3. StepsTyped'
    BY <1>5, Plans, BeginPlan DEF ObserveExit, StepsTyped
  <2> QED BY <2>1, <2>2, <2>3
<1> QED BY <1>1, <1>2, <1>3, <1>4, <1>5

(* A step of a transaction, or a transfer that times out. *)
LEMMA TransactionsKeepTypes ==
  ASSUME IInv,
    \/ TransferTimeout
    \/ ReleaseStep
    \/ RetireStep
    \/ RevokeStep
    \/ ExitedStep
    \/ UnregisterStep
    \/ SpawnStep
  PROVE  Types' /\ RequestsTyped' /\ StepsTyped'
<1> USE LifecycleAssumption DEF IInv, NoRuntime, Idle, Identity, WholeLair
<1>1. CASE TransferTimeout
  <2>1. Types'
    BY <1>1 DEF TransferTimeout, Types
  <2>2. RequestsTyped'
    BY <1>1 DEF TransferTimeout, Types, RequestsTyped
  <2>3. StepsTyped'
    BY <1>1 DEF TransferTimeout, Types, StepsTyped
  <2> QED BY <2>1, <2>2, <2>3
<1>2. CASE ReleaseStep
  <2>1. Types'
    BY <1>2 DEF ReleaseStep, Types
  <2>2. RequestsTyped'
    BY <1>2 DEF ReleaseStep, Types, RequestsTyped
  <2>3. StepsTyped'
    BY <1>2, StepPlan DEF ReleaseStep
  <2> QED BY <2>1, <2>2, <2>3
<1>3. CASE RetireStep
  <2>1. Types'
    BY <1>3 DEF RetireStep, Types
  <2>2. RequestsTyped'
    BY <1>3 DEF RetireStep, Types, RequestsTyped
  <2>3. StepsTyped'
    BY <1>3, StepPlan DEF RetireStep
  <2> QED BY <2>1, <2>2, <2>3
<1>4. CASE RevokeStep
  <2>1. Types'
    BY <1>4 DEF RevokeStep, Types
  <2>2. RequestsTyped'
    BY <1>4 DEF RevokeStep, Types, RequestsTyped
  <2>3. StepsTyped'
    BY <1>4, StepPlan DEF RevokeStep
  <2> QED BY <2>1, <2>2, <2>3
<1>5. CASE ExitedStep
  <2>1. Types'
    BY <1>5 DEF ExitedStep, Types
  <2>2. RequestsTyped'
    BY <1>5 DEF ExitedStep, Types, RequestsTyped
  <2>3. StepsTyped'
    BY <1>5, StepPlan DEF ExitedStep
  <2> QED BY <2>1, <2>2, <2>3
<1>6. CASE UnregisterStep
  <2>1. Types'
    BY <1>6 DEF UnregisterStep, Types
  <2>2. RequestsTyped'
    BY <1>6 DEF UnregisterStep, Types, RequestsTyped
  <2>3. StepsTyped'
    BY <1>6, StepPlan DEF UnregisterStep
  <2> QED BY <2>1, <2>2, <2>3
<1>7. CASE SpawnStep
  <2>1. Types'
    <3>1. transaction.splint \in Splint /\ allocated + 1 \in Incarnation /\ allocated' = allocated + 1
      BY <1>7, StepPlan DEF SpawnStep, Types
    <3>2. UNCHANGED <<ended, connected, ending, grants>>
      BY <1>7 DEF SpawnStep
    <3> DEFINE n == allocated + 1
               s == transaction.splint
    <3>3. \/ /\ runtimes' = [runtimes EXCEPT ![s] = n] /\ states' = [states EXCEPT ![s] = "Running"]
             /\ last' = [last EXCEPT ![s] = n] /\ observers' = observers \cup {<<s, n>>}
          \/ UNCHANGED <<runtimes, states, last, observers>>
      BY <1>7 DEF SpawnStep
    <3>4. n \in 0 .. LastIncarnation
      BY <3>1
    <3> HIDE DEF n, s
    <3>5. runtimes' \in [Splint -> Incarnation \cup {NoRuntime}] /\ last' \in [Splint -> Incarnation \cup {0}]
      BY <3>1, <3>3 DEF Types, n, s
    <3>6. states' \in [Splint -> {"Running", "Exited", "Closed"}] /\ observers' \subseteq Identity
      BY <3>1, <3>3 DEF Types, n, s
    <3> QED BY <3>1, <3>2, <3>4, <3>5, <3>6 DEF Types, n
  <2>2. RequestsTyped'
    BY <1>7 DEF SpawnStep, Types, RequestsTyped
  <2>3. StepsTyped'
    BY <1>7, StepPlan DEF SpawnStep
  <2> QED BY <2>1, <2>2, <2>3
<1> QED BY <1>1, <1>2, <1>3, <1>4, <1>5, <1>6, <1>7

-----------------------------------------------------------------------------
(* A registration is backed: the connection is open and the grant is       *)
(* looked up again under the controller lock. *)
LEMMA RegisterBacked ==
  ASSUME IInv, NEW k \in Connection, RegisterControl(k)
  PROVE  Sound(controllers') /\ Backed(controllers', connected, Good)
<1> DEFINE r == request[k]
           c == controllers
<1>0. Sound(c) /\ Backed(c, connected, Good)
  BY DEF IInv, Registry
<1>1. /\ k \in connected /\ r.splint \in Splint /\ r.incarnation \in Incarnation /\ r.grant \in GrantId
      /\ r.op \in {"acquire", "transfer", "force"}
  BY DEF RegisterControl, IInv, RequestsTyped
<1>2. CASE ~ Live(r.grant)
  <2>1. controllers' = c
    BY <1>2 DEF RegisterControl
  <2> QED BY <1>0, <2>1
<1>3. CASE Live(r.grant)
  <2>1. r.grant \in Good
    BY <1>1, <1>3 DEF Live, Good, GrantId
  <2>2. controllers' = Register(c, k, r)
    BY <1>3 DEF RegisterControl
  <2>3. \/ CanAcquire(c, k, r.splint) /\ controllers' = Acquire(c, k, r.splint, r.incarnation, r.grant)
        \/ CanRequest(c, k, r.splint, r.incarnation)
             /\ controllers' = RequestTransfer(c, k, r.splint, r.incarnation, r.grant)
        \/ CanForce(c, k, r.splint, r.incarnation)
             /\ controllers' = ForceTransfer(c, k, r.splint, r.incarnation, r.grant)
        \/ controllers' = c
    BY <2>2 DEF Register
  <2> HIDE DEF r, c
  <2>4. CASE CanAcquire(c, k, r.splint) /\ controllers' = Acquire(c, k, r.splint, r.incarnation, r.grant)
    BY <1>0, <1>1, <2>1, <2>4, AcquireSound, AcquireBacked
  <2>5. CASE CanRequest(c, k, r.splint, r.incarnation)
             /\ controllers' = RequestTransfer(c, k, r.splint, r.incarnation, r.grant)
    BY <1>0, <1>1, <2>1, <2>5, RequestSound, RequestBacked
  <2>6. CASE CanForce(c, k, r.splint, r.incarnation)
             /\ controllers' = ForceTransfer(c, k, r.splint, r.incarnation, r.grant)
    BY <1>0, <1>1, <2>1, <2>6, ForceSound, ForceBacked
  <2> QED BY <1>0, <2>3, <2>4, <2>5, <2>6
<1> QED BY <1>2, <1>3

(* The steps that change the registry keep it sound and backed. *)
LEMMA RegistryChanges ==
  ASSUME IInv,
    \/ \E k \in Connection : \/ RegisterControl(k) \/ ReleaseControl(k)
                             \/ \E allow \in BOOLEAN : DecideControlTransfer(k, allow)
    \/ TransferTimeout \/ ReleaseStep \/ RetireStep
  PROVE  Registry'
<1> DEFINE c == controllers
<1>0. Sound(c) /\ Backed(c, connected, Good)
  BY DEF IInv, Registry
<1>1. connected' = connected /\ Good' = Good
  BY DEF RegisterControl, ReleaseControl, DecideControlTransfer, TransferTimeout, ReleaseStep,
    RetireStep, Good
<1>2. Sound(controllers') /\ Backed(controllers', connected, Good)
  <2>1. CASE \E k \in Connection : RegisterControl(k)
    BY <2>1, RegisterBacked
  <2>2. CASE (\E k \in Connection : ReleaseControl(k)) \/ ReleaseStep
    <3>1. PICK ids : controllers' = Release(c, ids)
      BY <2>2 DEF ReleaseControl, ReleaseConnection, ReleaseStep, ReleaseIdentity
    <3> HIDE DEF c
    <3> QED BY <1>0, <3>1, ReleaseSound, ReleaseBacked
  <2>3. ASSUME NEW k \in Connection, NEW allow \in BOOLEAN, DecideControlTransfer(k, allow)
        PROVE  Sound(controllers') /\ Backed(controllers', connected, Good)
    <3>1. PICK tid \in DOMAIN c.transfers : controllers' = DecideTransfer(c, tid, allow)
      BY <2>3 DEF DecideControlTransfer
    <3> HIDE DEF c
    <3> QED BY <1>0, <3>1, DecideSound, DecideBacked
  <2>4. CASE TransferTimeout
    <3>1. PICK ids : controllers' = Expire(c, ids)
      BY <2>4 DEF TransferTimeout
    <3> HIDE DEF c
    <3> QED BY <1>0, <3>1, ExpireSound, ExpireBacked
  <2>5. CASE RetireStep
    <3>1. PICK ids, tids : controllers' = Expire(Release(c, ids), tids)
      BY <2>5 DEF RetireStep, CancelIdentityTransfer, ReleaseIdentity
    <3> HIDE DEF c
    <3>2. Sound(Release(c, ids)) /\ Backed(Release(c, ids), connected, Good)
      BY <1>0, ReleaseSound, ReleaseBacked
    <3> QED BY <3>1, <3>2, ExpireSound, ExpireBacked
  <2> QED BY <2>1, <2>2, <2>3, <2>4, <2>5
<1> QED BY <1>1, <1>2 DEF Registry

(* A connection that leaves takes its lease and its transfers with it. *)
LEMMA DisconnectKeeps == ASSUME IInv, NEW k \in Connection, Disconnect(k) PROVE Registry'
<1> DEFINE c == controllers
<1>1. controllers' = CancelConnectionTransfers(ReleaseConnection(c, k), k)
      /\ connected' = connected \ {k} /\ Good' = Good
  BY DEF Disconnect, Good
<1>2. Sound(c) /\ Backed(c, connected, Good)
  BY DEF IInv, Registry
<1> HIDE DEF c
<1>3. Sound(ReleaseConnection(c, k))
  BY <1>2, ReleaseSound DEF ReleaseConnection
<1>4. Sound(CancelConnectionTransfers(ReleaseConnection(c, k), k))
  BY <1>3, ExpireSound DEF CancelConnectionTransfers
<1>5. Backed(CancelConnectionTransfers(ReleaseConnection(c, k), k), connected \ {k}, Good)
  BY <1>2, CleanupBacked
<1> QED BY <1>1, <1>4, <1>5 DEF Registry

(* So does a grant. *)
LEMMA RevokeKeeps == ASSUME IInv, NEW g \in Grant, RevokeGrantControllers(g) PROVE Registry'
<1> DEFINE c == controllers
<1>1. controllers' = ReleaseGrant(c, g) /\ connected' = connected /\ Good \ {g} \subseteq Good'
  BY DEF RevokeGrantControllers, Good
<1>2. Sound(c) /\ Backed(c, connected, Good)
  BY DEF IInv, Registry
<1> HIDE DEF c
<1>3. PICK ids, tids : ReleaseGrant(c, g) = Expire(Release(c, ids), tids)
  BY DEF ReleaseGrant
<1>4. Sound(ReleaseGrant(c, g))
  BY <1>2, <1>3, ReleaseSound, ExpireSound
<1>5. Backed(ReleaseGrant(c, g), connected, Good \ {g})
  BY <1>2, RevokeBacked
<1>6. Backed(ReleaseGrant(c, g), connected, Good')
  BY <1>1, <1>5 DEF Backed
<1> QED BY <1>1, <1>4, <1>6 DEF Registry

(* The other steps leave the registry alone and take no good grant away:   *)
(* one that ends is good until its controllers are released. *)
LEMMA RegistryUntouched ==
  ASSUME IInv,
    \/ \E k \in Connection : \/ \E s \in Splint, g \in GrantId, op \in {"acquire", "transfer", "force"} :
                                  CheckControl(k, op, s, g)
                             \/ \E s \in Splint : BeginKill(k, s)
                             \/ FinishKill(k)
    \/ \E g \in Grant : (\E s \in Splint : IssueGrant(g, s)) \/ EndGrant(g)
    \/ \E s \in Splint : \/ ProcessExit(s) \/ Relaunch(s) \/ CloseSplint(s) \/ TerminateLair(s)
                         \/ \E inc \in Incarnation : ObserveExit(s, inc)
    \/ RevokeStep \/ ExitedStep \/ UnregisterStep \/ SpawnStep
  PROVE  Registry'
<1>1. controllers' = controllers /\ connected' = connected
  BY DEF CheckControl, BeginKill, FinishKill, IssueGrant, EndGrant, ProcessExit, Relaunch,
    CloseSplint, TerminateLair, ObserveExit, RevokeStep, ExitedStep, UnregisterStep, SpawnStep
<1>2. Good \subseteq Good'
  <2>1. ASSUME NEW g \in Grant, (\E s \in Splint : IssueGrant(g, s)) \/ EndGrant(g)
        PROVE  Good \subseteq Good'
    BY <2>1 DEF IssueGrant, EndGrant, Good, IInv, Types
  <2>2. CASE RevokeStep
    BY <2>2 DEF RevokeStep, Good, IInv, Types
  <2>3. ASSUME UNCHANGED <<grants, ending>> PROVE Good \subseteq Good'
    BY <2>3 DEF Good
  <2> QED BY <2>1, <2>2, <2>3 DEF CheckControl, BeginKill, FinishKill, ProcessExit, Relaunch,
    CloseSplint, TerminateLair, ObserveExit, ExitedStep, UnregisterStep, SpawnStep
<1> QED BY <1>1, <1>2, StillBacked DEF IInv

(* Every step keeps the invariant. *)
LEMMA NextKeeps == IInv /\ [Next]_vars => IInv'
<1> SUFFICES ASSUME IInv, [Next]_vars PROVE IInv'
  OBVIOUS
<1>1. CASE UNCHANGED vars
  <2>1. Good' = Good
    BY <1>1 DEF vars, Good
  <2>2. Registry'
    BY <1>1, <2>1, StillBacked DEF vars, IInv
  <2> QED BY <1>1, <2>2 DEF vars, IInv, Types, RequestsTyped, StepsTyped
<1>2. ASSUME NEW k \in Connection,
             \/ RegisterControl(k) \/ ReleaseControl(k) \/ Disconnect(k) \/ FinishKill(k)
             \/ \E allow \in BOOLEAN : DecideControlTransfer(k, allow)
             \/ \E s \in Splint : BeginKill(k, s)
             \/ \E s \in Splint, g \in GrantId, op \in {"acquire", "transfer", "force"} :
                  CheckControl(k, op, s, g)
      PROVE  IInv'
  <2>1. Registry'
    <3>1. CASE RegisterControl(k) \/ ReleaseControl(k) \/ \E allow \in BOOLEAN : DecideControlTransfer(k, allow)
      BY <3>1, RegistryChanges
    <3>2. CASE Disconnect(k)
      BY <3>2, DisconnectKeeps
    <3> QED BY <1>2, <3>1, <3>2, RegistryUntouched
  <2>2. Types' /\ RequestsTyped' /\ StepsTyped'
    BY <1>2, RequestsKeepTypes
  <2> QED BY <2>1, <2>2 DEF IInv
<1>3. ASSUME NEW g \in Grant, (\E s \in Splint : IssueGrant(g, s)) \/ EndGrant(g) \/ RevokeGrantControllers(g)
      PROVE  IInv'
  <2>1. Registry'
    <3>1. CASE RevokeGrantControllers(g)
      BY <3>1, RevokeKeeps
    <3> QED BY <1>3, <3>1, RegistryUntouched
  <2>2. Types' /\ RequestsTyped' /\ StepsTyped'
    BY <1>3, GrantsKeepTypes
  <2> QED BY <2>1, <2>2 DEF IInv
<1>4. ASSUME NEW s \in Splint,
             \/ ProcessExit(s) \/ Relaunch(s) \/ CloseSplint(s) \/ TerminateLair(s)
             \/ \E inc \in Incarnation : ObserveExit(s, inc)
      PROVE  IInv'
  <2>1. Registry'
    BY <1>4, RegistryUntouched
  <2>2. Types' /\ RequestsTyped' /\ StepsTyped'
    BY <1>4, ProcessesKeepTypes
  <2> QED BY <2>1, <2>2 DEF IInv
<1>5. CASE TransferTimeout \/ TransactionStep
  <2>1. Registry'
    BY <1>5, RegistryChanges, RegistryUntouched DEF TransactionStep
  <2>2. Types' /\ RequestsTyped' /\ StepsTyped'
    BY <1>5, TransactionsKeepTypes DEF TransactionStep
  <2> QED BY <2>1, <2>2 DEF IInv
<1> QED BY <1>1, <1>2, <1>3, <1>4, <1>5 DEF Next

(* The registry is sound, and everything in it backed, in every state. *)
THEOREM RegistryIsBacked == Spec => []IInv
BY InitHolds, NextKeeps, PTL DEF Spec

(* The state keeps its types. *)
THEOREM TypesHold == Spec => []TypeOK
<1>1. IInv => TypeOK
  BY DEF IInv, Registry, Sound, Types, TypeOK
<1> QED BY RegistryIsBacked, <1>1, PTL

(* For any number of connections, Splints, grants and processes: every     *)
(* lease and both sides of every transfer belong to open connections.      *)
THEOREM NobodyGoneControls == Spec => []ControlNeedsConnection
<1>1. IInv => ControlNeedsConnection
  BY DEF IInv, Registry, Backed, ControlNeedsConnection, Leases, Transfers
<1> QED BY RegistryIsBacked, <1>1, PTL

(* And nothing rests on a grant whose controllers were released: the check *)
(* under the controller lock closes the gap since the authorization.       *)
THEOREM NothingOutlivesItsGrant == Spec => []EndedGrantLeavesNothing
<1>1. IInv => EndedGrantLeavesNothing
  BY LifecycleAssumption DEF IInv, Registry, Backed, EndedGrantLeavesNothing, Leases, Transfers, Good
<1> QED BY RegistryIsBacked, <1>1, PTL

=============================================================================

-------------------------- MODULE ControlLifecycle --------------------------
(***************************************************************************)
(* Controller leases against the life of the processes they control: the   *)
(* controller registry composed with the runtime registry, the topology's  *)
(* Splint states, runtime grants and client connections                    *)
(* (crates/splinterd/src/main.rs).                                         *)
(*                                                                         *)
(* The daemon is async: each lock is taken and dropped on its own, so a    *)
(* handler is a sequence of steps that other handlers interleave with.     *)
(*   - A connection serves one request at a time.  AcquireControl and its  *)
(*     siblings check the runtime registry in one step and register under  *)
(*     the controller lock in a later one; `request` holds what was        *)
(*     checked.  KillSplint waits, between its two transactions, in        *)
(*     `request` as well.                                                  *)
(*   - Topology handlers hold one permit.  `transaction` is the holder:    *)
(*     the identity it works on and the steps it has left, in code order.  *)
(***************************************************************************)
EXTENDS ControllerRegistry, Sequences

CONSTANTS
  LairGrant,      \* the grants that cover a whole Lair; the others name one
                  \* Splint at one incarnation
  LastIncarnation, \* bound on how many processes are started
  PersistMayFail  \* whether writing the topology may fail

ASSUME LifecycleAssumption ==
  /\ LairGrant \subseteq Grant /\ NoGrant \notin Grant
  /\ LastIncarnation \in Nat /\ Incarnation = 1 .. LastIncarnation

VARIABLES
  controllers,  \* the controller registry
  runtimes,     \* RuntimeRegistry.entries: incarnation, or NoRuntime
  ended,        \* incarnations whose process has exited
  states,       \* the topology's view of each Splint
  last,         \* last_incarnation of each Splint, 0 before its first start
  allocated,    \* the incarnation allocator's last value
  observers,    \* incarnations whose exit observer is still waiting
  connected,    \* open connections
  request,      \* per connection, the request it is in the middle of
  transaction,  \* holder of the topology permit
  grants,       \* per grant: not issued, what it covers, or how it ended
  ending        \* grants removed from their source whose controllers are
                \* about to be released

vars == <<controllers, runtimes, ended, states, last, allocated, observers,
          connected, request, transaction, grants, ending>>

NoRuntime == 0
Identity == Splint \X Incarnation

Idle == [op |-> "idle"]
Free == [splint |-> "none", incarnation |-> 0, steps |-> <<>>]

WholeLair == <<>>

\* Mutant: the authorization made earlier is trusted.
LiveWhenAuthorized(g) == TRUE

\* access_inventory::grant_live.
Live(g) == g = NoGrant \/ grants[g].status = "live"
PermitFree == transaction.steps = <<>>

\* Authorization of a control request: first-party and policy authority need
\* no grant; a Splint grant is only looked up by AcquireControl.
Covers(g, op, s, inc) ==
  \/ g = NoGrant
  \/ /\ g \in Grant /\ grants[g].status = "live"
     /\ \/ grants[g].covers = WholeLair
        \/ op = "acquire" /\ grants[g].covers = <<s, inc>>

Init ==
  /\ controllers = Default
  /\ runtimes = [s \in Splint |-> NoRuntime]
  /\ ended = {}
  /\ states = [s \in Splint |-> "Exited"]
  /\ last = [s \in Splint |-> 0]
  /\ allocated = 0
  /\ observers = {}
  /\ connected = Connection
  /\ request = [k \in Connection |-> Idle]
  /\ transaction = Free
  /\ grants = [g \in Grant |-> [status |-> "new", covers |-> WholeLair]]
  /\ ending = {}

-----------------------------------------------------------------------------
(* Control requests.  First step: authorize, then current_handle. *)

CheckControl(k, op, s, g) ==
  /\ k \in connected /\ request[k] = Idle
  /\ runtimes[s] # NoRuntime
  /\ Covers(g, op, s, runtimes[s])
  /\ request' = [request EXCEPT ![k] =
       [op |-> op, splint |-> s, incarnation |-> runtimes[s], grant |-> g]]
  /\ UNCHANGED <<controllers, runtimes, ended, states, last, allocated, observers,
                 connected, transaction, grants, ending>>

\* Second step, under the controller lock: the grant is checked again there,
\* the incarnation is not.
Register(c, k, r) ==
  CASE r.op = "acquire" /\ CanAcquire(c, k, r.splint) ->
         Acquire(c, k, r.splint, r.incarnation, r.grant)
    [] r.op = "transfer" /\ CanRequest(c, k, r.splint, r.incarnation) ->
         RequestTransfer(c, k, r.splint, r.incarnation, r.grant)
    [] r.op = "force" /\ CanForce(c, k, r.splint, r.incarnation) ->
         ForceTransfer(c, k, r.splint, r.incarnation, r.grant)
    [] OTHER -> c

RegisterControl(k) ==
  /\ request[k].op \in {"acquire", "transfer", "force"}
  /\ controllers' = IF Live(request[k].grant)
                    THEN Register(controllers, k, request[k])
                    ELSE controllers
  /\ request' = [request EXCEPT ![k] = Idle]
  /\ UNCHANGED <<runtimes, ended, states, last, allocated, observers, connected,
                 transaction, grants, ending>>

ReleaseControl(k) ==
  /\ k \in connected /\ request[k] = Idle
  /\ controllers.by_connection[k] # NoId
  /\ controllers' = ReleaseConnection(controllers, k)
  /\ UNCHANGED <<runtimes, ended, states, last, allocated, observers, connected,
                 request, transaction, grants, ending>>

DecideControlTransfer(k, allow) ==
  /\ k \in connected /\ request[k] = Idle
  /\ \E tid \in DOMAIN controllers.transfers :
       /\ CanDecide(controllers, k, tid)
       /\ controllers' = DecideTransfer(controllers, tid, allow)
  /\ UNCHANGED <<runtimes, ended, states, last, allocated, observers, connected,
                 request, transaction, grants, ending>>

\* Mutant: the timer only ends a transfer whose Splint is still controlled.
TransferTimeoutWhileOwned ==
  /\ \E tid \in DOMAIN controllers.transfers :
       /\ controllers.by_splint[controllers.transfers[tid].splint_id] # NoId
       /\ controllers' = Expire(controllers, {tid})
  /\ UNCHANGED <<runtimes, ended, states, last, allocated, observers,
                 connected, request, transaction, grants, ending>>

TransferTimeout ==
  /\ \E tid \in DOMAIN controllers.transfers :
       controllers' = Expire(controllers, {tid})
  /\ UNCHANGED <<runtimes, ended, states, last, allocated, observers, connected,
                 request, transaction, grants, ending>>

\* cleanup_connection runs once the connection's request loop has ended.
Disconnect(k) ==
  /\ k \in connected /\ request[k] = Idle
  /\ connected' = connected \ {k}
  /\ controllers' =
       CancelConnectionTransfers(ReleaseConnection(controllers, k), k)
  /\ UNCHANGED <<runtimes, ended, states, last, allocated, observers, request,
                 transaction, grants, ending>>

-----------------------------------------------------------------------------
(* Grants *)

\* Consent stored for a whole Lair, or for one Splint's current process.
IssueGrant(g, s) ==
  /\ grants[g].status = "new"
  /\ runtimes[s] # NoRuntime
  /\ grants' = [grants EXCEPT ![g] =
       [status |-> "live",
        covers |-> IF g \in LairGrant THEN WholeLair ELSE <<s, runtimes[s]>>]]
  /\ UNCHANGED <<controllers, runtimes, ended, states, last, allocated, observers,
                 connected, request, transaction, ending>>

\* A revoke, or the expiry timer, which fires once even for a grant that was
\* revoked before: the grant leaves its source ...
EndGrant(g) ==
  /\ grants[g].status \in {"live", "revoked"}
  /\ grants' = [grants EXCEPT ![g].status = "ended"]
  /\ ending' = ending \cup {g}
  /\ UNCHANGED <<controllers, runtimes, ended, states, last, allocated, observers,
                 connected, request, transaction>>

\* ... and then its controllers are released (revoke_grant_controllers).
RevokeGrantControllers(g) ==
  /\ g \in ending
  /\ controllers' = ReleaseGrant(controllers, g)
  /\ ending' = ending \ {g}
  /\ UNCHANGED <<runtimes, ended, states, last, allocated, observers, connected,
                 request, transaction, grants>>

-----------------------------------------------------------------------------
(* Processes and the transactions that end or start them. *)

ProcessExit(s) ==
  /\ runtimes[s] # NoRuntime /\ runtimes[s] \notin ended
  /\ ended' = ended \cup {runtimes[s]}
  /\ UNCHANGED <<controllers, runtimes, states, last, allocated, observers,
                 connected, request, transaction, grants, ending>>

Begin(s, inc, steps) ==
  /\ PermitFree
  /\ transaction' = [splint |-> s, incarnation |-> inc, steps |-> steps]

\* Mutant: the exit is not recorded in the topology.
FinalizeForgetsState == <<"release", "revoke">>

Finalize == <<"release", "revoke", "exited">>

\* finalize_exit_if_current, called by the exit observer.  It gives up when
\* another process is registered, and its topology step fails on a Splint that
\* is gone.
ObserveExit(s, inc) ==
  /\ <<s, inc>> \in observers /\ inc \in ended
  /\ observers' = observers \ {<<s, inc>>}
  /\ IF runtimes[s] \in {inc, NoRuntime}
     THEN Begin(s, inc, Finalize)
     ELSE PermitFree /\ UNCHANGED transaction
  /\ UNCHANGED <<controllers, runtimes, ended, states, last, allocated, connected,
                 request, grants, ending>>

\* KillSplint, first transaction: revoke authority over the live process.
BeginKill(k, s) ==
  /\ k \in connected /\ request[k] = Idle
  /\ runtimes[s] # NoRuntime
  /\ Begin(s, runtimes[s], <<"release", "revoke">>)
  /\ request' = [request EXCEPT ![k] =
       [op |-> "kill", splint |-> s, incarnation |-> runtimes[s]]]
  /\ UNCHANGED <<controllers, runtimes, ended, states, last, allocated, observers,
                 connected, grants, ending>>

Unfinalized(s, inc) ==
  states[s] = "Running" /\ runtimes[s] \in {inc, NoRuntime}

\* Mutant: whoever finalized the exit is trusted to remove the runtime.
KillStepsUnlessFinalized(s, inc) ==
  IF Unfinalized(s, inc) THEN Finalize \o <<"unregister">> ELSE <<>>

KillSteps(s, inc) ==
  (IF Unfinalized(s, inc) THEN Finalize ELSE <<>>) \o <<"unregister">>

\* KillSplint, second transaction, once the process has exited: finalize it
\* unless someone else has, and remove its runtime.
FinishKill(k) ==
  LET s == request[k].splint
      inc == request[k].incarnation
  IN /\ request[k].op = "kill" /\ inc \in ended
     /\ Begin(s, inc, KillSteps(s, inc))
     /\ request' = [request EXCEPT ![k] = Idle]
     /\ UNCHANGED <<controllers, runtimes, ended, states, last, allocated,
                    observers, connected, grants, ending>>

\* start_exited_splint: the exited runtime, if it is still registered, leaves
\* the registry first, and only then is its identity revoked.
Relaunch(s) ==
  /\ states[s] = "Exited"
  /\ allocated < LastIncarnation
  /\ Begin(s, runtimes[s],
           IF runtimes[s] = NoRuntime THEN <<"spawn">>
           ELSE <<"release", "revoke", "spawn">>)
  /\ runtimes' = [runtimes EXCEPT ![s] = NoRuntime]
  /\ UNCHANGED <<controllers, ended, states, last, allocated, observers, connected,
                 request, grants, ending>>

\* CloseSplint and CloseDojo: only exited Splints, and no identity is revoked.
CloseSplint(s) ==
  /\ PermitFree /\ states[s] = "Exited"
  /\ states' = [states EXCEPT ![s] = "Closed"]
  /\ runtimes' = [runtimes EXCEPT ![s] = NoRuntime]
  /\ UNCHANGED <<controllers, ended, last, allocated, observers, connected, request,
                 transaction, grants, ending>>

\* TerminateLair, CloseUnusedDojo and the retirement of a transient Lair: the
\* Splint leaves topology and registry, then its identity is revoked.  The
\* removed process is shut down, which its observer sees.
TerminateLair(s) ==
  /\ states[s] # "Closed" /\ last[s] # 0
  /\ Begin(s, last[s], <<"retire", "revoke">>)
  /\ states' = [states EXCEPT ![s] = "Closed"]
  /\ runtimes' = [runtimes EXCEPT ![s] = NoRuntime]
  /\ ended' = ended \cup {last[s]}
  /\ UNCHANGED <<controllers, last, allocated, observers, connected, request,
                 grants, ending>>

-----------------------------------------------------------------------------
(* The steps of a transaction *)

Step(name) ==
  /\ ~PermitFree /\ Head(transaction.steps) = name
  /\ transaction' = IF Tail(transaction.steps) = <<>> THEN Free
                    ELSE [transaction EXCEPT !.steps = Tail(@)]

ReleaseStep ==
  /\ Step("release")
  /\ controllers' = ReleaseIdentity(controllers, transaction.splint,
                                    transaction.incarnation)
  /\ UNCHANGED <<runtimes, ended, states, last, allocated, observers, connected,
                 request, grants, ending>>

RetireStep ==
  /\ Step("retire")
  /\ controllers' = CancelIdentityTransfer(
       ReleaseIdentity(controllers, transaction.splint,
                       transaction.incarnation),
       transaction.splint, transaction.incarnation)
  /\ UNCHANGED <<runtimes, ended, states, last, allocated, observers, connected,
                 request, grants, ending>>

\* GrantStore::revoke_identity: the grants go, the controllers they may have
\* authorized meanwhile do not.
RevokeStep ==
  /\ Step("revoke")
  /\ grants' = [g \in Grant |->
       IF /\ grants[g].status = "live"
          /\ grants[g].covers = <<transaction.splint, transaction.incarnation>>
       THEN [grants[g] EXCEPT !.status = "revoked"] ELSE grants[g]]
  /\ UNCHANGED <<controllers, runtimes, ended, states, last, allocated, observers,
                 connected, request, ending>>

\* The Splint is recorded as exited, unless it is gone or the write fails.
ExitedStep ==
  /\ Step("exited")
  /\ \/ /\ states[transaction.splint] # "Closed"
        /\ states' = [states EXCEPT ![transaction.splint] = "Exited"]
     \/ /\ states[transaction.splint] = "Closed" \/ PersistMayFail
        /\ UNCHANGED states
  /\ UNCHANGED <<controllers, runtimes, ended, last, allocated, observers,
                 connected, request, grants, ending>>

UnregisterStep ==
  /\ Step("unregister")
  /\ runtimes' = [runtimes EXCEPT ![transaction.splint] =
       IF @ = transaction.incarnation THEN NoRuntime ELSE @]
  /\ UNCHANGED <<controllers, ended, states, last, allocated, observers, connected,
                 request, grants, ending>>

\* Spawn, persist, install, insert: nobody can reach the process before it is
\* registered.  A failed write retires the process it started.
SpawnStep ==
  /\ Step("spawn")
  /\ allocated' = allocated + 1
  /\ \/ LET s == transaction.splint IN
        /\ runtimes' = [runtimes EXCEPT ![s] = allocated + 1]
        /\ states' = [states EXCEPT ![s] = "Running"]
        /\ last' = [last EXCEPT ![s] = allocated + 1]
        /\ observers' = observers \cup {<<s, allocated + 1>>}
     \/ PersistMayFail /\ UNCHANGED <<runtimes, states, last, observers>>
  /\ UNCHANGED <<controllers, ended, connected, request, grants, ending>>

-----------------------------------------------------------------------------

TransactionStep ==
  \/ ReleaseStep \/ RetireStep \/ RevokeStep \/ ExitedStep
  \/ UnregisterStep \/ SpawnStep

Next ==
  \/ \E k \in Connection, s \in Splint, g \in GrantId :
       \E op \in {"acquire", "transfer", "force"} : CheckControl(k, op, s, g)
  \/ \E k \in Connection :
       \/ RegisterControl(k) \/ ReleaseControl(k) \/ Disconnect(k)
       \/ \E allow \in BOOLEAN : DecideControlTransfer(k, allow)
       \/ \E s \in Splint : BeginKill(k, s)
       \/ FinishKill(k)
  \/ TransferTimeout
  \/ \E g \in Grant : \/ \E s \in Splint : IssueGrant(g, s)
                      \/ EndGrant(g)
                      \/ RevokeGrantControllers(g)
  \/ \E s \in Splint :
       \/ ProcessExit(s) \/ Relaunch(s) \/ CloseSplint(s) \/ TerminateLair(s)
       \/ \E inc \in Incarnation : ObserveExit(s, inc)
  \/ TransactionStep

Spec == Init /\ [][Next]_vars

\* Tasks and handlers run on; the permit is a FIFO semaphore; a transfer's
\* timer fires; a process that was told to shut down exits (it is killed).
Killed(s) == \E k \in Connection :
  request[k].op = "kill" /\ <<request[k].splint, request[k].incarnation>>
                              = <<s, runtimes[s]>>

Fairness ==
  /\ WF_vars(TransactionStep)
  /\ WF_vars(TransferTimeout)
  /\ \A k \in Connection : SF_vars(FinishKill(k))
  /\ \A s \in Splint : /\ WF_vars(Killed(s) /\ ProcessExit(s))
                       /\ \A inc \in Incarnation : SF_vars(ObserveExit(s, inc))

FairSpec == Spec /\ Fairness

-----------------------------------------------------------------------------
(* Properties *)

\* Type correctness of the composition, the registry's included.
TypeOK ==
  /\ WellTyped(controllers)
  /\ runtimes \in [Splint -> Incarnation \cup {NoRuntime}]
  /\ ended \subseteq Incarnation
  /\ states \in [Splint -> {"Running", "Exited", "Closed"}]
  /\ allocated \in 0 .. LastIncarnation
  /\ observers \subseteq Identity
  /\ connected \subseteq Connection
  /\ ending \subseteq Grant
  /\ grants \in [Grant -> [status : {"new", "live", "revoked", "ended"},
                          covers : Identity \cup {WholeLair}]]

Leases == controllers.by_id
Transfers == controllers.transfers

\* Nobody who has left controls anything or is about to: every lease, and both
\* sides of every pending transfer, belong to open connections, however the
\* disconnect falls between a request's check and its registration or between
\* a transfer's request and its decision.
ControlNeedsConnection ==
  /\ \A i \in DOMAIN Leases : Leases[i].connection_id \in connected
  /\ \A i \in DOMAIN Transfers :
       {Transfers[i].owner_connection_id, Transfers[i].requester_connection_id}
         \subseteq connected

\* Once a revoke or an expiry has released a grant's controllers, no lease and
\* no pending transfer rests on that grant, although a request may have been
\* authorized by it before and registers after.
EndedGrantLeavesNothing ==
  \A g \in Grant : grants[g].status = "ended" /\ g \notin ending =>
    /\ \A i \in DOMAIN Leases : Leases[i].grant_id # g
    /\ \A i \in DOMAIN Transfers : Transfers[i].grant_id # g

\* An exit is recorded: a registered process that has exited does not stay
\* "running" in the topology, whichever of observer, kill and terminate wins.
ExitIsRecorded ==
  \A s \in Splint :
    (runtimes[s] \in ended /\ states[s] = "Running") ~> states[s] # "Running"

\* KillSplint completes, and leaves the killed process unregistered.
KillCompletes ==
  \A k \in Connection, s \in Splint, inc \in Incarnation :
    (request[k] = [op |-> "kill", splint |-> s, incarnation |-> inc])
      ~> runtimes[s] # inc

\* A pending transfer does not block a Splint for ever: it is decided,
\* cancelled or timed out, even after its lease is long gone.
TransfersResolve ==
  \A i \in Ids : (i \in DOMAIN Transfers) ~> (i \notin DOMAIN Transfers)

=============================================================================

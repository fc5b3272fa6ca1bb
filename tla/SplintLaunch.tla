---------------------------- MODULE SplintLaunch ----------------------------
(***************************************************************************)
(* Processes, the slots they occupy and the leaves that show them:         *)
(* RuntimeRegistry, LaunchSlot, RetiringRuntimes and                       *)
(* TransientLeaseRegistry with every request that starts, ends or forgets  *)
(* a Splint (crates/splinterd/src/main.rs).                                *)
(*                                                                         *)
(* Requests that change the topology hold one permit; `transaction` is its *)
(* holder and how far it got.  Processes exit, retirements finish and      *)
(* connections drop between any two of its steps.  A Dojo is left out: a   *)
(* leaf belongs to a Lair.  Identities and incarnations are drawn fresh by *)
(* the code; here one of which no trace is left may be drawn again.        *)
(***************************************************************************)
EXTENDS Naturals, FiniteSets, Sequences

CONSTANTS
  Splint, Lair, Connection,   \* identities
  Process,      \* incarnations
  NoLair, NoProcess,
  MaxLive,      \* MAX_LIVE_SPLINTS
  MaxSplints,   \* MAX_SPLINTS of a durable topology
  MaxLairs      \* MAX_PERSISTENT_LAIRS

ASSUME LaunchAssumption ==
  /\ {MaxLive, MaxSplints, MaxLairs} \subseteq Nat
  /\ MaxLive >= MaxSplints
  /\ NoLair \notin Lair /\ NoProcess \notin Process

VARIABLES
  lairs,       \* per Lair: absent, transient, disposable or protected
  leaves,      \* the Splints of the topology: their Lair and state
  saved,       \* the document on disk
  processes,   \* the processes someone still holds or waits for: Splint, who
               \* holds it, whether it runs, whether its exit observer waits
               \* and whether a KillSplint waits for it
  reserved,    \* RuntimeRegistry.reserved
  leases,      \* TransientLeaseRegistry.by_lair
  connected,
  cleaning,    \* closed connections whose cleanup has still to run
  transaction  \* holder of the topology permit

vars == <<lairs, leaves, saved, processes, reserved, leases, connected,
          cleaning, transaction>>

Without(f, S) == [x \in DOMAIN f \ S |-> f[x]]
Put(f, x, v) == [y \in DOMAIN f \cup {x} |-> IF y = x THEN v ELSE f[y]]

Free == [op |-> "none", lair |-> NoLair, retired |-> NoLair, todo |-> <<>>,
         pc |-> "free", promote |-> FALSE, process |-> NoProcess]
PermitFree == transaction = Free

Started == DOMAIN processes
At(place) == {p \in Started : processes[p].place = place}
EntryOf(s) == {p \in At("entry") : processes[p].splint = s}
EntriesOf(S) == {p \in At("entry") : processes[p].splint \in S}

\* Those that nobody holds, watches or waits for are forgotten.
Kept(ps) ==
  LET forgotten == {p \in DOMAIN ps : /\ ps[p].place = "gone"
                                     /\ ~ps[p].watched /\ ~ps[p].killed}
  IN Without(ps, forgotten)

MovedIn(ps, P, place) ==
  [p \in DOMAIN ps |-> IF p \in P THEN [ps[p] EXCEPT !.place = place]
                       ELSE ps[p]]
Moved(P, place) == Kept(MovedIn(processes, P, place))

Persistent == {"disposable", "protected"}
Exists(l) == lairs[l] \in Persistent \cup {"transient"}
LeavesOf(ls, l) == {s \in DOMAIN ls : ls[s].lair = l}

\* TopologyDocument::from_topology: the persistent Lairs, every leaf exited.
Document(lr, lv) ==
  LET kept == {s \in DOMAIN lv : lr[lv[s].lair] \in Persistent} IN
  [lairs |-> [l \in Lair |-> IF lr[l] \in Persistent THEN lr[l] ELSE "absent"],
   leaves |-> [s \in kept |-> [lv[s] EXCEPT !.state = "Exited"]]]

\* TopologyDocument::validate, as far as capacity goes.
Valid(doc) ==
  /\ Cardinality({l \in Lair : doc.lairs[l] \in Persistent}) <= MaxLairs
  /\ Cardinality(DOMAIN doc.leaves) <= MaxSplints

\* persist_topology succeeds with this candidate.
Persist(lr, lv) == /\ Valid(Document(lr, lv))
                   /\ saved' = Document(lr, lv)

\* RuntimeRegistry::at_capacity.
Used == Cardinality(At("entry")) + Cardinality(At("retiring")) + reserved

Init ==
  /\ lairs = [l \in Lair |-> "absent"]
  /\ leaves = <<>>
  /\ saved = Document(lairs, leaves)
  /\ processes = <<>>
  /\ reserved = 0
  /\ leases = <<>>
  /\ connected = Connection
  /\ cleaning = {}
  /\ transaction = Free

-----------------------------------------------------------------------------
(* Requests that launch.  Each begins by taking the permit; validation of  *)
(* the request fails before anything changes.                              *)

Fresh(s) == /\ s \notin DOMAIN leaves
            /\ \A p \in Started : processes[p].splint # s
            /\ \A l \in DOMAIN leases : leases[l].splint # s

Begin(op, l, r, todo, promote) ==
  /\ PermitFree
  /\ transaction' = [op |-> op, lair |-> l, retired |-> r, todo |-> todo,
                     pc |-> "reserve", promote |-> promote,
                     process |-> NoProcess]

FullyExited(l) == \A s \in LeavesOf(leaves, l) : leaves[s].state = "Exited"

\* bounded_history_retirement: nothing while there is room for a persistent
\* Lair, else a fully exited disposable one.  (The code takes the one that ran
\* longest ago; here it may be any.)
Retirement(r) ==
  IF Cardinality({l \in Lair : lairs[l] \in Persistent}) < MaxLairs
  THEN r = NoLair
  ELSE r \in {l \in Lair : lairs[l] = "disposable" /\ FullyExited(l)}

CreateLair(l, r, s) ==
  /\ lairs[l] = "absent" /\ Fresh(s) /\ Retirement(r)
  /\ Begin("create_lair", l, r, <<s>>, FALSE)
  /\ UNCHANGED <<lairs, leaves, saved, processes, reserved, leases, connected,
                 cleaning>>

\* One transient Lair per connection; its lease is reserved before the launch.
CreateTransientLair(k, l, s) ==
  /\ k \in connected
  /\ lairs[l] = "absent" /\ Fresh(s)
  /\ \A m \in DOMAIN leases : leases[m].owner # k
  /\ Begin("create_transient", l, NoLair, <<s>>, FALSE)
  /\ leases' = Put(leases, l, [owner |-> k, splint |-> s,
                              incarnation |-> NoProcess])
  /\ UNCHANGED <<lairs, leaves, saved, processes, reserved, connected, cleaning>>

\* SplitSplint beside a leaf of l.
SplitSplint(l, s) ==
  /\ LeavesOf(leaves, l) # {} /\ Fresh(s)
  /\ Begin("split", l, NoLair, <<s>>, FALSE)
  /\ UNCHANGED <<lairs, leaves, saved, processes, reserved, leases, connected,
                 cleaning>>

\* authorize_transient_promotion.
MayPromote(k, l) ==
  lairs[l] = "transient" /\ l \in DOMAIN leases /\ leases[l].owner = k

NewDojo(k, l, s, promote) ==
  /\ k \in connected
  /\ Exists(l) /\ Fresh(s)
  /\ promote => MayPromote(k, l)
  /\ Begin("new_dojo", l, NoLair, <<s>>, promote)
  /\ UNCHANGED <<lairs, leaves, saved, processes, reserved, leases, connected,
                 cleaning>>

\* RelaunchSplint and the targets of RestoreSplint, RestoreDojo, RestoreLair.
RelaunchSplint(s) ==
  /\ s \in DOMAIN leaves /\ leaves[s].state = "Exited"
  /\ Begin("relaunch", leaves[s].lair, NoLair, <<s>>, FALSE)
  /\ UNCHANGED <<lairs, leaves, saved, processes, reserved, leases, connected,
                 cleaning>>

\* MaterializePreset commits its leaves first and then launches them in turn.
MaterializePreset(l, s, t) ==
  LET lr == IF lairs[l] = "absent" THEN [lairs EXCEPT ![l] = "disposable"]
            ELSE lairs
      lv == [x \in DOMAIN leaves \cup {s, t} |->
               IF x \in {s, t}
               THEN [lair |-> l, state |-> "Starting"]
               ELSE leaves[x]]
  IN /\ lairs[l] = "absent" \/ Exists(l)
     /\ s # t /\ Fresh(s) /\ Fresh(t)
     /\ Begin("preset", l, NoLair, <<s, t>>, FALSE)
     /\ Persist(lr, lv)
     /\ lairs' = lr
     /\ leaves' = lv
     /\ UNCHANGED <<processes, reserved, leases, connected, cleaning>>

-----------------------------------------------------------------------------
(* The steps of a launch *)

Op == transaction.op
Target == Head(transaction.todo)
InHand == transaction.process   \* the process this transaction started
Goto(pc) == transaction' = [transaction EXCEPT !.pc = pc]

\* The request is over; a preset goes on with its next leaf.
NextLeaf == IF Op = "preset" /\ Len(transaction.todo) > 1
            THEN transaction' = [transaction EXCEPT !.todo = Tail(@),
                                                    !.pc = "reserve",
                                                    !.process = NoProcess]
            ELSE transaction' = Free

\* What a failed launch leaves behind: the transient lease reservation is
\* dropped, and a preset marks its leaf failed even if that write fails.
GiveUp ==
  /\ NextLeaf
  /\ leases' = IF Op = "create_transient"
               THEN Without(leases, {transaction.lair}) ELSE leases
  /\ IF Op = "preset"
     THEN LET failed == [leaves EXCEPT ![Target] = [@ EXCEPT !.state = "Exited"]]
          IN /\ leaves' = failed
             /\ Persist(lairs, failed) \/ UNCHANGED saved
     ELSE UNCHANGED <<leaves, saved>>

\* Mutant: processes that are still shutting down do not count.
AtCapacityIgnoringRetiring(spare) ==
  Cardinality(At("entry")) + reserved - spare >= MaxLive

AtCapacity(spare) == Used - spare >= MaxLive

\* reserve_launch_slot; a relaunch first takes its own exited runtime out of
\* the registry, under the same lock, and puts it back when refused.
ReserveSlot ==
  LET own == IF Op = "relaunch" THEN EntryOf(Target) ELSE {} IN
  /\ transaction.pc = "reserve"
  /\ IF AtCapacity(Cardinality(own))
     THEN GiveUp /\ UNCHANGED <<reserved, processes>>
     ELSE /\ reserved' = reserved + 1
          /\ processes' = Moved(own, "gone")
          /\ Goto("spawn")
          /\ UNCHANGED <<leaves, saved, leases>>
  /\ UNCHANGED <<lairs, connected, cleaning>>

AfterSpawn == CASE Op = "create_lair" -> "insert"
                [] Op = "create_transient" -> "admit"
                [] OTHER -> "persist"

SpawnRuntime ==
  /\ transaction.pc = "spawn"
  /\ \/ \E p \in Process \ Started :
          /\ \A l \in DOMAIN leases : leases[l].incarnation # p
          /\ processes' = Put(processes, p,
               [splint |-> Target, place |-> "held", alive |-> TRUE,
                watched |-> FALSE, killed |-> FALSE])
          /\ leases' = IF Op = "create_transient"
                       THEN [leases EXCEPT ![transaction.lair] =
                               [@ EXCEPT !.incarnation = p]]
                       ELSE leases
          /\ transaction' = [transaction EXCEPT !.pc = AfterSpawn, !.process = p]
          /\ UNCHANGED <<leaves, saved, reserved>>
     \/ /\ GiveUp
        /\ reserved' = reserved - 1
        /\ UNCHANGED processes
  /\ UNCHANGED <<lairs, connected, cleaning>>

\* Mutant: the slot is not dropped when its process is admitted.
InsertKeepingSlot ==
  /\ transaction.pc = "insert"
  /\ processes' = Moved({InHand}, "entry")
  /\ Goto("persist")
  /\ UNCHANGED <<lairs, leaves, saved, reserved, leases, connected, cleaning>>

\* CreateLair registers its process before it writes the topology.
InsertFirst ==
  /\ transaction.pc = "insert"
  /\ processes' = Moved({InHand}, "entry")
  /\ reserved' = reserved - 1
  /\ Goto("persist")
  /\ UNCHANGED <<lairs, leaves, saved, leases, connected, cleaning>>

\* The candidate topology of each launch.
CandidateLairs ==
  LET l == transaction.lair IN
  CASE Op = "create_lair" ->
         [m \in Lair |-> CASE m = l -> "disposable"
                           [] m = transaction.retired -> "absent"
                           [] OTHER -> lairs[m]]
    [] Op = "create_transient" -> [lairs EXCEPT ![l] = "transient"]
    [] transaction.promote -> [lairs EXCEPT ![l] = "disposable"]
    [] OTHER -> lairs

CandidateLeaves ==
  Put(Without(leaves, LeavesOf(leaves, transaction.retired)), Target,
      [lair |-> transaction.lair, state |-> "Running"])

PersistLaunch ==
  /\ transaction.pc = "persist"
  /\ \/ /\ Persist(CandidateLairs, CandidateLeaves)
        /\ Goto(IF Op = "create_lair" THEN "install" ELSE "admit")
        /\ UNCHANGED <<leaves, processes, reserved, leases>>
     \/ /\ GiveUp
        /\ processes' = Moved({InHand}, "retiring")
        /\ reserved' = IF Op = "create_lair" THEN reserved ELSE reserved - 1
  /\ UNCHANGED <<lairs, connected, cleaning>>

\* The topology and, unless it is registered already, the process become
\* visible together; a promoted Lair loses its lease; the exit observer starts.
\* The owner of a transient Lair may still leave before its observer starts.
Install ==
  /\ transaction.pc \in {"install", "admit"}
  /\ lairs' = CandidateLairs
  /\ leaves' = CandidateLeaves
  /\ reserved' = IF Op = "create_lair" THEN reserved ELSE reserved - 1
  /\ leases' = IF transaction.promote
               THEN Without(leases, {transaction.lair}) ELSE leases
  /\ processes' = [Moved({InHand}, "entry") EXCEPT ![InHand] =
                     [@ EXCEPT !.watched = Op # "create_transient"]]
  /\ IF Op = "create_transient" THEN Goto("observe") ELSE NextLeaf
  /\ UNCHANGED <<saved, connected, cleaning>>

ObserveTransient ==
  /\ transaction.pc = "observe"
  /\ processes' = [processes EXCEPT ![InHand] = [@ EXCEPT !.watched = TRUE]]
  /\ transaction' = Free
  /\ UNCHANGED <<lairs, leaves, saved, reserved, leases, connected, cleaning>>

-----------------------------------------------------------------------------
(* Connections and transient Lairs *)

Connect(k) ==
  /\ k \notin connected \cup cleaning
  /\ connected' = connected \cup {k}
  /\ UNCHANGED <<lairs, leaves, saved, processes, reserved, leases, cleaning,
                 transaction>>

Creating(k) == /\ Op = "create_transient"
               /\ transaction.lair \in DOMAIN leases
               /\ leases[transaction.lair].owner = k

\* The connection's loop ends.  Only the creation of a transient Lair is
\* dropped in the middle of its request: its reservations drop with it, and so
\* does its process, which the creation guard retires, unless the request had
\* taken it out of the guard and was waiting for the registry's locks.
Disconnect(k) ==
  /\ k \in connected
  /\ connected' = connected \ {k}
  /\ cleaning' = cleaning \cup {k}
  /\ IF Creating(k)
     THEN /\ transaction' = Free
          /\ IF transaction.pc = "observe"
             THEN UNCHANGED <<leases, reserved, processes>>
             ELSE /\ leases' = Without(leases, {transaction.lair})
                  /\ reserved' = IF transaction.pc = "reserve"
                                 THEN reserved ELSE reserved - 1
                  /\ IF transaction.pc = "admit"
                     THEN \E place \in {"retiring", "orphan"} :
                            processes' = Moved({InHand}, place)
                     ELSE UNCHANGED processes
     ELSE UNCHANGED <<transaction, leases, reserved, processes>>
  /\ UNCHANGED <<lairs, leaves, saved>>

\* retire_transient_lair_under_transaction, first half: the Lair leaves the
\* topology and its processes leave the registry.  Their shutdown starts only
\* after their identities are revoked.
Retire(l) ==
  /\ lairs' = [lairs EXCEPT ![l] = "absent"]
  /\ leaves' = Without(leaves, LeavesOf(leaves, l))
  /\ leases' = Without(leases, {l})
  /\ transaction' = [Free EXCEPT !.op = "retire", !.pc = "shutdown"]

\* Mutant: the Lair is left to the exit of its first process.
CleanupKeepsLair(k) ==
  /\ k \in cleaning /\ PermitFree
  /\ cleaning' = cleaning \ {k}
  /\ UNCHANGED <<lairs, leaves, saved, processes, reserved, leases, connected,
                 transaction>>

\* retire_transient_lair_for_owner, from cleanup_connection.
CleanupConnection(k) ==
  LET owned == {l \in DOMAIN leases : leases[l].owner = k} IN
  /\ k \in cleaning /\ PermitFree
  /\ cleaning' = cleaning \ {k}
  /\ \/ /\ owned = {}
        /\ UNCHANGED <<lairs, leaves, leases, processes, transaction>>
     \/ \E l \in owned :
          /\ Retire(l)
          /\ processes' = Moved(EntriesOf(LeavesOf(leaves, l)), "held")
  /\ UNCHANGED <<saved, reserved, connected>>

ShutdownRetired ==
  /\ transaction.pc = "shutdown"
  /\ processes' = Moved(At("held"), "retiring")
  /\ transaction' = Free
  /\ UNCHANGED <<lairs, leaves, saved, reserved, leases, connected, cleaning>>

-----------------------------------------------------------------------------
(* Processes *)

ProcessExit(p) ==
  /\ p \in Started /\ processes[p].alive
  /\ processes' = Kept([processes EXCEPT ![p] =
       [@ EXCEPT !.alive = FALSE,
                 !.place = IF p \in At("orphan") THEN "gone"
                           ELSE processes[p].place]])
  /\ UNCHANGED <<lairs, leaves, saved, reserved, leases, connected, cleaning,
                 transaction>>

\* The task of RetiringRuntimes::spawn ends once its process has exited.
RetireDone(p) ==
  /\ p \in At("retiring") /\ ~processes[p].alive
  /\ processes' = Moved({p}, "gone")
  /\ UNCHANGED <<lairs, leaves, saved, reserved, leases, connected, cleaning,
                 transaction>>

\* Mutant: the exit is recorded whichever process is registered now.
AnotherIsCurrentNever(p) == FALSE

AnotherIsCurrent(p) == EntryOf(processes[p].splint) \ {p} # {}

InitialExit(p) ==
  \E l \in DOMAIN leases :
    /\ lairs[l] = "transient"
    /\ leases[l].splint = processes[p].splint /\ leases[l].incarnation = p
    /\ processes[p].splint \in LeavesOf(leaves, l)

\* finalize_exit_if_current_under_transaction for a leaf that is not the first
\* of a transient Lair: recorded without a write in a transient Lair, not at
\* all when the write fails.
RecordExit(p) ==
  LET s == processes[p].splint
      exited == [leaves EXCEPT ![s] = [@ EXCEPT !.state = "Exited"]]
      written == lairs[leaves[s].lair] # "transient"
  IN IF s \notin DOMAIN leaves \/ AnotherIsCurrent(p)
     THEN UNCHANGED <<leaves, saved>>
     ELSE \/ /\ leaves' = exited
             /\ IF written THEN Persist(lairs, exited) ELSE UNCHANGED saved
          \/ written /\ UNCHANGED <<leaves, saved>>

\* observe_process_exit: the observer of p wakes and finalizes.
ObserveExit(p) ==
  /\ p \in Started /\ processes[p].watched /\ ~processes[p].alive
  /\ PermitFree
  /\ LET seen == [processes EXCEPT ![p] = [@ EXCEPT !.watched = FALSE]]
         s == processes[p].splint
     IN IF InitialExit(p) /\ ~AnotherIsCurrent(p)
        THEN /\ Retire(leaves[s].lair)
             /\ processes' = Kept(MovedIn(seen,
                  EntriesOf(LeavesOf(leaves, leaves[s].lair)), "held"))
             /\ UNCHANGED saved
        ELSE /\ RecordExit(p)
             /\ processes' = Kept(seen)
             /\ UNCHANGED <<lairs, leases, transaction>>
  /\ UNCHANGED <<reserved, connected, cleaning>>

KillSplint(s) ==
  /\ PermitFree
  /\ EntryOf(s) # {}
  /\ processes' = [p \in Started |->
       [processes[p] EXCEPT !.killed = @ \/ p \in EntryOf(s)]]
  /\ UNCHANGED <<lairs, leaves, saved, reserved, leases, connected, cleaning,
                 transaction>>

\* KillSplint once its process has exited: finalize unless someone has, then
\* unregister that very process.
FinishKill(p) ==
  LET s == processes[p].splint
      unfinished == s \in DOMAIN leaves /\ leaves[s].state # "Exited"
      removed == [processes EXCEPT ![p] =
        [@ EXCEPT !.killed = FALSE,
                  !.place = IF p \in At("entry") THEN "gone"
                            ELSE processes[p].place]]
  IN /\ p \in Started /\ processes[p].killed /\ ~processes[p].alive
     /\ PermitFree
     /\ IF unfinished /\ InitialExit(p) /\ ~AnotherIsCurrent(p)
        THEN /\ Retire(leaves[s].lair)
             /\ processes' = Kept(MovedIn(removed,
                  EntriesOf(LeavesOf(leaves, leaves[s].lair)), "held"))
             /\ UNCHANGED saved
        ELSE /\ IF unfinished THEN RecordExit(p)
                ELSE UNCHANGED <<leaves, saved>>
             /\ processes' = Kept(removed)
             /\ UNCHANGED <<lairs, leases, transaction>>
     /\ UNCHANGED <<reserved, connected, cleaning>>

-----------------------------------------------------------------------------
(* Requests that remove leaves.  A failed write leaves everything as it was. *)

\* Leaves S and, with them, the Lairs L disappear; processes still registered
\* for them are shut down in the background.
Remove(S, L) ==
  LET lr == [l \in Lair |-> IF l \in L THEN "absent" ELSE lairs[l]]
      lv == Without(leaves, S)
  IN /\ PermitFree
     /\ Persist(lr, lv)
     /\ lairs' = lr
     /\ leaves' = lv
     /\ leases' = Without(leases, L)
     /\ processes' = Moved(EntriesOf(S), "retiring")
     /\ UNCHANGED <<reserved, connected, cleaning, transaction>>

\* Mutant: the exited processes of the closed leaves stay registered.
CloseLeavesOnly(S) ==
  LET lv == Without(leaves, S) IN
  /\ S # {} /\ S \subseteq DOMAIN leaves
  /\ \A s, t \in S : leaves[s].lair = leaves[t].lair
  /\ \A s \in S : leaves[s].state = "Exited"
  /\ PermitFree /\ Persist(lairs, lv)
  /\ leaves' = lv
  /\ UNCHANGED <<lairs, leases, processes, reserved, connected, cleaning, transaction>>

\* CloseSplint, or CloseDojo for the leaves of one Dojo.
CloseSplints(S) ==
  /\ S # {} /\ S \subseteq DOMAIN leaves
  /\ \A s, t \in S : leaves[s].lair = leaves[t].lair
  /\ \A s \in S : leaves[s].state = "Exited"
  /\ Remove(S, {})

TerminateLair(l) ==
  /\ Exists(l)
  /\ Remove(LeavesOf(leaves, l), {l})

\* CloseUnusedDojo: its one leaf runs; a generated Lair goes with its last Dojo.
CloseUnusedDojo(s, generated) ==
  /\ s \in DOMAIN leaves /\ leaves[s].state = "Running" /\ EntryOf(s) # {}
  /\ LET l == leaves[s].lair IN
     Remove({s}, IF generated /\ LeavesOf(leaves, l) = {s} THEN {l} ELSE {})

SetLairRetention(l, retention) ==
  /\ PermitFree /\ lairs[l] \in Persistent
  /\ lairs' = [lairs EXCEPT ![l] = retention]
  /\ Persist(lairs', leaves)
  /\ UNCHANGED <<leaves, processes, reserved, leases, connected, cleaning,
                 transaction>>

\* RenameDojo that promotes its transient Lair.
PromoteLair(k, l) ==
  /\ PermitFree /\ k \in connected
  /\ MayPromote(k, l) /\ LeavesOf(leaves, l) # {}
  /\ lairs' = [lairs EXCEPT ![l] = "disposable"]
  /\ Persist(lairs', leaves)
  /\ leases' = Without(leases, {l})
  /\ UNCHANGED <<leaves, processes, reserved, connected, cleaning, transaction>>

\* The daemon is lost and started again from the document on disk.
Restart ==
  /\ lairs' = saved.lairs
  /\ leaves' = saved.leaves
  /\ processes' = <<>>
  /\ reserved' = 0
  /\ leases' = <<>>
  /\ connected' = Connection
  /\ cleaning' = {}
  /\ transaction' = Free
  /\ UNCHANGED saved

-----------------------------------------------------------------------------

LaunchStep ==
  \/ ReserveSlot \/ SpawnRuntime \/ InsertFirst \/ PersistLaunch \/ Install
  \/ ObserveTransient \/ ShutdownRetired

Next ==
  \/ LaunchStep
  \/ \E l \in Lair, s \in Splint :
       \/ \E r \in Lair \cup {NoLair} : CreateLair(l, r, s)
       \/ \E k \in Connection :
            \/ CreateTransientLair(k, l, s)
            \/ \E promote \in BOOLEAN : NewDojo(k, l, s, promote)
       \/ SplitSplint(l, s)
       \/ \E t \in Splint : MaterializePreset(l, s, t)
  \/ \E s \in Splint :
       \/ RelaunchSplint(s) \/ KillSplint(s)
       \/ \E generated \in BOOLEAN : CloseUnusedDojo(s, generated)
  \/ \E S \in SUBSET Splint : CloseSplints(S)
  \/ \E l \in Lair :
       \/ TerminateLair(l)
       \/ \E retention \in Persistent : SetLairRetention(l, retention)
       \/ \E k \in Connection : PromoteLair(k, l)
  \/ \E k \in Connection : Connect(k) \/ Disconnect(k) \/ CleanupConnection(k)
  \/ \E p \in Process :
       ProcessExit(p) \/ RetireDone(p) \/ ObserveExit(p) \/ FinishKill(p)
  \/ Restart

Spec == Init /\ [][Next]_vars

\* A transaction runs to its end and the permit is granted in turn; the cleanup
\* of a closed connection runs; a retiring process is hung up, terminated and
\* finally killed, so it exits.
Fairness ==
  /\ WF_vars(LaunchStep)
  /\ \A k \in Connection : SF_vars(CleanupConnection(k))
  /\ \A p \in Process :
       /\ WF_vars(p \in At("retiring") /\ ProcessExit(p))
       /\ WF_vars(RetireDone(p))

FairSpec == Spec /\ Fairness

-----------------------------------------------------------------------------
(* Properties *)

\* The live limit: however launches, failed writes, cancelled creations,
\* kills and background retirements interleave, the processes the daemon owns
\* never exceed MAX_LIVE_SPLINTS, and no two processes are registered for one
\* Splint.  (A process dropped by a cancelled creation is not owned any more.)
LiveLimit ==
  /\ Cardinality({p \in Started \ At("orphan") : processes[p].alive}) <= MaxLive
  /\ \A s \in Splint : Cardinality(EntryOf(s)) <= 1

\* No reserved slot is lost: with the permit free, whether the last launch
\* succeeded, failed at any step or was cancelled, nothing is reserved and
\* nothing is held by a request that has ended.
NoSlotLeaks == PermitFree => reserved = 0 /\ At("held") = {}

\* A registered process that runs can be seen: between transactions its Splint
\* is in the topology and not recorded as exited, so it can be reached, killed
\* and never closed under its user; stale observers and kills of an earlier
\* process of that Splint do not change this.
LiveProcessIsVisible ==
  PermitFree =>
    \A p \in At("entry") : processes[p].alive =>
      /\ processes[p].splint \in DOMAIN leaves
      /\ leaves[processes[p].splint].state = "Running"

\* Between transactions the document on disk has exactly the persistent
\* structure of the topology: no failed write leaves the daemon ahead of its
\* document, and nothing committed is missing from it.
DurableStructure ==
  PermitFree =>
    LET doc == Document(lairs, leaves) IN
    /\ {l \in Lair : saved.lairs[l] \in Persistent}
         = {l \in Lair : doc.lairs[l] \in Persistent}
    /\ DOMAIN saved.leaves = DOMAIN doc.leaves

\* Between transactions every transient Lair has a lease, held by a connection
\* that is open or whose cleanup is still to come, and every lease names a
\* transient Lair: a promotion finds its lease, a disconnect its Lair.
TransientHasOwner ==
  PermitFree =>
    /\ DOMAIN leases = {l \in Lair : lairs[l] = "transient"}
    /\ \A l \in DOMAIN leases : leases[l].owner \in connected \cup cleaning

\* Between transactions the registries, the topology and the document agree,
\* whatever failed, was cancelled or exited before: running processes are
\* visible, nothing is ahead of or missing from the document, and transient
\* Lairs and leases go together.
RegistriesAgree == LiveProcessIsVisible /\ DurableStructure /\ TransientHasOwner

\* A transient Lair does not outlive its owner: once the connection is gone,
\* the Lair is eventually retired.
TransientLairEnds ==
  \A l \in Lair :
    (lairs[l] = "transient" /\ l \in DOMAIN leases
      /\ leases[l].owner \notin connected) ~> lairs[l] # "transient"

\* A leaf that leaves the topology takes its registered process with it.  The
\* one exception is CreateLair at the Lair limit: the exited processes of the
\* Lair it replaces stay registered, where nothing can reach them.
LeavesTakeProcesses ==
  [][\A s \in DOMAIN leaves \ DOMAIN leaves' : \A p \in EntryOf(s) :
       \/ p \notin At("entry")'
       \/ Op = "create_lair" /\ leaves[s].lair = transaction.retired
            /\ ~processes[p].alive]_vars
=============================================================================

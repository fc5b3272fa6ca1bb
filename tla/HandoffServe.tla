---------------------------- MODULE HandoffServe ----------------------------
(***************************************************************************)
(* The daemon's serve loop and the old side of a live handoff, with what   *)
(* they share: the gate and the admission lock that fence requests, the    *)
(* topology transaction permit, the policy reload queue, the broadcasts    *)
(* to subscribers, termination signals, the ordered shutdown, and the      *)
(* exec boundary after which this generation is gone or serves again.      *)
(*                                                                         *)
(* Each client is a connection that has one request in flight at a time.   *)
(* One attempt runs at a time; what it prepares, saves and captures is     *)
(* reduced to whether it succeeds.  The permit and both locks are granted  *)
(* in any order, and the arms of the serve loop's select taken in any      *)
(* order: an event may arrive between two polls of one turn.               *)
(***************************************************************************)
EXTENDS StatusStreams

CONSTANTS Client,       \* connections
          Automation,   \* those of automation clients, which a reload ends
          Budgets       \* bounds: what the outside may do, one per scenario

Operations == {"change", "topology", "control", "prompt"}

(* Requests of each kind, handoffs begun, policy edits (each with its      *)
(* reload signal), control notices that are not about handoffs, and        *)
(* termination signals.                                                    *)
ASSUME ServeAssumption ==
  /\ Automation \subseteq Client
  /\ Client \cap {"free", "fence", "reload"} = {}
  /\ \A b \in Budgets :
       /\ DOMAIN b.asks = Client
       /\ \A c \in Client : DOMAIN b.asks[c] \subseteq Operations
       /\ {b.attempts, b.edits, b.notices} \subseteq Nat
       /\ b.terminations \in {0, 1}

VARIABLES
  gate,      \* HandoffGatePhase
  last,      \* HandoffStatusRecord
  writer,    \* handoff_in_flight: the fence's exclusive side of the lock
  permit,    \* who holds topology_transactions
  attempt,   \* the attempt, and whether its request future still runs it
  work,      \* what a task of run_held is doing
  hub,       \* whether a release holds the topology hub's lock
  request,   \* per client, its request
  told,      \* automation clients a reload has told to reconnect
  revision,  \* of the topology
  subs, streams,   \* per client, its topology and control subscriptions
  reload,    \* PolicyReloadQueue and its task
  hangup,    \* a reload signal not yet received
  file, policy,    \* the policy file's version, and the published one
  serve,     \* where the serve round is
  term,      \* the termination signal
  left       \* what is left of the budget

vars == <<gate, last, writer, permit, attempt, work, hub, request, told, revision,
          subs, streams, reload, hangup, file, policy, serve, term, left>>

handoff == <<gate, writer, attempt, work>>
clients == <<request, told, revision>>
listeners == <<last, subs, streams>>
policies == <<reload, hangup, file, policy>>

NoAttempt == [at |-> "none", mine |-> FALSE]
NoRequest == [at |-> "idle", op |-> "none", generation |-> 0]
NoReload == [at |-> "none", queued |-> FALSE, version |-> 0]

Init ==
  /\ gate = "Idle" /\ last = NoStatus /\ writer = "none" /\ permit = "free"
  /\ attempt = NoAttempt /\ work = "none" /\ hub = FALSE
  /\ request = [c \in Client |-> NoRequest] /\ told = {} /\ revision = 0
  /\ subs = [c \in Client |-> NoSubscriber]
  /\ streams = [c \in Client |-> NoStream]
  /\ reload = NoReload /\ hangup = FALSE /\ file = 0 /\ policy = 0
  /\ serve = "loop" /\ term = "none"
  /\ left \in Budgets

-----------------------------------------------------------------------------
(* Broadcasts.                                                             *)

HubEvent(phase) == [revision |-> revision, phase |-> phase]

(* publish_handoff_status, under the hub's lock: topology subscribers,     *)
(* then the record and the notice of control subscribers.                  *)
PublishStatus(phase) ==
  /\ last' = [serial |-> last.serial + 1, phase |-> phase]
  /\ subs' = [c \in Client |-> Broadcast(subs[c], HubEvent(phase))]
  /\ streams' = [c \in Client |-> Notify(streams[c], last')]

-----------------------------------------------------------------------------
(* Requests of the clients.                                                *)

(* A fenced request holds the in-flight guard in these places.             *)
Guarded == {"run", "install", "publish"}

Readers == {c \in Client : request[c].at \in Guarded}

Serving == serve \in {"loop", "aborting", "aborting_exec"}

(* authorize_request: the policy is consulted before the admission.        *)
Ask(c, op) ==
  /\ serve = "loop" /\ request[c].at = "idle" /\ c \notin told
  /\ op \in DOMAIN left.asks[c] /\ left.asks[c][op] > 0
  /\ op = "topology" => subs[c].at = "none"
  /\ op = "control" => streams[c].at = "none"
  /\ left' = [left EXCEPT !.asks[c][op] = @ - 1]
  /\ request' = [request EXCEPT ![c] = [at |-> "admit", op |-> op, generation |-> policy]]
  /\ UNCHANGED <<handoff, last, permit, hub, told, revision, subs, streams, policies, serve, term>>

\* Mutant: the gate is read before the guard is taken.
AdmitBeforeGuard(c) ==
  /\ request[c].at = "admit"
  /\ request' = [request EXCEPT ![c] =
       IF gate = "Fenced" THEN NoRequest ELSE [@ EXCEPT !.at = "run"]]
  /\ UNCHANGED <<handoff, last, permit, hub, told, revision, subs, streams, policies, serve, term, left>>

(* The guard first, then the gate; Tokio queues a reader behind a writer.  *)
Admit(c) ==
  /\ request[c].at = "admit" /\ writer = "none"
  /\ request' = [request EXCEPT ![c] =
       IF gate = "Fenced" THEN NoRequest ELSE [@ EXCEPT !.at = "run"]]
  /\ UNCHANGED <<handoff, last, permit, hub, told, revision, subs, streams, policies, serve, term, left>>

(* A consent prompt is awaited outside the admission.                      *)
Prompt(c) ==
  /\ request[c].at = "run" /\ request[c].op = "prompt"
  /\ request' = [request EXCEPT ![c].at = "prompt"]
  /\ UNCHANGED <<handoff, last, permit, hub, told, revision, subs, streams, policies, serve, term, left>>

Answer(c) ==
  /\ request[c].at = "prompt"
  /\ request' = [request EXCEPT ![c].at = "retake"]
  /\ UNCHANGED <<handoff, last, permit, hub, told, revision, subs, streams, policies, serve, term, left>>

(* outside() retakes the guard; refuse_while_fenced then looks at the gate *)
(* again before the answer is committed.                                   *)
Retake(c) ==
  /\ request[c].at = "retake" /\ writer = "none"
  /\ request' = [request EXCEPT ![c] =
       IF gate = "Fenced" THEN NoRequest ELSE [@ EXCEPT !.at = "run", !.op = "commit"]]
  /\ UNCHANGED <<handoff, last, permit, hub, told, revision, subs, streams, policies, serve, term, left>>

(* A grant or a forced lease, which needs no permit.                       *)
Commit(c) ==
  /\ request[c].at = "run" /\ request[c].op = "commit"
  /\ request' = [request EXCEPT ![c] = NoRequest]
  /\ UNCHANGED <<handoff, last, permit, hub, told, revision, subs, streams, policies, serve, term, left>>

(* A topology transaction: the permit, the new topology, its publication.  *)
TakePermit(c) ==
  /\ request[c].at = "run" /\ request[c].op = "change" /\ permit = "free"
  /\ permit' = c
  /\ request' = [request EXCEPT ![c].at = "install"]
  /\ UNCHANGED <<handoff, last, hub, told, revision, subs, streams, policies, serve, term, left>>

Install(c) ==
  /\ request[c].at = "install"
  /\ revision' = revision + 1
  /\ request' = [request EXCEPT ![c].at = "publish"]
  /\ UNCHANGED <<handoff, last, permit, hub, told, subs, streams, policies, serve, term, left>>

PublishTopology(c) ==
  /\ request[c].at = "publish" /\ ~ hub
  /\ subs' = [d \in Client |-> Broadcast(subs[d], HubEvent("change"))]
  /\ permit' = "free"
  /\ request' = [request EXCEPT ![c] = NoRequest]
  /\ UNCHANGED <<handoff, last, hub, told, revision, streams, policies, serve, term, left>>

(* subscribe_topology: the permit is held from the snapshot to the entry.  *)
SubscribeTopology(c) ==
  /\ request[c].at = "run" /\ request[c].op = "topology" /\ permit = "free" /\ ~ hub
  /\ subs' = [subs EXCEPT ![c] = Subscribe(revision, request[c].generation)]
  /\ request' = [request EXCEPT ![c] = NoRequest]
  /\ UNCHANGED <<handoff, last, permit, hub, told, revision, streams, policies, serve, term, left>>

ControlStarts(c) ==
  /\ request[c].at = "run" /\ request[c].op = "control"
  /\ streams' = [streams EXCEPT ![c] = SubscribeControl(last, gate)]
  /\ request' = [request EXCEPT ![c] = NoRequest]
  /\ UNCHANGED <<handoff, last, permit, hub, told, revision, subs, policies, serve, term, left>>

(* The connection's loop sees the reload between two requests, tells the   *)
(* client to reconnect and takes its subscriptions down.                   *)
Disconnect(c) ==
  /\ serve = "loop" /\ c \in told /\ request[c].at = "idle"
  /\ told' = told \ {c}
  /\ subs' = [subs EXCEPT ![c] = NoSubscriber]
  /\ streams' = [streams EXCEPT ![c] = NoStream]
  /\ UNCHANGED <<handoff, last, permit, hub, request, revision, policies, serve, term, left>>

(* The subscriptions' tasks.                                               *)
StreamTopology(c) ==
  /\ Serving /\ MayStream(subs[c])
  /\ subs' = [subs EXCEPT ![c] = Stream(@)]
  /\ UNCHANGED <<handoff, last, permit, hub, clients, streams, policies, serve, term, left>>

EndSubscription(c) ==
  /\ Serving /\ TaskEnds(subs[c])
  /\ subs' = [subs EXCEPT ![c] = NoSubscriber]
  /\ UNCHANGED <<handoff, last, permit, hub, clients, streams, policies, serve, term, left>>

StreamControl(c) ==
  /\ Serving /\ MayHear(streams[c])
  /\ streams' = [streams EXCEPT ![c] = Hear(@, last, gate)]
  /\ UNCHANGED <<handoff, last, permit, hub, clients, subs, policies, serve, term, left>>

(* publish_control_notice for anything but a handoff.                      *)
ControlNotice ==
  /\ serve = "loop" /\ left.notices > 0
  /\ left' = [left EXCEPT !.notices = @ - 1]
  /\ streams' = [c \in Client |-> Notify(streams[c], [serial |-> 0, phase |-> "none"])]
  /\ UNCHANGED <<handoff, last, permit, hub, clients, subs, policies, serve, term>>

-----------------------------------------------------------------------------
(* The attempt: HandoffAttempt and run_handoff_attempt.                    *)

(* Where the request future holds the attempt itself, and where a task of  *)
(* run_held holds it.                                                      *)
Holding == {"begun", "draining", "drained", "fenced", "capturing"}
Lent == {"forward", "saving"}

(* HandoffAttempt::begin moves the gate, then waits to broadcast.          *)
Begin ==
  /\ serve = "loop" /\ left.attempts > 0 /\ gate = "Idle"
  /\ left' = [left EXCEPT !.attempts = @ - 1]
  /\ gate' = "Preparing"
  /\ attempt' = [at |-> "begun", mine |-> TRUE]
  /\ UNCHANGED <<last, writer, permit, work, hub, clients, subs, streams, policies, serve, term>>

\* Mutant: a phase is broadcast beside the hub's lock.
PublishPreparingUnlocked ==
  /\ attempt.at = "begun"
  /\ PublishStatus("Preparing")
  /\ attempt' = [attempt EXCEPT !.at = "forward"]
  /\ work' = "forward"
  /\ UNCHANGED <<gate, writer, permit, hub, clients, policies, serve, term, left>>

(* Then the forward preparation starts in a task of its own.               *)
PublishPreparing ==
  /\ attempt.at = "begun" /\ ~ hub
  /\ PublishStatus("Preparing")
  /\ attempt' = [attempt EXCEPT !.at = "forward"]
  /\ work' = "forward"
  /\ UNCHANGED <<gate, writer, permit, hub, clients, policies, serve, term, left>>

(* run_held's work ends.  The attempt goes back to its request, which goes *)
(* on or cancels; without a request it is dropped, which cancels it.       *)
FinishWork ==
  /\ work # "none"
  /\ work' = "none"
  /\ attempt' \in IF attempt.mine
                    THEN {[attempt EXCEPT !.at = IF work = "forward" THEN "draining" ELSE "capturing"],
                          [attempt EXCEPT !.at = "releasing"]}
                    ELSE {[attempt EXCEPT !.at = "releasing"]}
  /\ writer' = IF attempt'.at = "draining" THEN "waits" ELSE writer
  /\ UNCHANGED <<gate, permit, hub, clients, listeners, policies, serve, term, left>>

(* fence: the admission lock exclusively, then the permit; the gate moves  *)
(* while both are held.                                                    *)
Drain ==
  /\ attempt.at = "draining" /\ Readers = {}
  /\ writer' = "holds"
  /\ attempt' = [attempt EXCEPT !.at = "drained"]
  /\ UNCHANGED <<gate, permit, work, hub, clients, listeners, policies, serve, term, left>>

Raise ==
  /\ attempt.at = "drained" /\ permit = "free"
  /\ permit' = "fence" /\ writer' = "none" /\ gate' = "Fenced"
  /\ attempt' = [attempt EXCEPT !.at = "fenced"]
  /\ UNCHANGED <<work, hub, clients, listeners, policies, serve, term, left>>

\* Mutant: the permit first, then the admission lock.
FenceReversed ==
  \/ /\ attempt.at = "draining" /\ permit = "free"
     /\ permit' = "fence"
     /\ attempt' = [attempt EXCEPT !.at = "drained"]
     /\ UNCHANGED <<gate, writer, work, hub, clients, listeners, policies, serve, term, left>>
  \/ /\ attempt.at = "drained" /\ Readers = {}
     /\ writer' = "none" /\ gate' = "Fenced"
     /\ attempt' = [attempt EXCEPT !.at = "fenced"]
     /\ UNCHANGED <<permit, work, hub, clients, listeners, policies, serve, term, left>>

Fence == Drain \/ Raise

(* Both waits share one timeout, which leaves neither held.                *)
FenceTimesOut ==
  /\ attempt.at \in {"draining", "drained"}
  /\ writer' = "none"
  /\ attempt' = [attempt EXCEPT !.at = "releasing"]
  /\ UNCHANGED <<gate, permit, work, hub, clients, listeners, policies, serve, term, left>>

(* Then transient Lairs and retiring Splints are looked at, and the fenced *)
(* topology is saved in a task of its own.                                 *)
PublishFenced ==
  /\ attempt.at = "fenced" /\ ~ hub
  /\ PublishStatus("Fenced")
  /\ \/ attempt' = [attempt EXCEPT !.at = "saving"] /\ work' = "save"
     \/ attempt' = [attempt EXCEPT !.at = "releasing"] /\ UNCHANGED work
  /\ UNCHANGED <<gate, writer, permit, hub, clients, policies, serve, term, left>>

(* The Windows answer and every live Splint is captured: the attempt is    *)
(* committed and left for the serve loop.                                  *)
Deposit ==
  /\ attempt.at = "capturing"
  /\ attempt' = [at |-> "deposited", mine |-> FALSE]
  /\ UNCHANGED <<gate, writer, permit, work, hub, clients, listeners, policies, serve, term, left>>

\* Mutant: a dropped request releases what its task still uses.
DropLentAttempt ==
  /\ attempt' = [at |-> "releasing", mine |-> FALSE]
  /\ UNCHANGED writer

(* A dropped attempt: a task of run_held goes on without its request.      *)
DropAttempt ==
  /\ attempt' = IF attempt.at \in Lent THEN [attempt EXCEPT !.mine = FALSE]
                 ELSE [at |-> "releasing", mine |-> FALSE]
  /\ writer' = "none"

(* The initiator cancels or disconnects, a Window does not answer in time, *)
(* or a capture fails.                                                     *)
Leave ==
  /\ serve = "loop" /\ attempt.mine /\ attempt.at \in Holding \cup Lent
  /\ DropAttempt
  /\ UNCHANGED <<gate, permit, work, hub, clients, listeners, policies, serve, term, left>>

(* release_handoff: the hub's lock, then the gate and the fence, then the  *)
(* broadcast, still under the lock.                                        *)
Release ==
  /\ attempt.at = "releasing" /\ ~ hub
  /\ gate' = "Idle"
  /\ permit' = IF permit = "fence" THEN "free" ELSE permit
  /\ attempt' = NoAttempt
  /\ hub' = TRUE
  /\ UNCHANGED <<writer, work, clients, listeners, policies, serve, term, left>>

PublishCancelled ==
  /\ hub
  /\ PublishStatus("Cancelled")
  /\ hub' = FALSE
  /\ UNCHANGED <<handoff, permit, clients, policies, serve, term, left>>

-----------------------------------------------------------------------------
(* Policy reloads.                                                         *)

(* Someone edits the policy file and signals the daemon.                   *)
EditPolicy ==
  /\ left.edits > 0
  /\ left' = [left EXCEPT !.edits = @ - 1]
  /\ file' = file + 1 /\ hangup' = TRUE
  /\ UNCHANGED <<handoff, permit, hub, clients, listeners, reload, policy, serve, term>>

Started == [at |-> "reads", queued |-> FALSE, version |-> 0]

\* Mutant: a signal during a reload is taken for that reload.
RequestReloadOnce ==
  /\ serve = "loop" /\ hangup
  /\ hangup' = FALSE
  /\ reload' = IF reload.at = "none" THEN Started ELSE reload
  /\ UNCHANGED <<handoff, permit, hub, clients, listeners, file, policy, serve, term, left>>

(* PolicyReloadQueue::request.                                             *)
RequestReload ==
  /\ serve = "loop" /\ hangup
  /\ hangup' = FALSE
  /\ reload' = IF reload.at = "none" THEN Started ELSE [reload EXCEPT !.queued = TRUE]
  /\ UNCHANGED <<handoff, permit, hub, clients, listeners, file, policy, serve, term, left>>

(* apply_policy_reload reads the file, waits for the permit, publishes,    *)
(* then takes automation clients out of the hub and tells them.            *)
ReadPolicy ==
  /\ reload.at = "reads"
  /\ reload' = [reload EXCEPT !.at = "waits", !.version = file]
  /\ UNCHANGED <<handoff, permit, hub, clients, listeners, hangup, file, policy, serve, term, left>>

PublishPolicy ==
  /\ reload.at = "waits" /\ permit = "free"
  /\ permit' = "reload" /\ policy' = reload.version
  /\ reload' = [reload EXCEPT !.at = "published"]
  /\ UNCHANGED <<handoff, hub, clients, listeners, hangup, file, serve, term, left>>

\* Mutant: the connections are not told.
RemoveOnly ==
  /\ reload.at = "published" /\ ~ hub
  /\ subs' = [c \in Client |-> IF c \in Automation THEN Remove(subs[c]) ELSE subs[c]]
  /\ permit' = "free"
  /\ reload' = [reload EXCEPT !.at = "done"]
  /\ UNCHANGED <<handoff, last, hub, request, told, revision, streams, hangup, file, policy, serve, term, left>>

RemoveAutomation ==
  /\ reload.at = "published" /\ ~ hub
  /\ subs' = [c \in Client |-> IF c \in Automation THEN Remove(subs[c]) ELSE subs[c]]
  /\ told' = IF Serving THEN Automation ELSE {}
  /\ permit' = "free"
  /\ reload' = [reload EXCEPT !.at = "done"]
  /\ UNCHANGED <<handoff, last, hub, request, revision, streams, hangup, file, policy, serve, term, left>>

(* PolicyReloadQueue::complete.                                            *)
CompleteReload ==
  /\ serve = "loop" /\ reload.at = "done"
  /\ reload' = IF reload.queued THEN Started ELSE NoReload
  /\ UNCHANGED <<handoff, permit, hub, clients, listeners, hangup, file, policy, serve, term, left>>

-----------------------------------------------------------------------------
(* The serve round: serve, ordered_shutdown, stop_for_handoff and          *)
(* stop_runtime_and_cross.                                                 *)

(* A handler of this generation takes the signal, unless signals are       *)
(* blocked for the exec boundary: then it stays pending.                   *)
Terminate ==
  /\ left.terminations > 0 /\ serve \notin {"down", "exec"}
  /\ left' = [left EXCEPT !.terminations = 0]
  /\ term' = IF serve = "crossing" THEN "pending" ELSE "taken"
  /\ UNCHANGED <<handoff, permit, hub, clients, listeners, policies, serve>>

LeaveToShutDown ==
  /\ serve = "loop" /\ term = "taken"
  /\ serve' = "aborting" /\ term' = "served"
  /\ UNCHANGED <<handoff, permit, hub, clients, listeners, policies, left>>

LeaveToExec ==
  /\ serve = "loop" /\ attempt.at = "deposited"
  /\ serve' = "aborting_exec"
  /\ attempt' = [attempt EXCEPT !.at = "carried"]
  /\ UNCHANGED <<gate, writer, work, permit, hub, clients, listeners, policies, term, left>>

(* abort_all: each connection ends at its next await, the initiator's too. *)
Connected(c) ==
  request[c].at # "idle" \/ c \in told \/ subs[c].at # "none" \/ streams[c].at # "none"

Aborting == serve \in {"aborting", "aborting_exec"}

AbortConnection(c) ==
  /\ Aborting /\ Connected(c)
  /\ request' = [request EXCEPT ![c] = NoRequest]
  /\ told' = told \ {c}
  /\ permit' = IF permit = c THEN "free" ELSE permit
  /\ subs' = [subs EXCEPT ![c] = NoSubscriber]
  /\ streams' = [streams EXCEPT ![c] = NoStream]
  /\ UNCHANGED <<handoff, last, hub, revision, policies, serve, term, left>>

AbortAttempt ==
  /\ Aborting /\ attempt.mine
  /\ DropAttempt
  /\ UNCHANGED <<gate, permit, work, hub, clients, listeners, policies, serve, term, left>>

Joined == ~ attempt.mine /\ \A c \in Client : ~ Connected(c)

(* PolicyReloadQueue::abandon.                                             *)
StopForExec ==
  /\ serve = "aborting_exec" /\ Joined
  /\ serve' = "stopped"
  /\ reload' = NoReload
  /\ UNCHANGED <<handoff, permit, hub, clients, listeners, hangup, file, policy, term, left>>

(* No connection is left that could deposit an attempt; one deposited      *)
(* before the signal won is cancelled.                                     *)
CancelDeposit ==
  /\ serve = "aborting" /\ Joined
  /\ IF attempt.at = "deposited"
       THEN serve' = "cancelling" /\ attempt' = [attempt EXCEPT !.at = "releasing"]
       ELSE serve' = "draining" /\ UNCHANGED attempt
  /\ UNCHANGED <<gate, writer, work, permit, hub, clients, listeners, policies, term, left>>

DepositCancelled ==
  /\ serve = "cancelling" /\ attempt.at = "none" /\ ~ hub
  /\ serve' = "draining"
  /\ UNCHANGED <<handoff, permit, hub, clients, listeners, policies, term, left>>

(* PolicyReloadQueue::drain.                                               *)
DrainReloads ==
  /\ serve = "draining" /\ reload.at \in {"none", "done"}
  /\ serve' = "closing"
  /\ reload' = NoReload
  /\ UNCHANGED <<handoff, permit, hub, clients, listeners, hangup, file, policy, term, left>>

(* ordered_shutdown takes the permit for the final save.                   *)
Shutdown ==
  /\ serve = "closing" /\ permit = "free"
  /\ serve' = "down"
  /\ UNCHANGED <<handoff, permit, hub, clients, listeners, policies, term, left>>

\* Mutant: a signal taken by a handler stays there.
CrossUncarried ==
  /\ serve = "stopped"
  /\ serve' = "crossing"
  /\ UNCHANGED <<handoff, permit, hub, clients, listeners, policies, term, left>>

(* carry_taken_terminations: signals are blocked, and one that a handler   *)
(* took is made pending again.                                             *)
Cross ==
  /\ serve = "stopped"
  /\ serve' = "crossing"
  /\ term' = IF term = "taken" THEN "pending" ELSE term
  /\ UNCHANGED <<handoff, permit, hub, clients, listeners, policies, left>>

Exec ==
  /\ serve = "crossing"
  /\ serve' = "exec"
  /\ UNCHANGED <<handoff, permit, hub, clients, listeners, policies, term, left>>

(* The boundary returned, or was not reached: start_resumed builds a fresh *)
(* state and reads the policy file once.                                   *)
Resume ==
  /\ serve \in {"stopped", "crossing"}
  /\ serve' = "loop"
  /\ gate' = "Idle" /\ attempt' = NoAttempt /\ permit' = "free"
  /\ last' = NoStatus
  /\ policy' = file
  /\ term' = IF term = "pending" THEN "taken" ELSE term
  /\ UNCHANGED <<writer, work, hub, clients, subs, streams, reload, hangup, file, left>>

(* What the daemon does by itself, without a client, a person or a clock.  *)
Scheduled ==
  \/ \E c \in Client :
       \/ Admit(c) \/ Prompt(c) \/ Retake(c) \/ Commit(c)
       \/ TakePermit(c) \/ Install(c) \/ PublishTopology(c)
       \/ SubscribeTopology(c) \/ ControlStarts(c) \/ Disconnect(c)
       \/ StreamTopology(c) \/ EndSubscription(c) \/ StreamControl(c)
       \/ AbortConnection(c)
  \/ PublishPreparing \/ FinishWork \/ Fence \/ PublishFenced \/ Deposit
  \/ Release \/ PublishCancelled
  \/ RequestReload \/ ReadPolicy \/ PublishPolicy \/ RemoveAutomation \/ CompleteReload
  \/ LeaveToShutDown \/ LeaveToExec \/ AbortAttempt \/ StopForExec
  \/ CancelDeposit \/ DepositCancelled \/ DrainReloads \/ Shutdown
  \/ Cross \/ Exec \/ Resume

Next ==
  \/ Scheduled
  \/ \E c \in Client : Answer(c) \/ \E op \in Operations : Ask(c, op)
  \/ Begin \/ Leave \/ FenceTimesOut
  \/ ControlNotice \/ EditPolicy \/ Terminate

Spec == Init /\ [][Next]_vars

-----------------------------------------------------------------------------
(* Properties.                                                             *)

(* While the gate reads Fenced, no fenced request is in its handler and no *)
(* transaction but the fence holds the permit: HandoffAdmission takes its  *)
(* guard before it reads the gate, and a request that waited for a person  *)
(* looks again.                                                            *)
FenceExcludesHandlers == gate = "Fenced" => Readers = {} /\ permit = "fence"

(* Work the request cannot interrupt keeps the gate: a forward preparation *)
(* ends before another attempt begins, and a fenced save before any other  *)
(* transaction, also when the initiator has gone (run_held).               *)
WorkKeepsItsHold ==
  /\ work = "forward" => gate = "Preparing" /\ attempt.at = "forward"
  /\ work = "save" => gate = "Fenced" /\ permit = "fence" /\ attempt.at = "saving"

\* A topology change reaches a subscriber as the successor of what it has: the
\* snapshot of its subscription, then every change without a gap or a
\* repetition, until it is told to resynchronize or the round ends (then a
\* transaction may be cut between its installation and its publication).
NoSilentGap ==
  serve = "loop" =>
    \A c \in Client :
      MayStream(subs[c]) /\ Head(subs[c].queue).phase = "change"
        => Head(subs[c].queue).revision = subs[c].revision + 1

(* The phases of attempts are broadcast in order: no attempt's Preparing   *)
(* comes before the Cancelled of the one before (release_handoff).  And a  *)
(* control subscriber never hears a phase older than one it was told,      *)
(* whatever it lost to a lag and whatever the replay overtook.             *)
PhasesInOrder ==
  [][ /\ last'.serial > last.serial =>
           /\ last'.phase = "Preparing" => last.phase \in {"none", "Cancelled"}
           /\ last'.phase = "Fenced" => last.phase = "Preparing"
      /\ \A c \in Client :
           streams[c].at = "live" /\ streams'[c].at = "live"
             => streams'[c].floor >= streams[c].floor ]_vars

(* Once a reload has published its policy, it also takes the automation    *)
(* clients down: neither a handoff, which abandons reloads, nor a shutdown *)
(* cuts it in between.                                                     *)
ReloadIsWhole ==
  [][ reload.at = "published" => reload'.at \in {"published", "done"} ]_vars

(* No automation client keeps a subscription authorized by an older policy *)
(* without being on its way out, even if its request was authorized before *)
(* the reload and subscribed after it.                                     *)
OldPolicyIsLeaving ==
  \A c \in Automation :
    subs[c].at = "live" /\ subs[c].generation # policy
      => c \in told \/ reload.at = "published" \/ Aborting

AtRest == ~ ENABLED Scheduled

(* Whatever happened, the daemon comes to rest only where it serves with   *)
(* an idle gate and a free permit, or is gone: the fence, transactions,    *)
(* reloads and the shutdown never wait for each other, and need no timeout *)
(* to get out.                                                             *)
NothingIsStuck ==
  AtRest => \/ /\ serve = "loop" /\ gate = "Idle" /\ permit = "free" /\ writer = "none"
               /\ \A c \in Client : request[c].at \in {"idle", "prompt"}
            \/ serve \in {"down", "exec"}

(* A reload signal is followed by a reload of what the file said then, or  *)
(* later, across handoffs that abandon one and resume: while the daemon    *)
(* serves a policy that is not the file's, the signal is still to be       *)
(* received, or a reload is queued, still to read the file, or about to    *)
(* publish what it says.  Each of these is the guard of a scheduled step.  *)
ReloadFollowsSignal ==
  serve = "loop" =>
    \/ hangup
    \/ reload.at # "none" /\ reload.queued
    \/ reload.at = "reads"
    \/ reload.at = "waits" /\ reload.version = file
    \/ reload.at # "waits" /\ policy = file

(* The revision of the last change that was broadcast.                     *)
Published == IF \E c \in Client : request[c].at = "publish" THEN revision - 1 ELSE revision

\* Who has nothing left to hear has everything: a topology subscriber with
\* nothing to stream has the published revision, unless its task is ending;
\* a control subscriber with nothing to hear believes in no pause that the
\* gate no longer holds, once the release has told of its end.
SubscribersCatchUp ==
  serve = "loop" =>
    \A c \in Client :
      /\ subs[c].at = "live" /\ ~ MayStream(subs[c]) =>
           TaskEnds(subs[c]) \/ subs[c].revision = Published
      /\ streams[c].at = "live" /\ ~ MayHear(streams[c]) /\ gate = "Idle" /\ ~ hub =>
           streams[c].heard \in {"none", "Cancelled"}

(* Subscribers miss nothing silently: while the daemon serves, topology    *)
(* changes come one by one from the snapshot on or a resynchronization is  *)
(* asked for, and who has been delivered everything is neither behind nor  *)
(* left believing in a pause (topology and control subscriptions).         *)
SubscribersMissNothing == NoSilentGap /\ SubscribersCatchUp

(* A termination is acted on by this generation, or still pending when the *)
(* next one starts, never lost at the exec boundary: while the round goes  *)
(* on a signal that came is taken, which LeaveToShutDown acts on; only a   *)
(* shutdown has served one; and exec leaves with it pending.               *)
TerminationIsKept ==
  /\ serve = "loop" => term \in {"none", "taken"}
  /\ term = "served" => serve \in {"aborting", "cancelling", "draining", "closing", "down"}
  /\ serve = "exec" => term \in {"none", "pending"}

=============================================================================

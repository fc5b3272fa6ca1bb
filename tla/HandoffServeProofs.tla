------------------------- MODULE HandoffServeProofs -------------------------
(***************************************************************************)
(* The handoff's fence and the serve round, for any clients, any bounds    *)
(* and queues of any length: who holds the gate, the admission lock and    *)
(* the permit determines what may run.                                     *)
(***************************************************************************)
EXTENDS HandoffServe, TLAPS

Before == {"begun", "forward", "draining", "drained"}
Under == {"fenced", "saving", "capturing", "deposited", "carried"}

Types ==
  /\ request \in [Client -> [at : {"idle", "admit", "prompt", "retake", "run", "install", "publish"},
                             op : Operations \cup {"none", "commit"}, generation : Nat]]
  /\ attempt \in [at : Before \cup Under \cup {"none", "releasing"}, mine : BOOLEAN]
  /\ reload \in [at : {"none", "reads", "waits", "published", "done"},
                 queued : BOOLEAN, version : Nat]
  /\ last \in [serial : Nat, phase : Phases \cup {"none"}]
  /\ policy \in Nat /\ file \in Nat /\ hub \in BOOLEAN

(* The gate is out of Idle exactly while an attempt holds it, and Fenced   *)
(* exactly while the fence has the permit.                                 *)
GateAgrees ==
  /\ gate \in {"Idle", "Preparing", "Fenced"}
  /\ gate = "Idle" <=> attempt.at = "none"
  /\ attempt.at \in Before => gate = "Preparing"
  /\ attempt.at \in Under => gate = "Fenced"
  /\ attempt.mine => attempt.at \notin {"none", "deposited", "carried"}
  /\ gate = "Fenced" <=> permit = "fence"

(* The fence waits for the admission lock while it drains, and has it from *)
(* then until the gate reads Fenced: no handler is left in between.        *)
AdmissionAgrees ==
  /\ attempt.at = "draining" <=> writer = "waits"
  /\ attempt.at = "drained" <=> writer = "holds"
  /\ writer \in {"none", "waits", "holds"}
  /\ writer = "holds" \/ gate = "Fenced" => \A c \in Client : request[c].at \notin Guarded

(* One transaction at a time.                                              *)
PermitAgrees ==
  /\ \A c \in Client : request[c].at \in {"install", "publish"} <=> permit = c
  /\ reload.at = "published" <=> permit = "reload"

WorkAgrees ==
  /\ work = "forward" <=> attempt.at = "forward"
  /\ work = "save" <=> attempt.at = "saving"
  /\ work \in {"none", "forward", "save"}

(* Where the round leaves for the exec boundary, the fence goes with it.   *)
RoundAgrees ==
  /\ serve \in {"aborting_exec", "stopped", "crossing"} => attempt.at = "carried"
  /\ serve \in {"stopped", "crossing"} =>
       reload.at = "none" /\ \A c \in Client : request[c].at = "idle"

(* A Cancelled is owed exactly while a release has the hub's lock.         *)
PhasesAgree ==
  /\ hub => attempt.at \in {"none", "begun", "releasing"}
  /\ attempt.at \in {"none", "begun"} /\ ~ hub => last.phase \in {"none", "Cancelled"}
  /\ attempt.at \in {"forward", "draining", "drained", "fenced"} => last.phase = "Preparing"

IInv == Types /\ GateAgrees /\ AdmissionAgrees /\ PermitAgrees /\ WorkAgrees
          /\ RoundAgrees /\ PhasesAgree

-----------------------------------------------------------------------------
(* The invariant holds when a round starts. *)
LEMMA InitHolds == Init => IInv
<1> SUFFICES ASSUME Init PROVE IInv
  OBVIOUS
<1> USE ServeAssumption DEF Init, NoStatus, NoAttempt, NoRequest, NoReload, Before, Under, Guarded
<1>1. Types
  <2>1. request \in [Client -> [at : {"idle", "admit", "prompt", "retake", "run", "install", "publish"},
                               op : Operations \cup {"none", "commit"}, generation : Nat]]
    BY SMT DEF Operations
  <2>2. hub \in BOOLEAN
    BY Zenon
  <2> QED BY <2>1, <2>2, SMT DEF Types
<1>2. GateAgrees /\ AdmissionAgrees /\ WorkAgrees /\ RoundAgrees /\ PhasesAgree
  BY SMT DEF GateAgrees, AdmissionAgrees, WorkAgrees, RoundAgrees, PhasesAgree
<1>3. PermitAgrees
  BY SMT DEF PermitAgrees
<1> QED BY <1>1, <1>2, <1>3 DEF IInv

(* What the invariant reads. *)
footprint == <<gate, last, writer, permit, attempt, work, hub, request, reload, file, policy, serve>>

(* Steps of subscribers, clocks and signals leave it alone. *)
LEMMA Untouched == ASSUME IInv, UNCHANGED footprint PROVE IInv'
BY DEF footprint, IInv, Types, GateAgrees, AdmissionAgrees, PermitAgrees, WorkAgrees,
  RoundAgrees, PhasesAgree

(* A step of a request keeps the invariant: it enters a handler only past the admission lock and the gate. *)
LEMMA RequestsKeep ==
  ASSUME NEW c \in Client, IInv,
    \/ Admit(c)
    \/ Prompt(c)
    \/ Answer(c)
    \/ Retake(c)
    \/ Commit(c)
    \/ TakePermit(c)
    \/ Install(c)
    \/ PublishTopology(c)
    \/ SubscribeTopology(c)
    \/ ControlStarts(c)
    \/ AbortConnection(c)
  PROVE IInv'
<1> USE ServeAssumption DEF IInv, Types, GateAgrees, AdmissionAgrees, PermitAgrees,
      WorkAgrees, RoundAgrees, PhasesAgree,
      handoff, clients, listeners, policies, Before, Under, Guarded, NoRequest, Operations
<1>1. CASE Admit(c)
  BY <1>1 DEF Admit
<1>2. CASE Prompt(c)
  BY <1>2 DEF Prompt
<1>3. CASE Answer(c)
  BY <1>3 DEF Answer
<1>4. CASE Retake(c)
  <2>1. request[c] \in [at : {"idle", "admit", "prompt", "retake", "run", "install", "publish"},
                        op : Operations \cup {"none", "commit"}, generation : Nat]
    OBVIOUS
  <2>2. request'[c].at \in {"idle", "run"} /\ (gate = "Fenced" => request'[c].at = "idle")
    BY <1>4, <2>1 DEF Retake
  <2>3. request' \in [Client -> [at : {"idle", "admit", "prompt", "retake", "run", "install", "publish"},
                                op : Operations \cup {"none", "commit"}, generation : Nat]]
    BY <1>4, <2>1, Zenon DEF Retake
  <2>4. \A d \in Client \ {c} : request'[d] = request[d]
    BY <1>4 DEF Retake
  <2> QED BY <1>4, <2>2, <2>3, <2>4 DEF Retake
<1>5. CASE Commit(c)
  BY <1>5 DEF Commit
<1>6. CASE TakePermit(c)
  BY <1>6 DEF TakePermit
<1>7. CASE Install(c)
  BY <1>7 DEF Install
<1>8. CASE PublishTopology(c)
  BY <1>8 DEF PublishTopology
<1>9. CASE SubscribeTopology(c)
  BY <1>9 DEF SubscribeTopology
<1>10. CASE ControlStarts(c)
  BY <1>10 DEF ControlStarts
<1>11. CASE AbortConnection(c)
  BY <1>11 DEF AbortConnection, Aborting
<1> QED BY <1>1, <1>2, <1>3, <1>4, <1>5, <1>6, <1>7, <1>8, <1>9, <1>10, <1>11, Zenon

(* A step of the attempt keeps the invariant. *)
LEMMA AttemptKeeps ==
  ASSUME IInv,
    \/ Begin
    \/ PublishPreparing
    \/ FinishWork
    \/ Drain
    \/ Raise
    \/ FenceTimesOut
    \/ PublishFenced
    \/ Deposit
    \/ Leave
    \/ AbortAttempt
    \/ Release
    \/ PublishCancelled
  PROVE IInv'
<1> USE ServeAssumption DEF IInv, Types, GateAgrees, AdmissionAgrees, PermitAgrees,
      WorkAgrees, RoundAgrees, PhasesAgree,
      handoff, clients, listeners, policies, Before, Under, Guarded, NoRequest, Operations
<1>1. CASE Begin
  BY <1>1 DEF Begin
<1>2. CASE PublishPreparing
  BY <1>2 DEF PublishPreparing, PublishStatus, Phases
<1>3. CASE FinishWork
  BY <1>3 DEF FinishWork
<1>4. CASE Drain
  BY <1>4 DEF Drain, Readers
<1>5. CASE Raise
  BY <1>5 DEF Raise
<1>6. CASE FenceTimesOut
  BY <1>6 DEF FenceTimesOut
<1>7. CASE PublishFenced
  BY <1>7 DEF PublishFenced, PublishStatus, Phases
<1>8. CASE Deposit
  BY <1>8 DEF Deposit
<1>9. CASE Leave
  <2>1. Types'
    BY <1>9, Zenon DEF Leave, DropAttempt, Holding, Lent
  <2>2. GateAgrees'
    BY <1>9 DEF Leave, DropAttempt, Holding, Lent
  <2>3. AdmissionAgrees'
    BY <1>9 DEF Leave, DropAttempt, Holding, Lent
  <2>4. PermitAgrees' /\ WorkAgrees' /\ RoundAgrees' /\ PhasesAgree'
    BY <1>9 DEF Leave, DropAttempt, Holding, Lent
  <2> QED BY <2>1, <2>2, <2>3, <2>4
<1>10. CASE AbortAttempt
  <2>1. Types'
    BY <1>10, Zenon DEF AbortAttempt, DropAttempt, Holding, Lent, Aborting
  <2>2. GateAgrees'
    BY <1>10 DEF AbortAttempt, DropAttempt, Holding, Lent, Aborting
  <2>3. AdmissionAgrees'
    BY <1>10 DEF AbortAttempt, DropAttempt, Holding, Lent, Aborting
  <2>4. PermitAgrees' /\ WorkAgrees' /\ RoundAgrees' /\ PhasesAgree'
    BY <1>10 DEF AbortAttempt, DropAttempt, Holding, Lent, Aborting
  <2> QED BY <2>1, <2>2, <2>3, <2>4
<1>11. CASE Release
  BY <1>11 DEF Release, NoAttempt
<1>12. CASE PublishCancelled
  <2>1. hub' \in BOOLEAN
    BY <1>12, Zenon DEF PublishCancelled
  <2> QED BY <1>12, <2>1 DEF PublishCancelled, PublishStatus, Phases
<1> QED BY <1>1, <1>2, <1>3, <1>4, <1>5, <1>6, <1>7, <1>8, <1>9, <1>10, <1>11, <1>12, Zenon

(* A step of a policy reload keeps the invariant: it publishes only with the permit. *)
LEMMA ReloadKeeps ==
  ASSUME IInv,
    \/ EditPolicy
    \/ RequestReload
    \/ ReadPolicy
    \/ PublishPolicy
    \/ RemoveAutomation
    \/ CompleteReload
  PROVE IInv'
<1> USE ServeAssumption DEF IInv, Types, GateAgrees, AdmissionAgrees, PermitAgrees,
      WorkAgrees, RoundAgrees, PhasesAgree,
      handoff, clients, listeners, policies, Before, Under, Guarded, NoRequest, Operations
<1>1. CASE EditPolicy
  BY <1>1 DEF EditPolicy
<1>2. CASE RequestReload
  <2>1. Types'
    BY <1>2, Zenon DEF RequestReload, Started
  <2>2. PermitAgrees'
    BY <1>2 DEF RequestReload, Started
  <2>3. RoundAgrees'
    BY <1>2 DEF RequestReload, Started
  <2>4. GateAgrees' /\ AdmissionAgrees' /\ WorkAgrees' /\ PhasesAgree'
    BY <1>2 DEF RequestReload, Started
  <2> QED BY <2>1, <2>2, <2>3, <2>4
<1>3. CASE ReadPolicy
  BY <1>3, Zenon DEF ReadPolicy
<1>4. CASE PublishPolicy
  BY <1>4 DEF PublishPolicy
<1>5. CASE RemoveAutomation
  BY <1>5 DEF RemoveAutomation
<1>6. CASE CompleteReload
  BY <1>6 DEF CompleteReload, Started, NoReload
<1> QED BY <1>1, <1>2, <1>3, <1>4, <1>5, <1>6

(* A step of the serve round keeps the invariant. *)
LEMMA RoundKeeps ==
  ASSUME IInv,
    \/ LeaveToShutDown
    \/ LeaveToExec
    \/ StopForExec
    \/ CancelDeposit
    \/ DepositCancelled
    \/ DrainReloads
    \/ Shutdown
    \/ Cross
    \/ Exec
    \/ Resume
  PROVE IInv'
<1> USE ServeAssumption DEF IInv, Types, GateAgrees, AdmissionAgrees, PermitAgrees,
      WorkAgrees, RoundAgrees, PhasesAgree,
      handoff, clients, listeners, policies, Before, Under, Guarded, NoRequest, Operations
<1>1. CASE LeaveToShutDown
  BY <1>1 DEF LeaveToShutDown
<1>2. CASE LeaveToExec
  BY <1>2 DEF LeaveToExec
<1>3. CASE StopForExec
  BY <1>3 DEF StopForExec, NoReload, Joined, Connected
<1>4. CASE CancelDeposit
  BY <1>4 DEF CancelDeposit
<1>5. CASE DepositCancelled
  BY <1>5 DEF DepositCancelled
<1>6. CASE DrainReloads
  BY <1>6 DEF DrainReloads, NoReload
<1>7. CASE Shutdown
  BY <1>7 DEF Shutdown
<1>8. CASE Cross
  BY <1>8 DEF Cross
<1>9. CASE Exec
  BY <1>9 DEF Exec
<1>10. CASE Resume
  BY <1>10 DEF Resume, NoAttempt, NoStatus
<1> QED BY <1>1, <1>2, <1>3, <1>4, <1>5, <1>6, <1>7, <1>8, <1>9, <1>10, Zenon

(* A request starts outside every lock. *)
LEMMA AskKeeps == ASSUME NEW c \in Client, NEW op \in Operations, IInv, Ask(c, op) PROVE IInv'
BY ServeAssumption DEF Ask, IInv, Types, GateAgrees, AdmissionAgrees, PermitAgrees, WorkAgrees,
  RoundAgrees, PhasesAgree, handoff, policies, Guarded

(* Subscribers, notices and signals leave the invariant alone. *)
LEMMA ListenersKeep ==
  ASSUME IInv,
    \/ \E c \in Client : \/ Disconnect(c) \/ StreamTopology(c)
                         \/ EndSubscription(c) \/ StreamControl(c)
    \/ ControlNotice \/ Terminate
  PROVE IInv'
<1>1. UNCHANGED footprint
  BY DEF footprint, Disconnect, StreamTopology, EndSubscription, StreamControl, ControlNotice,
    Terminate, handoff, clients, listeners, policies
<1> QED BY <1>1, Untouched

(* Every step keeps the invariant. *)
LEMMA NextKeeps == IInv /\ [Next]_vars => IInv'
<1> SUFFICES ASSUME IInv, [Next]_vars PROVE IInv'
  OBVIOUS
<1>1. CASE UNCHANGED vars
  BY <1>1, Untouched DEF vars, footprint
<1>2. CASE Next
  BY <1>2, RequestsKeep, AttemptKeeps, ReloadKeeps, RoundKeeps, AskKeeps, ListenersKeep
    DEF Next, Scheduled, Fence
<1> QED BY <1>1, <1>2

(* The gate, the admission lock, the permit and the round always agree. *)
THEOREM LocksAgree == Spec => []IInv
BY InitHolds, NextKeeps, PTL DEF Spec

-----------------------------------------------------------------------------
(* However many clients and attempts there are, no handler and no other    *)
(* transaction runs while the gate reads Fenced.                           *)
THEOREM FenceIsExclusive == Spec => []FenceExcludesHandlers
<1>1. IInv => FenceExcludesHandlers
  BY DEF IInv, GateAgrees, AdmissionAgrees, FenceExcludesHandlers, Readers
<1> QED BY LocksAgree, <1>1, PTL

(* Work that outlives its initiator still holds what it was lent: run_held *)
(* passes the attempt itself to the task.                                  *)
THEOREM WorkHolds == Spec => []WorkKeepsItsHold
<1>1. IInv => WorkKeepsItsHold
  BY DEF IInv, GateAgrees, WorkAgrees, WorkKeepsItsHold, Before, Under
<1> QED BY LocksAgree, <1>1, PTL

(* Only these steps broadcast a phase or forget the last one. *)
LEMMA WhoPublishes ==
  ASSUME Next, last' # last
  PROVE PublishPreparing \/ PublishFenced \/ PublishCancelled \/ Resume
<1>1. \A c \in Client, op \in Operations : ~ Ask(c, op)
  BY DEF Ask
<1>2. \A c \in Client :
        ~ \/ Answer(c) \/ Admit(c) \/ Prompt(c) \/ Retake(c) \/ Commit(c)
          \/ TakePermit(c) \/ Install(c) \/ PublishTopology(c)
          \/ SubscribeTopology(c) \/ ControlStarts(c) \/ Disconnect(c)
          \/ StreamTopology(c) \/ EndSubscription(c) \/ StreamControl(c) \/ AbortConnection(c)
  BY DEF Answer, Admit, Prompt, Retake, Commit, TakePermit, Install, PublishTopology,
    SubscribeTopology, ControlStarts, Disconnect, StreamTopology, EndSubscription,
    StreamControl, AbortConnection, listeners
<1>3. ~ \/ Begin \/ FinishWork \/ Drain \/ Raise \/ FenceTimesOut \/ Deposit
        \/ Leave \/ AbortAttempt \/ Release
  BY DEF Begin, FinishWork, Drain, Raise, FenceTimesOut, Deposit, Leave, AbortAttempt,
    Release, listeners
<1>4. ~ \/ EditPolicy \/ RequestReload \/ ReadPolicy \/ PublishPolicy \/ RemoveAutomation
        \/ CompleteReload \/ ControlNotice \/ Terminate
  BY DEF EditPolicy, RequestReload, ReadPolicy, PublishPolicy, RemoveAutomation,
    CompleteReload, ControlNotice, Terminate, listeners
<1>5. ~ \/ LeaveToShutDown \/ LeaveToExec \/ StopForExec \/ CancelDeposit \/ DepositCancelled
        \/ DrainReloads \/ Shutdown \/ Cross \/ Exec
  BY DEF LeaveToShutDown, LeaveToExec, StopForExec, CancelDeposit, DepositCancelled,
    DrainReloads, Shutdown, Cross, Exec, listeners
<1> QED BY <1>1, <1>2, <1>3, <1>4, <1>5 DEF Next, Scheduled, Fence

-----------------------------------------------------------------------------
(* What subscribers hold.                                                  *)

Event == [revision : Nat, phase : Phases \cup {"change"}]
Notice == [serial : Nat, phase : Phases \cup {"none"}]

Subscriber ==
  [at : {"none", "live", "cut"}, queue : Seq(Event), resync : BOOLEAN,
   slipped : BOOLEAN, revision : Nat, generation : Nat]

Listener ==
  [at : {"none", "live"}, notices : Seq(Notice), lagged : BOOLEAN, floor : Nat,
   pending : Phases \cup {"none"}, heard : Phases \cup {"none"}]

Changes(s) == {i \in 1..Len(s.queue) : s.queue[i].phase = "change"}

(* What is queued for a subscriber are the changes after its revision up   *)
(* to m, each once and in order.                                           *)
Chained(s, m) ==
  /\ s.revision <= m
  /\ \A i \in Changes(s) : s.queue[i].revision \in s.revision + 1 .. m
  /\ \A n \in s.revision + 1 .. m : \E i \in Changes(s) : s.queue[i].revision = n
  /\ \A i, j \in Changes(s) : i < j => s.queue[i].revision < s.queue[j].revision

(* Up to the published revision p, unless a full queue cut the chain; then *)
(* the queue is still full, until one event slips through.                 *)
Fresh(s, p) ==
  s.at = "live" /\ ~ s.slipped =>
    /\ \E m \in 0..p : Chained(s, m) /\ (~ s.resync => m = p)
    /\ s.resync => Len(s.queue) >= TopologyQueue

(* A connection starts without subscriptions. *)
LEMMA NothingIsTyped ==
  /\ NoSubscriber \in Subscriber /\ NoSubscriber.at = "none"
  /\ NoStream \in Listener /\ NoStream.at = "none"
<1>1. NoSubscriber \in Subscriber /\ NoSubscriber.at = "none"
  BY DEF NoSubscriber, Subscriber
<1>2. NoStream \in Listener /\ NoStream.at = "none"
  BY DEF NoStream, Listener
<1> QED BY <1>1, <1>2

(* A snapshot is fresh. *)
LEMMA SubscribeFresh ==
  ASSUME NEW r \in Nat, NEW g \in Nat
  PROVE Subscribe(r, g) \in Subscriber /\ Fresh(Subscribe(r, g), r)
<1> DEFINE s == Subscribe(r, g)
<1>1. s \in Subscriber
  BY DEF Subscribe, Subscriber
<1>2. Chained(s, r)
  BY DEF Subscribe, Chained, Changes
<1>3. ~ s.resync
  BY DEF Subscribe
<1> QED BY <1>1, <1>2, <1>3 DEF Fresh

(* A broadcast leaves the subscription where it is. *)
LEMMA BroadcastFits ==
  ASSUME NEW s \in Subscriber, NEW e \in Event
  PROVE /\ Broadcast(s, e) \in Subscriber
        /\ Broadcast(s, e).at = s.at
        /\ Broadcast(s, e).generation = s.generation
        /\ Broadcast(s, e).slipped = s.slipped
        /\ Broadcast(s, e).revision = s.revision
<1>1. Append(s.queue, e) \in Seq(Event)
  BY DEF Subscriber
<1>2. CASE s.at # "live"
  BY <1>2 DEF Broadcast
<1>3. CASE s.at = "live" /\ Len(s.queue) < TopologyQueue
  <2>1. Broadcast(s, e) = [s EXCEPT !.queue = Append(s.queue, e)]
    BY <1>3 DEF Broadcast
  <2> QED BY <1>1, <2>1, Zenon DEF Subscriber
<1>4. CASE s.at = "live" /\ ~ (Len(s.queue) < TopologyQueue)
  <2>1. Broadcast(s, e) = [s EXCEPT !.resync = TRUE]
    BY <1>4 DEF Broadcast
  <2> QED BY <2>1, Zenon DEF Subscriber
<1> QED BY <1>2, <1>3, <1>4

(* So does streaming, but for its position. *)
LEMMA StreamFits ==
  ASSUME NEW s \in Subscriber, MayStream(s)
  PROVE /\ Stream(s) \in Subscriber
        /\ Stream(s).at = s.at
        /\ Stream(s).generation = s.generation
<1>1. Head(s.queue) \in Event /\ Tail(s.queue) \in Seq(Event)
  BY DEF MayStream, Subscriber
<1> QED BY <1>1, Zenon DEF Stream, Subscriber, Event

(* A phase is not a change. *)
LEMMA StatusFresh ==
  ASSUME NEW s \in Subscriber, NEW e \in Event, NEW p \in Nat, e.phase # "change", Fresh(s, p)
  PROVE Fresh(Broadcast(s, e), p)
<1> DEFINE t == Broadcast(s, e)
<1> SUFFICES ASSUME s.at = "live", ~ s.slipped PROVE Fresh(t, p)
  BY BroadcastFits DEF Fresh
<1>1. PICK m \in 0..p : Chained(s, m) /\ (~ s.resync => m = p)
  BY DEF Fresh
<1>2. CASE Len(s.queue) < TopologyQueue
  <2>1. t = [s EXCEPT !.queue = Append(s.queue, e)]
    BY <1>2 DEF Broadcast
  <2>2. /\ t.queue = Append(s.queue, e) /\ t.revision = s.revision
        /\ t.resync = s.resync /\ ~ s.resync
    BY <1>2, <2>1, StreamsAssumption DEF Subscriber, Fresh
  <2>3. Changes(t) = Changes(s) /\ \A i \in Changes(s) : t.queue[i] = s.queue[i]
    BY <2>2 DEF Changes, Subscriber
  <2>4. Chained(t, m)
    BY <1>1, <2>2, <2>3, Zenon DEF Chained
  <2> QED BY <1>1, <2>2, <2>4 DEF Fresh
<1>3. CASE ~ (Len(s.queue) < TopologyQueue)
  <2>1. t = [s EXCEPT !.resync = TRUE]
    BY <1>3 DEF Broadcast
  <2>2. t.queue = s.queue /\ t.revision = s.revision /\ t.resync
    BY <2>1 DEF Subscriber
  <2>3. Chained(t, m)
    BY <1>1, <2>2 DEF Chained, Changes
  <2>4. Len(t.queue) >= TopologyQueue
    BY <1>3, <2>2, StreamsAssumption DEF Subscriber
  <2> QED BY <2>2, <2>3, <2>4 DEF Fresh
<1> QED BY <1>2, <1>3

(* A change is the successor of the last one published. *)
LEMMA ChangeFresh ==
  ASSUME NEW s \in Subscriber, NEW p \in Nat, Fresh(s, p)
  PROVE Fresh(Broadcast(s, [revision |-> p + 1, phase |-> "change"]), p + 1)
<1> DEFINE e == [revision |-> p + 1, phase |-> "change"]
           t == Broadcast(s, e)
<1>0. e \in Event
  BY DEF Event
<1> SUFFICES ASSUME s.at = "live", ~ s.slipped PROVE Fresh(t, p + 1)
  BY <1>0, BroadcastFits DEF Fresh
<1>1. PICK m \in 0..p : Chained(s, m) /\ (~ s.resync => m = p)
  BY DEF Fresh
<1>2. CASE Len(s.queue) < TopologyQueue
  <2>1. t = [s EXCEPT !.queue = Append(s.queue, e)]
    BY <1>2 DEF Broadcast
  <2>2. t.queue = Append(s.queue, e) /\ t.revision = s.revision /\ t.resync = s.resync /\ ~ s.resync
    BY <1>2, <2>1, StreamsAssumption DEF Subscriber, Fresh
  <2>3. m = p /\ Chained(s, p)
    BY <1>1, <2>2
  <2> DEFINE n == Len(s.queue) + 1
  <2>a. /\ Len(s.queue) \in Nat /\ Len(t.queue) = n
        /\ \A i \in 1..Len(s.queue) : t.queue[i] = s.queue[i]
        /\ t.queue[n].revision = p + 1 /\ t.queue[n].phase = "change"
    BY <2>2 DEF Subscriber
  <2> HIDE DEF t
  <2>4. /\ Changes(t) = Changes(s) \cup {n}
        /\ \A i \in Changes(s) : t.queue[i] = s.queue[i] /\ i < n
        /\ t.queue[n].revision = p + 1
    <3>1. \A i \in 1..n : i = n \/ i \in 1..Len(s.queue)
      BY <2>a
    <3>2. \A i \in 1..Len(s.queue) : i \in 1..n /\ i < n
      BY <2>a
    <3>3. n \in 1..n
      BY <2>a
    <3> HIDE DEF n
    <3> QED BY <2>a, <3>1, <3>2, <3>3 DEF Changes
  <2>5. Chained(t, p + 1)
    <3>1. s.revision \in Nat /\ n \in Nat /\ Changes(s) \subseteq Nat
      BY DEF Subscriber, Changes
    <3>a. t.revision = s.revision
      BY <2>2
    <3> HIDE DEF n
    <3>b. /\ s.revision <= p
          /\ \A i \in Changes(s) : t.queue[i].revision \in s.revision + 1 .. p
          /\ \A k \in s.revision + 1 .. p : \E i \in Changes(s) : t.queue[i].revision = k
          /\ \A i, j \in Changes(s) : i < j => t.queue[i].revision < t.queue[j].revision
      BY <2>3, <2>4 DEF Chained
    <3>2. \A i \in Changes(t) : t.queue[i].revision \in s.revision + 1 .. p + 1
      BY <2>4, <3>1, <3>b
    <3>3. \A k \in s.revision + 1 .. p + 1 : \E i \in Changes(t) : t.queue[i].revision = k
      BY <2>4, <3>1, <3>b
    <3>4. \A i, j \in Changes(t) : i < j => t.queue[i].revision < t.queue[j].revision
      BY <2>4, <3>1, <3>b
    <3>5. s.revision <= p + 1
      BY <3>1, <3>b
    <3> QED BY <3>a, <3>2, <3>3, <3>4, <3>5 DEF Chained
  <2> QED BY <2>2, <2>5 DEF Fresh
<1>3. CASE ~ (Len(s.queue) < TopologyQueue)
  <2>1. t = [s EXCEPT !.resync = TRUE]
    BY <1>3 DEF Broadcast
  <2>2. t.queue = s.queue /\ t.revision = s.revision /\ t.resync
    BY <2>1 DEF Subscriber
  <2> HIDE DEF t
  <2>3. Chained(t, m)
    BY <1>1, <2>2 DEF Chained, Changes
  <2>4. Len(t.queue) >= TopologyQueue
    BY <1>3, <2>2, StreamsAssumption DEF Subscriber
  <2>5. m \in 0..(p + 1)
    OBVIOUS
  <2> QED BY <2>2, <2>3, <2>4, <2>5 DEF Fresh
<1> QED BY <1>2, <1>3

(* The change at the head of a fresh queue is the next one. *)
LEMMA HeadFollows ==
  ASSUME NEW s \in Subscriber, NEW p \in Nat, MayStream(s), Fresh(s, p),
         Head(s.queue).phase = "change"
  PROVE Head(s.queue).revision = s.revision + 1
<1>1. PICK m \in 0..p : Chained(s, m)
  BY DEF Fresh, MayStream
<1>2. 1 \in Changes(s) /\ Head(s.queue) = s.queue[1] /\ s.revision \in Nat
  BY DEF MayStream, Changes, Subscriber
<1>3. s.queue[1].revision \in s.revision + 1 .. m
  BY <1>1, <1>2 DEF Chained
<1>4. PICK i \in Changes(s) : s.queue[i].revision = s.revision + 1
  BY <1>1, <1>2, <1>3 DEF Chained
<1>5. i = 1 \/ 1 < i
  BY DEF Changes, Subscriber
<1>6. ~ (1 < i)
  BY <1>1, <1>2, <1>3, <1>4 DEF Chained
<1> QED BY <1>2, <1>4, <1>5, <1>6

(* What is left in the queue follows what was streamed. *)
LEMMA StreamFresh ==
  ASSUME NEW s \in Subscriber, NEW p \in Nat, MayStream(s), Fresh(s, p)
  PROVE Fresh(Stream(s), p)
<1> DEFINE t == Stream(s)
<1>1. /\ t.queue = Tail(s.queue) /\ t.slipped = s.resync /\ t.resync = s.resync
      /\ t.revision = IF Head(s.queue).phase = "change" THEN Head(s.queue).revision ELSE s.revision
  BY DEF Stream, Subscriber
<1> SUFFICES ASSUME ~ s.resync PROVE Fresh(t, p)
  BY <1>1 DEF Fresh
<1>2. PICK m \in 0..p : Chained(s, m) /\ m = p
  BY DEF Fresh, MayStream
<1>3. /\ Len(s.queue) \in Nat \ {0} /\ Len(t.queue) = Len(s.queue) - 1
      /\ \A i \in 1..Len(t.queue) : t.queue[i] = s.queue[i + 1]
      /\ Head(s.queue) = s.queue[1] /\ s.revision \in Nat
  BY <1>1 DEF MayStream, Subscriber
<1> HIDE DEF t
<1>4. \A i \in Changes(t) : i \in Nat \ {0} /\ i + 1 \in Changes(s)
  BY <1>3 DEF Changes
<1>5. \A i \in Changes(t) : t.queue[i] = s.queue[i + 1] /\ i \in Nat
  BY <1>3 DEF Changes
<1>6. \A j \in Changes(s) : j = 1 \/ (j - 1 \in Changes(t) /\ j = (j - 1) + 1)
  BY <1>3 DEF Changes
<1>7. CASE Head(s.queue).phase = "change"
  <2>1. t.revision = s.revision + 1 /\ s.queue[1].revision = s.revision + 1 /\ 1 \in Changes(s)
    BY <1>1, <1>3, <1>7, HeadFollows DEF Changes
  <2>2. s.revision + 1 <= p
    BY <1>2, <2>1, <1>3 DEF Chained
  <2>a. /\ \A i \in Changes(s) : s.queue[i].revision \in s.revision + 1 .. p
        /\ \A k \in s.revision + 1 .. p : \E i \in Changes(s) : s.queue[i].revision = k
        /\ \A i, j \in Changes(s) : i < j => s.queue[i].revision < s.queue[j].revision
    BY <1>2 DEF Chained
  <2>b. \A i \in Changes(t) : 1 < i + 1
    BY <1>4
  <2>3. \A i \in Changes(t) : t.queue[i].revision \in t.revision + 1 .. p
    <3> TAKE i \in Changes(t)
    <3>1. s.queue[1].revision < s.queue[i + 1].revision
      BY <1>4, <2>1, <2>a, <2>b
    <3>2. t.queue[i] = s.queue[i + 1] /\ s.queue[i + 1].revision \in s.revision + 1 .. p
      BY <1>4, <1>5, <2>a
    <3>3. \A k \in s.revision + 1 .. p : s.revision + 1 < k => k \in (s.revision + 1) + 1 .. p
      BY <1>3
    <3> QED BY <2>1, <3>1, <3>2, <3>3
  <2>4. \A n \in t.revision + 1 .. p : \E i \in Changes(t) : t.queue[i].revision = n
    <3> TAKE n \in t.revision + 1 .. p
    <3>1. n \in s.revision + 1 .. p /\ n # s.revision + 1
      BY <1>3, <2>1
    <3>2. PICK j \in Changes(s) : s.queue[j].revision = n
      BY <2>a, <3>1
    <3>3. j # 1
      BY <2>1, <3>1, <3>2
    <3> QED BY <1>5, <1>6, <3>2, <3>3
  <2>5. \A i, j \in Changes(t) : i < j => t.queue[i].revision < t.queue[j].revision
    <3> TAKE i, j \in Changes(t)
    <3> HAVE i < j
    <3>1. i + 1 < j + 1
      BY <1>5
    <3> QED BY <1>4, <1>5, <2>a, <3>1
  <2>6. Chained(t, p)
    BY <2>1, <2>2, <2>3, <2>4, <2>5 DEF Chained
  <2> QED BY <1>1, <2>6 DEF Fresh
<1>8. CASE Head(s.queue).phase # "change"
  <2>1. t.revision = s.revision /\ 1 \notin Changes(s)
    BY <1>1, <1>3, <1>8 DEF Changes
  <2>2. \A i \in Changes(t) : t.queue[i].revision \in t.revision + 1 .. p
    BY <1>2, <1>4, <1>5, <2>1 DEF Chained
  <2>3. \A n \in t.revision + 1 .. p : \E i \in Changes(t) : t.queue[i].revision = n
    BY <1>2, <1>4, <1>5, <1>6, <2>1 DEF Chained
  <2>4. \A i, j \in Changes(t) : i < j => t.queue[i].revision < t.queue[j].revision
    BY <1>2, <1>4, <1>5, <2>1 DEF Chained
  <2>5. Chained(t, p)
    BY <1>2, <2>1, <2>2, <2>3, <2>4 DEF Chained
  <2> QED BY <1>1, <2>5 DEF Fresh
<1> QED BY <1>7, <1>8

(* A broadcast of the control channel leaves a stream where it is. *)
LEMMA NotifyFits ==
  ASSUME NEW c \in Listener, NEW n \in Notice
  PROVE Notify(c, n) \in Listener /\ Notify(c, n).at = c.at /\ Notify(c, n).floor = c.floor
<1> DEFINE all == Append(c.notices, n)
<1>1. all \in Seq(Notice) /\ Tail(all) \in Seq(Notice)
  BY DEF Listener
<1> QED BY <1>1, Zenon DEF Notify, Listener

(* A notice that the floor has passed is dropped. *)
LEMMA HearNoticeFits ==
  ASSUME NEW c \in Listener, NEW n \in Notice, Tail(c.notices) \in Seq(Notice)
  PROVE /\ HearNotice(c, n) \in Listener
        /\ HearNotice(c, n).at = c.at
        /\ HearNotice(c, n).floor >= c.floor
<1>1. n.serial \in Nat /\ c.floor \in Nat /\ n.phase \in Phases \cup {"none"}
  BY DEF Notice, Listener
<1>2. CASE n.serial > c.floor
  <2>1. HearNotice(c, n) = [c EXCEPT !.notices = Tail(c.notices), !.floor = n.serial, !.heard = n.phase]
    BY <1>2 DEF HearNotice
  <2>2. /\ HearNotice(c, n).at = c.at
        /\ HearNotice(c, n).floor = n.serial
    BY <2>1 DEF Listener
  <2>3. HearNotice(c, n) \in Listener
    BY <1>1, <2>1, Zenon DEF Listener
  <2> QED BY <1>1, <1>2, <2>2, <2>3
<1>3. CASE ~ (n.serial > c.floor)
  <2>1. HearNotice(c, n) = [c EXCEPT !.notices = Tail(c.notices)]
    BY <1>3 DEF HearNotice
  <2> QED BY <1>1, <2>1 DEF Listener
<1> QED BY <1>2, <1>3

(* A turn of the stream's loop never lowers its floor. *)
LEMMA HearFits ==
  ASSUME NEW c \in Listener, NEW s \in Notice, NEW g, MayHear(c)
  PROVE Hear(c, s, g) \in Listener /\ Hear(c, s, g).at = c.at /\ Hear(c, s, g).floor >= c.floor
<1>1. CASE c.pending # "none"
  <2>1. Hear(c, s, g) = [c EXCEPT !.pending = "none", !.heard = c.pending]
    BY <1>1 DEF Hear
  <2>2. Hear(c, s, g).at = c.at /\ Hear(c, s, g).floor = c.floor /\ c.floor \in Nat
    BY <2>1 DEF Listener
  <2>3. Hear(c, s, g) \in Listener
    BY <2>1, Zenon DEF Listener
  <2> QED BY <2>2, <2>3
<1>2. CASE c.pending = "none" /\ c.lagged
  <2>1. Replayable(s, g) \in Notice
    BY DEF Replayable, Notice
  <2>2. Hear(c, s, g) = Lag(c, s, g)
    BY <1>2 DEF Hear
  <2> DEFINE latest == Replayable(s, g)
  <2>3. latest.serial \in Nat /\ latest.phase \in Phases \cup {"none"} /\ c.floor \in Nat
    BY <2>1 DEF Notice, Listener
  <2> HIDE DEF latest
  <2>4. CASE latest.serial > c.floor
    <3>1. Hear(c, s, g) = [c EXCEPT !.lagged = FALSE, !.floor = latest.serial, !.pending = latest.phase]
      BY <2>2, <2>4 DEF Lag, latest
    <3>2. Hear(c, s, g).at = c.at /\ Hear(c, s, g).floor = latest.serial
      BY <3>1 DEF Listener
    <3>3. Hear(c, s, g) \in Listener
      BY <2>3, <3>1, Zenon DEF Listener
    <3> QED BY <2>3, <2>4, <3>2, <3>3
  <2>5. CASE ~ (latest.serial > c.floor)
    <3>1. Hear(c, s, g) = [c EXCEPT !.lagged = FALSE]
      BY <2>2, <2>5 DEF Lag, latest
    <3>2. Hear(c, s, g).at = c.at /\ Hear(c, s, g).floor = c.floor
      BY <3>1 DEF Listener
    <3>3. Hear(c, s, g) \in Listener
      BY <3>1, Zenon DEF Listener
    <3> QED BY <2>3, <3>2, <3>3
  <2> QED BY <2>4, <2>5
<1>3. CASE c.pending = "none" /\ ~ c.lagged
  <2>1. Head(c.notices) \in Notice /\ Tail(c.notices) \in Seq(Notice)
    BY <1>3 DEF MayHear, Listener
  <2>2. Hear(c, s, g) = HearNotice(c, Head(c.notices))
    BY <1>3 DEF Hear
  <2> QED BY <2>1, <2>2, HearNoticeFits DEF MayHear
<1> QED BY <1>1, <1>2, <1>3

-----------------------------------------------------------------------------
(* What subscribers are told.                                              *)

Subscribers ==
  /\ subs \in [Client -> Subscriber] /\ streams \in [Client -> Listener]
  /\ told \subseteq Client /\ revision \in Nat

(* Outside a serve round nobody is connected, and a client has one control *)
(* stream at most.                                                         *)
Ends ==
  /\ Serving \/ \A c \in Client : ~ Connected(c)
  /\ \A c \in Client : request[c].op = "control" => streams[c].at = "none"

(* A request counts as well as a subscription: it may subscribe later.     *)
Leavers ==
  \A c \in Automation :
    \/ request[c].at # "idle" /\ request[c].generation # policy
    \/ subs[c].at = "live" /\ subs[c].generation # policy
    => c \in told \/ reload.at = "published" \/ Aborting

Gapless ==
  serve = "loop" => Published \in Nat /\ \A c \in Client : Fresh(subs[c], Published)

Listening == Subscribers /\ Ends /\ Leavers /\ Gapless

(* Nobody listens when a round starts. *)
LEMMA InitListens == Init => Listening
<1> SUFFICES ASSUME Init PROVE Listening
  OBVIOUS
<1>1. NoSubscriber \in Subscriber /\ NoStream \in Listener /\ NoSubscriber.at = "none"
      /\ NoStream.at = "none"
  BY NothingIsTyped
<1>2. Subscribers
  BY <1>1 DEF Init, Subscribers
<1>3. Ends
  BY <1>1 DEF Init, Ends, Serving
<1>4. Leavers
  BY <1>1, ServeAssumption DEF Init, Leavers, NoRequest
<1>5. Published = 0
  BY DEF Init, Published, NoRequest
<1>6. Gapless
  BY <1>1, <1>5 DEF Init, Gapless, Fresh
<1> QED BY <1>2, <1>3, <1>4, <1>6 DEF Listening

(* Steps that neither move a request nor tell anyone anything. *)
LEMMA QuietSteps ==
  ASSUME Listening, UNCHANGED <<request, told, revision, subs, streams, policy, serve>>,
         reload.at = "published" => reload'.at = "published"
  PROVE Listening'
BY DEF Listening, Subscribers, Ends, Leavers, Gapless, Published, Serving, Aborting, Connected

(* A request that goes on has the policy it started with. *)
LEMMA RequestGoesOn ==
  ASSUME NEW c \in Client, NEW r, IInv, Listening,
         UNCHANGED <<told, subs, streams, policy, serve, reload>>,
         request' = [request EXCEPT ![c] = r],
         r.op = "control" => streams[c].at = "none",
         r.at # "idle" => \/ request[c].at # "idle" /\ r.generation = request[c].generation
                          \/ serve = "loop" /\ r.generation = policy,
         revision' \in Nat, Published' = Published
  PROVE Listening'
<1>1. /\ request'[c] = r
      /\ \A d \in Client : d # c => request'[d] = request[d]
  BY DEF IInv, Types
<1>2. Subscribers'
  BY DEF Listening, Subscribers
<1>3. Ends'
  BY <1>1 DEF Listening, Ends, Serving, Connected
<1>4. Leavers'
  BY <1>1, ServeAssumption DEF Listening, Leavers, Aborting
<1>5. Gapless'
  BY DEF Listening, Gapless
<1> QED BY <1>2, <1>3, <1>4, <1>5 DEF Listening

(* What is published changes with the revision and with who publishes. *)
LEMMA PublishedStays ==
  ASSUME revision' = revision,
         \A c \in Client : request'[c].at = "publish" <=> request[c].at = "publish"
  PROVE Published' = Published
BY DEF Published

(* Only the holder of the permit publishes. *)
LEMMA OnePublisher ==
  ASSUME IInv, NEW c \in Client, NEW d \in Client, permit = c, d # c
  PROVE request[d].at # "publish"
BY DEF IInv, PermitAgrees

(* Steps of requests that subscribe to nothing. *)
LEMMA RequestsListen ==
  ASSUME NEW c \in Client, IInv, Listening,
    \/ Admit(c)
    \/ Prompt(c)
    \/ Answer(c)
    \/ Retake(c)
    \/ Commit(c)
    \/ TakePermit(c)
    \/ Install(c)
    \/ \E op \in Operations : Ask(c, op)
  PROVE Listening'
<1>0. /\ request \in [Client -> [at : {"idle", "admit", "prompt", "retake", "run", "install", "publish"},
                                 op : Operations \cup {"none", "commit"}, generation : Nat]]
      /\ request[c].op = "control" => streams[c].at = "none"
      /\ revision \in Nat
  BY DEF IInv, Types, Listening, Ends, Subscribers
<1> DEFINE r == request[c]
<1>1. CASE Admit(c)
  <2> DEFINE q == IF gate = "Fenced" THEN NoRequest ELSE [r EXCEPT !.at = "run"]
  <2>1. request' = [request EXCEPT ![c] = q] /\ r.at = "admit"
    BY <1>1 DEF Admit
  <2>2. q.at \in {"idle", "run"} /\ q.op \in {r.op, "none"} /\ (q.at # "idle" => q.generation = r.generation)
    BY <1>0 DEF NoRequest
  <2> HIDE DEF q
  <2>3. Published' = Published
    BY <1>0, <1>1, <2>1, <2>2, PublishedStays DEF Admit
  <2> QED BY <1>0, <1>1, <2>1, <2>2, <2>3, RequestGoesOn, Zenon DEF Admit, policies
<1>2. CASE Prompt(c)
  <2> DEFINE q == [r EXCEPT !.at = "prompt"]
  <2>1. request' = [request EXCEPT ![c] = q] /\ r.at = "run"
    BY <1>2 DEF Prompt
  <2>2. q.at = "prompt" /\ q.op = r.op /\ q.generation = r.generation
    BY <1>0
  <2> HIDE DEF q
  <2>3. Published' = Published
    BY <1>0, <1>2, <2>1, <2>2, PublishedStays DEF Prompt
  <2> QED BY <1>0, <1>2, <2>1, <2>2, <2>3, RequestGoesOn, Zenon DEF Prompt, policies
<1>3. CASE Answer(c)
  <2> DEFINE q == [r EXCEPT !.at = "retake"]
  <2>1. request' = [request EXCEPT ![c] = q] /\ r.at = "prompt"
    BY <1>3 DEF Answer
  <2>2. q.at = "retake" /\ q.op = r.op /\ q.generation = r.generation
    BY <1>0
  <2> HIDE DEF q
  <2>3. Published' = Published
    BY <1>0, <1>3, <2>1, <2>2, PublishedStays DEF Answer
  <2> QED BY <1>0, <1>3, <2>1, <2>2, <2>3, RequestGoesOn, Zenon DEF Answer, policies
<1>4. CASE Retake(c)
  <2> DEFINE q == IF gate = "Fenced" THEN NoRequest ELSE [r EXCEPT !.at = "run", !.op = "commit"]
  <2>1. request' = [request EXCEPT ![c] = q] /\ r.at = "retake"
    BY <1>4 DEF Retake
  <2>2. q.at \in {"idle", "run"} /\ q.op \in {"commit", "none"} /\ (q.at # "idle" => q.generation = r.generation)
    BY <1>0 DEF NoRequest
  <2> HIDE DEF q
  <2>3. Published' = Published
    BY <1>0, <1>4, <2>1, <2>2, PublishedStays DEF Retake
  <2> QED BY <1>0, <1>4, <2>1, <2>2, <2>3, RequestGoesOn, Zenon DEF Retake, policies
<1>5. CASE Commit(c)
  <2>1. request' = [request EXCEPT ![c] = NoRequest] /\ r.at = "run"
    BY <1>5 DEF Commit
  <2>2. NoRequest.at = "idle" /\ NoRequest.op = "none"
    BY DEF NoRequest
  <2>3. Published' = Published
    BY <1>0, <1>5, <2>1, <2>2, PublishedStays, Zenon DEF Commit
  <2> QED BY <1>0, <1>5, <2>1, <2>2, <2>3, RequestGoesOn, Zenon DEF Commit, policies
<1>6. CASE TakePermit(c)
  <2> DEFINE q == [r EXCEPT !.at = "install"]
  <2>1. request' = [request EXCEPT ![c] = q] /\ r.at = "run"
    BY <1>6 DEF TakePermit
  <2>2. q.at = "install" /\ q.op = r.op /\ q.generation = r.generation
    BY <1>0
  <2> HIDE DEF q
  <2>3. Published' = Published
    BY <1>0, <1>6, <2>1, <2>2, PublishedStays DEF TakePermit
  <2> QED BY <1>0, <1>6, <2>1, <2>2, <2>3, RequestGoesOn, Zenon DEF TakePermit, policies
<1>7. CASE Install(c)
  <2> DEFINE q == [r EXCEPT !.at = "publish"]
  <2>1. request' = [request EXCEPT ![c] = q] /\ r.at = "install" /\ revision' = revision + 1
    BY <1>7 DEF Install
  <2>2. q.at = "publish" /\ q.op = r.op /\ q.generation = r.generation
    BY <1>0
  <2> HIDE DEF q
  <2>3. permit = c
    BY <2>1 DEF IInv, PermitAgrees
  <2>4. \A d \in Client : request[d].at # "publish"
    BY <2>1, <2>3, OnePublisher
  <2>5. request'[c].at = "publish"
    BY <1>0, <2>1, <2>2
  <2>6. Published' = Published
    BY <1>0, <2>1, <2>4, <2>5 DEF Published
  <2>7. revision' \in Nat
    BY <1>0, <2>1
  <2> QED BY <1>0, <1>7, <2>1, <2>2, <2>6, <2>7, RequestGoesOn, Zenon DEF Install, policies
<1>8. ASSUME NEW op \in Operations, Ask(c, op) PROVE Listening'
  <2> DEFINE q == [at |-> "admit", op |-> op, generation |-> policy]
  <2>1. request' = [request EXCEPT ![c] = q] /\ r.at = "idle" /\ serve = "loop"
    BY <1>8 DEF Ask
  <2>2. q.at = "admit" /\ q.op = op /\ q.generation = policy
    OBVIOUS
  <2> HIDE DEF q
  <2>3. Published' = Published
    BY <1>0, <1>8, <2>1, <2>2, PublishedStays DEF Ask
  <2> QED BY <1>0, <1>8, <2>1, <2>2, <2>3, RequestGoesOn, Zenon DEF Ask, policies
<1> QED BY <1>1, <1>2, <1>3, <1>4, <1>5, <1>6, <1>7, <1>8

(* A broadcast of the hub keeps everyone's subscription. *)
LEMMA HubTells ==
  ASSUME Subscribers, NEW e \in Event, subs' = [c \in Client |-> Broadcast(subs[c], e)]
  PROVE /\ subs' \in [Client -> Subscriber]
        /\ \A c \in Client : /\ subs'[c].at = subs[c].at
                             /\ subs'[c].generation = subs[c].generation
                             /\ subs'[c] = Broadcast(subs[c], e)
BY BroadcastFits DEF Subscribers

(* So does one of the control channel. *)
LEMMA ChannelTells ==
  ASSUME Subscribers, NEW n \in Notice, streams' = [c \in Client |-> Notify(streams[c], n)]
  PROVE /\ streams' \in [Client -> Listener]
        /\ \A c \in Client : /\ streams'[c].at = streams[c].at
                             /\ streams'[c].floor = streams[c].floor
BY NotifyFits DEF Subscribers

(* Publishing a phase tells the subscribers, and ends none of them. *)
LEMMA StatusListens ==
  ASSUME NEW phase \in Phases, IInv, Listening, PublishStatus(phase),
         UNCHANGED <<request, told, revision, policy, serve, reload>>
  PROVE Listening'
<1> DEFINE e == HubEvent(phase)
<1>1. e \in Event /\ e.phase # "change"
  BY DEF HubEvent, Event, Listening, Subscribers, Phases
<1>2. last' \in Notice
  BY DEF PublishStatus, IInv, Types, Notice
<1>3. /\ subs' \in [Client -> Subscriber]
      /\ \A c \in Client : /\ subs'[c].at = subs[c].at
                           /\ subs'[c].generation = subs[c].generation
                           /\ subs'[c] = Broadcast(subs[c], e)
  BY <1>1, HubTells DEF PublishStatus, Listening
<1>4. /\ streams' \in [Client -> Listener]
      /\ \A c \in Client : streams'[c].at = streams[c].at
  BY <1>2, ChannelTells, Zenon DEF PublishStatus, Listening
<1>5. Subscribers'
  BY <1>3, <1>4 DEF Listening, Subscribers
<1>6. Ends'
  BY <1>3, <1>4 DEF Listening, Ends, Serving, Connected
<1>7. Leavers'
  BY <1>3, ServeAssumption DEF Listening, Leavers, Aborting
<1>8. Published' = Published
  BY DEF Published
<1>9. Gapless'
  BY <1>1, <1>3, <1>8, StatusFresh DEF Listening, Gapless, Subscribers
<1> QED BY <1>5, <1>6, <1>7, <1>9 DEF Listening

(* Publishing a change brings everyone to the revision installed. *)
LEMMA TopologyListens ==
  ASSUME NEW c \in Client, IInv, Listening, PublishTopology(c) PROVE Listening'
<1> DEFINE e == HubEvent("change")
<1>0. /\ request \in [Client -> [at : {"idle", "admit", "prompt", "retake", "run", "install", "publish"},
                                 op : Operations \cup {"none", "commit"}, generation : Nat]]
      /\ revision \in Nat /\ request[c].at = "publish"
      /\ request' = [request EXCEPT ![c] = NoRequest]
      /\ UNCHANGED <<told, revision, streams, policy, serve, reload>>
  BY DEF IInv, Types, Listening, Subscribers, PublishTopology, policies
<1>1. e \in Event /\ e = [revision |-> revision, phase |-> "change"]
  BY <1>0 DEF HubEvent, Event
<1>2. /\ subs' \in [Client -> Subscriber]
      /\ \A d \in Client : /\ subs'[d].at = subs[d].at
                           /\ subs'[d].generation = subs[d].generation
                           /\ subs'[d] = Broadcast(subs[d], e)
  BY <1>1, HubTells DEF PublishTopology, Listening
<1>3. /\ request'[c].at = "idle" /\ request'[c].op = "none"
      /\ \A d \in Client : d # c => request'[d] = request[d]
  BY <1>0 DEF NoRequest
<1>4. Subscribers'
  BY <1>0, <1>2, Zenon DEF Listening, Subscribers
<1>5. Ends'
  BY <1>0, <1>2, <1>3 DEF Listening, Ends, Serving, Connected
<1>6. Leavers'
  BY <1>0, <1>2, <1>3, ServeAssumption DEF Listening, Leavers, Aborting
<1>7. permit = c
  BY <1>0 DEF IInv, PermitAgrees
<1>8. \A d \in Client : request'[d].at # "publish"
  BY <1>3, <1>7, OnePublisher
<1>9. Published = revision - 1 /\ Published' = revision
  BY <1>0, <1>8 DEF Published
<1>10. Gapless'
  <2> SUFFICES ASSUME serve = "loop", NEW d \in Client PROVE Fresh(subs'[d], revision)
    BY <1>0, <1>9 DEF Gapless
  <2>1. Published \in Nat /\ revision = Published + 1 /\ Fresh(subs[d], Published)
    BY <1>0, <1>9 DEF Listening, Gapless
  <2>2. subs[d] \in Subscriber
    BY DEF Listening, Subscribers
  <2>3. Fresh(Broadcast(subs[d], [revision |-> Published + 1, phase |-> "change"]), Published + 1)
    BY <2>1, <2>2, ChangeFresh
  <2> QED BY <1>1, <1>2, <2>1, <2>3
<1> QED BY <1>4, <1>5, <1>6, <1>10 DEF Listening

(* A snapshot is taken under the permit: no change is between its          *)
(* installation and its publication.                                       *)
LEMMA SubscribeListens ==
  ASSUME NEW c \in Client, IInv, Listening, SubscribeTopology(c) PROVE Listening'
<1> DEFINE s == Subscribe(revision, request[c].generation)
<1>0. /\ request \in [Client -> [at : {"idle", "admit", "prompt", "retake", "run", "install", "publish"},
                                 op : Operations \cup {"none", "commit"}, generation : Nat]]
      /\ revision \in Nat /\ request[c].at = "run" /\ permit = "free"
      /\ request' = [request EXCEPT ![c] = NoRequest]
      /\ subs' = [subs EXCEPT ![c] = s] /\ subs \in [Client -> Subscriber]
      /\ UNCHANGED <<told, revision, streams, policy, serve, reload>>
  BY DEF IInv, Types, Listening, Subscribers, SubscribeTopology, policies
<1>1. s \in Subscriber /\ Fresh(s, revision)
  BY <1>0, SubscribeFresh
<1>2. s.at = "live" /\ s.generation = request[c].generation
  BY DEF Subscribe
<1> HIDE DEF s
<1>3. /\ request'[c].at = "idle" /\ request'[c].op = "none" /\ subs'[c] = s
      /\ \A d \in Client : d # c => request'[d] = request[d] /\ subs'[d] = subs[d]
  BY <1>0 DEF NoRequest
<1>4. Subscribers'
  BY <1>0, <1>1 DEF Listening, Subscribers
<1>5. Ends'
  BY <1>0, <1>3 DEF Listening, Ends, Serving, Connected
<1>6. Leavers'
  BY <1>0, <1>2, <1>3, ServeAssumption DEF Listening, Leavers, Aborting
<1>7. \A d \in Client : request[d].at # "publish"
  BY <1>0, ServeAssumption DEF IInv, PermitAgrees
<1>8. Published = revision /\ Published' = revision
  BY <1>0, <1>3, <1>7 DEF Published
<1>9. Gapless'
  BY <1>0, <1>1, <1>3, <1>8 DEF Listening, Gapless
<1> QED BY <1>4, <1>5, <1>6, <1>9 DEF Listening

(* A control stream starts where the client had none. *)
LEMMA ControlListens ==
  ASSUME NEW c \in Client, IInv, Listening, ControlStarts(c) PROVE Listening'
<1> DEFINE s == SubscribeControl(last, gate)
<1>0. /\ request \in [Client -> [at : {"idle", "admit", "prompt", "retake", "run", "install", "publish"},
                                 op : Operations \cup {"none", "commit"}, generation : Nat]]
      /\ request[c].at = "run"
      /\ request' = [request EXCEPT ![c] = NoRequest]
      /\ streams' = [streams EXCEPT ![c] = s] /\ streams \in [Client -> Listener]
      /\ UNCHANGED <<told, revision, subs, policy, serve, reload>>
  BY DEF IInv, Types, Listening, Subscribers, ControlStarts, policies
<1>1. s \in Listener
  <2>1. Replayable(last, gate) \in Notice
    BY DEF Replayable, Notice, IInv, Types
  <2> DEFINE seed == Replayable(last, gate)
             pending == IF seed.phase = "Cancelled" THEN "none" ELSE seed.phase
  <2>2. seed.serial \in Nat /\ pending \in Phases \cup {"none"}
    BY <2>1 DEF Notice
  <2>3. s = [NoStream EXCEPT !.at = "live", !.floor = seed.serial, !.pending = pending]
    BY DEF SubscribeControl
  <2>4. NoStream \in Listener
    BY NothingIsTyped
  <2> HIDE DEF seed, pending
  <2> QED BY <2>2, <2>3, <2>4, Zenon DEF Listener
<1> HIDE DEF s
<1>3. /\ request'[c].at = "idle" /\ request'[c].op = "none"
      /\ \A d \in Client : d # c => request'[d] = request[d] /\ streams'[d] = streams[d]
  BY <1>0 DEF NoRequest
<1>4. Subscribers'
  BY <1>0, <1>1 DEF Listening, Subscribers
<1>5. Ends'
  BY <1>0, <1>3, Zenon DEF Listening, Ends, Serving, Connected
<1>6. Leavers'
  BY <1>0, <1>3, ServeAssumption, Zenon DEF Listening, Leavers, Aborting
<1>7. Published' = Published
  BY <1>0, <1>3, PublishedStays
<1>8. Gapless'
  BY <1>0, <1>7 DEF Listening, Gapless
<1> QED BY <1>4, <1>5, <1>6, <1>8 DEF Listening

(* A connection that ends takes its subscriptions down. *)
LEMMA ConnectionEnds ==
  ASSUME NEW c \in Client, IInv, Listening, Disconnect(c) \/ AbortConnection(c) PROVE Listening'
<1>0. /\ request \in [Client -> [at : {"idle", "admit", "prompt", "retake", "run", "install", "publish"},
                                 op : Operations \cup {"none", "commit"}, generation : Nat]]
      /\ subs' = [subs EXCEPT ![c] = NoSubscriber] /\ subs \in [Client -> Subscriber]
      /\ streams' = [streams EXCEPT ![c] = NoStream] /\ streams \in [Client -> Listener]
      /\ told' = told \ {c}
      /\ UNCHANGED <<revision, policy, serve, reload>>
  BY DEF IInv, Types, Listening, Subscribers, Disconnect, AbortConnection, policies
<1>1. NoSubscriber \in Subscriber /\ NoStream \in Listener /\ NoSubscriber.at = "none"
      /\ NoStream.at = "none"
  BY NothingIsTyped
<1>2. /\ request'[c].at = "idle"
      /\ \A d \in Client : d # c => request'[d] = request[d]
  <2>1. CASE Disconnect(c)
    BY <2>1, Zenon DEF Disconnect
  <2>2. CASE AbortConnection(c)
    BY <1>0, <2>2 DEF AbortConnection, NoRequest
  <2> QED BY <2>1, <2>2
<1>3. /\ subs'[c].at = "none" /\ streams'[c].at = "none"
      /\ \A d \in Client : d # c => subs'[d] = subs[d] /\ streams'[d] = streams[d]
  BY <1>0, <1>1
<1>4. Subscribers'
  BY <1>0, <1>1 DEF Listening, Subscribers
<1>5. Ends'
  <2>1. \A d \in Client : Connected(d)' => Connected(d)
    BY <1>0, <1>2, <1>3, Zenon DEF Connected
  <2>2. Serving' \/ \A d \in Client : ~ Connected(d)'
    BY <1>0, <2>1 DEF Listening, Ends, Serving
  <2>3. \A d \in Client : request[d].op = "control" => streams[d].at = "none"
    BY DEF Listening, Ends
  <2>4. \A d \in Client : request'[d].op = "control" => streams'[d].at = "none"
    BY <1>2, <1>3, <2>3
  <2> QED BY <2>2, <2>4 DEF Ends
<1>6. Leavers'
  BY <1>0, <1>2, <1>3, ServeAssumption DEF Listening, Leavers, Aborting
<1>7. Gapless'
  <2> SUFFICES ASSUME serve = "loop" PROVE Gapless'
    BY <1>0 DEF Gapless
  <2>1. Disconnect(c)
    BY DEF AbortConnection, Aborting
  <2>2. Published' = Published
    BY <1>0, <2>1, PublishedStays DEF Disconnect
  <2>3. Fresh(subs'[c], Published)
    BY <1>3, Zenon DEF Fresh
  <2> QED BY <1>0, <1>3, <2>2, <2>3 DEF Listening, Gapless
<1> QED BY <1>4, <1>5, <1>6, <1>7 DEF Listening

(* The subscriptions' tasks keep what they are about. *)
LEMMA TasksListen ==
  ASSUME NEW c \in Client, IInv, Listening,
         StreamTopology(c) \/ EndSubscription(c) \/ StreamControl(c)
  PROVE Listening'
<1>0. /\ subs \in [Client -> Subscriber] /\ streams \in [Client -> Listener]
      /\ UNCHANGED <<request, told, revision, policy, serve, reload>>
  BY DEF Listening, Subscribers, StreamTopology, EndSubscription, StreamControl, policies, clients
<1>1. Published' = Published
  BY <1>0 DEF Published
<1>2. CASE StreamTopology(c)
  <2>1. subs' = [subs EXCEPT ![c] = Stream(subs[c])] /\ MayStream(subs[c]) /\ streams' = streams
    BY <1>2 DEF StreamTopology
  <2>2. /\ Stream(subs[c]) \in Subscriber /\ Stream(subs[c]).at = subs[c].at
        /\ Stream(subs[c]).generation = subs[c].generation
    BY <1>0, <2>1, StreamFits
  <2>3. serve = "loop" => Fresh(Stream(subs[c]), Published)
    BY <1>0, <2>1, StreamFresh DEF Listening, Gapless
  <2>4. Subscribers'
    BY <1>0, <2>1, <2>2 DEF Listening, Subscribers
  <2>5. Ends'
    BY <1>0, <2>1, <2>2 DEF Listening, Ends, Serving, Connected
  <2>6. Leavers'
    BY <1>0, <2>1, <2>2, ServeAssumption, Zenon DEF Listening, Leavers, Aborting
  <2>7. Gapless'
    BY <1>0, <1>1, <2>1, <2>3 DEF Listening, Gapless
  <2> QED BY <2>4, <2>5, <2>6, <2>7 DEF Listening
<1>3. CASE EndSubscription(c)
  <2>1. subs' = [subs EXCEPT ![c] = NoSubscriber] /\ streams' = streams
    BY <1>3 DEF EndSubscription
  <2>2. NoSubscriber \in Subscriber /\ NoSubscriber.at = "none"
    BY NothingIsTyped
  <2>3. Fresh(NoSubscriber, Published)
    BY <2>2 DEF Fresh
  <2>4. Subscribers'
    BY <1>0, <2>1, <2>2 DEF Listening, Subscribers
  <2>5. Ends'
    BY <1>0, <2>1, <2>2 DEF Listening, Ends, Serving, Connected
  <2>6. Leavers'
    BY <1>0, <2>1, <2>2, ServeAssumption DEF Listening, Leavers, Aborting
  <2>7. Gapless'
    BY <1>0, <1>1, <2>1, <2>3 DEF Listening, Gapless
  <2> QED BY <2>4, <2>5, <2>6, <2>7 DEF Listening
<1>4. CASE StreamControl(c)
  <2>1. /\ streams' = [streams EXCEPT ![c] = Hear(streams[c], last, gate)]
        /\ MayHear(streams[c]) /\ subs' = subs
    BY <1>4 DEF StreamControl
  <2>2. Hear(streams[c], last, gate) \in Listener
        /\ Hear(streams[c], last, gate).at = streams[c].at
    BY <1>0, <2>1, HearFits DEF IInv, Types, Notice
  <2>4. Subscribers'
    BY <1>0, <2>1, <2>2 DEF Listening, Subscribers
  <2>5. Ends'
    BY <1>0, <2>1, <2>2, Zenon DEF Listening, Ends, Serving, Connected
  <2>6. Leavers'
    BY <1>0, <2>1, ServeAssumption, Zenon DEF Listening, Leavers, Aborting
  <2>7. Gapless'
    BY <1>0, <1>1, <2>1 DEF Listening, Gapless
  <2> QED BY <2>4, <2>5, <2>6, <2>7 DEF Listening
<1> QED BY <1>2, <1>3, <1>4

(* A notice about something else reaches the control streams only. *)
LEMMA NoticeListens == ASSUME IInv, Listening, ControlNotice PROVE Listening'
<1>1. UNCHANGED <<request, told, revision, subs, policy, serve, reload>>
  BY DEF ControlNotice, clients, policies
<1>2. [serial |-> 0, phase |-> "none"] \in Notice
  BY DEF Notice
<1>3. /\ streams' \in [Client -> Listener]
      /\ \A c \in Client : streams'[c].at = streams[c].at
  BY <1>2, ChannelTells DEF ControlNotice, Listening
<1>4. Subscribers'
  BY <1>1, <1>3 DEF Listening, Subscribers
<1>5. Ends'
  BY <1>1, <1>3 DEF Listening, Ends, Serving, Connected
<1>6. Leavers' /\ Gapless'
  BY <1>1 DEF Listening, Leavers, Aborting, Gapless, Published
<1> QED BY <1>4, <1>5, <1>6 DEF Listening

(* A reload that has published takes the automation clients out, and tells *)
(* those whose request may still subscribe.                                *)
LEMMA PoliciesListen ==
  ASSUME IInv, Listening, PublishPolicy \/ RemoveAutomation PROVE Listening'
<1>0. /\ subs \in [Client -> Subscriber]
      /\ UNCHANGED <<request, revision, streams, serve>>
  BY DEF Listening, Subscribers, PublishPolicy, RemoveAutomation, clients, listeners
<1>1. Published' = Published
  BY <1>0 DEF Published
<1>2. CASE PublishPolicy
  <2>1. UNCHANGED <<told, subs>> /\ reload'.at = "published"
    BY <1>2 DEF PublishPolicy, clients, listeners, IInv, Types
  <2>2. Subscribers' /\ Ends' /\ Gapless'
    BY <1>0, <1>1, <2>1, Zenon DEF Listening, Subscribers, Ends, Serving, Connected, Gapless
  <2>3. Leavers'
    BY <2>1 DEF Leavers
  <2> QED BY <2>2, <2>3 DEF Listening
<1>3. CASE RemoveAutomation
  <2>1. /\ subs' = [c \in Client |-> IF c \in Automation THEN Remove(subs[c]) ELSE subs[c]]
        /\ told' = IF Serving THEN Automation ELSE {}
        /\ policy' = policy
    BY <1>3 DEF RemoveAutomation
  <2>2. \A c \in Client : /\ Remove(subs[c]) \in Subscriber
                          /\ Remove(subs[c]).at # "live"
                          /\ subs[c].at = "none" => Remove(subs[c]) = subs[c]
    BY <1>0, Zenon DEF Remove, Subscriber
  <2>3. \A c \in Client : /\ subs'[c] \in Subscriber
                          /\ subs'[c].at # "live" \/ subs'[c] = subs[c]
                          /\ c \in Automation => subs'[c].at # "live"
                          /\ subs[c].at = "none" => subs'[c] = subs[c]
    BY <1>0, <2>1, <2>2
  <2>4. Subscribers'
    BY <1>0, <2>1, <2>3, ServeAssumption DEF Listening, Subscribers
  <2>5. Ends'
    BY <1>0, <2>1, <2>3 DEF Listening, Ends, Serving, Connected
  <2>6. Leavers'
    BY <1>0, <2>1, <2>3, ServeAssumption, Zenon DEF Listening, Leavers, Ends, Serving, Connected
  <2>7. \A c \in Client : Fresh(subs[c], Published) => Fresh(subs'[c], Published)
    BY <2>3 DEF Fresh
  <2>8. Gapless'
    BY <1>0, <1>1, <2>7 DEF Listening, Gapless
  <2> QED BY <2>4, <2>5, <2>6, <2>8 DEF Listening
<1> QED BY <1>2, <1>3

(* The round leaves its loop with everyone connected, and goes on only     *)
(* when nobody is.                                                         *)
LEMMA RoundListens ==
  ASSUME IInv, Listening,
    \/ LeaveToShutDown
    \/ LeaveToExec
    \/ StopForExec
    \/ CancelDeposit
    \/ DepositCancelled
    \/ DrainReloads
    \/ Shutdown
    \/ Cross
    \/ Exec
    \/ Resume
  PROVE Listening'
<1>0. UNCHANGED <<request, told, revision, subs, streams>>
  BY DEF LeaveToShutDown, LeaveToExec, StopForExec, CancelDeposit, DepositCancelled,
    DrainReloads, Shutdown, Cross, Exec, Resume, clients, listeners
<1>1. Subscribers'
  BY <1>0 DEF Listening, Subscribers
<1>3. CASE LeaveToShutDown \/ LeaveToExec
  <2>1. serve = "loop" /\ serve' \in {"aborting", "aborting_exec"}
    BY <1>3 DEF LeaveToShutDown, LeaveToExec
  <2> QED BY <1>0, <1>1, <2>1 DEF Listening, Ends, Leavers, Gapless, Serving, Aborting
<1>4. CASE ~ (LeaveToShutDown \/ LeaveToExec)
  <2>1. \A c \in Client : ~ Connected(c)
    BY <1>4 DEF StopForExec, CancelDeposit, DepositCancelled, DrainReloads, Shutdown, Cross,
      Exec, Resume, Joined, Listening, Ends, Serving
  <2>2. \A c \in Client : request[c].at = "idle" /\ subs[c].at = "none" /\ ~ Connected(c)'
    BY <1>0, <2>1 DEF Connected
  <2>3. Ends'
    BY <1>0, <2>2 DEF Listening, Ends
  <2>4. Leavers'
    BY <1>0, <2>2, ServeAssumption DEF Leavers
  <2>5. Published' = revision /\ revision \in Nat
    BY <1>0, <2>2 DEF Published, Listening, Subscribers
  <2>6. Gapless'
    BY <1>0, <2>2, <2>5 DEF Gapless, Fresh
  <2> QED BY <1>1, <2>3, <2>4, <2>6 DEF Listening
<1> QED BY <1>3, <1>4

(* Steps of the attempt and of a reload that tell nobody. *)
LEMMA OthersListen ==
  ASSUME IInv, Listening,
    \/ Begin \/ FinishWork \/ Drain \/ Raise \/ FenceTimesOut \/ Deposit
    \/ Leave \/ AbortAttempt \/ Release
    \/ EditPolicy \/ RequestReload \/ ReadPolicy \/ CompleteReload \/ Terminate
  PROVE Listening'
<1>1. UNCHANGED <<request, told, revision, subs, streams, policy, serve>>
  BY DEF Begin, FinishWork, Drain, Raise, FenceTimesOut, Deposit, Leave, AbortAttempt,
    Release, EditPolicy, RequestReload, ReadPolicy, CompleteReload, Terminate,
    clients, listeners, policies
<1>2. reload.at = "published" => reload'.at = "published"
  <2>1. CASE reload' = reload
    BY <2>1
  <2>2. CASE RequestReload \/ ReadPolicy \/ CompleteReload
    BY <2>2 DEF RequestReload, ReadPolicy, CompleteReload, IInv, Types
  <2> QED BY <2>1, <2>2 DEF Begin, FinishWork, Drain, Raise, FenceTimesOut, Deposit, Leave,
        AbortAttempt, Release, EditPolicy, Terminate, policies
<1> QED BY <1>1, <1>2, QuietSteps

(* The phases an attempt broadcasts. *)
LEMMA PhasesListen ==
  ASSUME IInv, Listening, PublishPreparing \/ PublishFenced \/ PublishCancelled
  PROVE Listening'
<1>1. UNCHANGED <<request, told, revision, policy, serve, reload>>
  BY DEF PublishPreparing, PublishFenced, PublishCancelled, clients, policies
<1>2. \E phase \in Phases : PublishStatus(phase)
  BY DEF PublishPreparing, PublishFenced, PublishCancelled, Phases
<1> QED BY <1>1, <1>2, StatusListens

(* Every step keeps what subscribers are told. *)
LEMMA NextListens == IInv /\ Listening /\ [Next]_vars => Listening'
<1> SUFFICES ASSUME IInv, Listening, [Next]_vars PROVE Listening'
  OBVIOUS
<1>1. CASE UNCHANGED vars
  BY <1>1, QuietSteps DEF vars
<1>2. CASE Next
  BY <1>2, RequestsListen, TopologyListens, SubscribeListens, ControlListens, ConnectionEnds,
    TasksListen, NoticeListens, PoliciesListen, RoundListens, OthersListen, PhasesListen
    DEF Next, Scheduled, Fence
<1> QED BY <1>1, <1>2

(* Subscriptions always agree with requests, policies and revisions. *)
THEOREM SubscriptionsAgree == Spec => []Listening
BY InitHolds, NextKeeps, InitListens, NextListens, PTL DEF Spec

(* Whatever reloads and requests interleave, an automation client whose    *)
(* subscription a newer policy has not authorized is being taken down.     *)
THEOREM OldPoliciesLeave == Spec => []OldPolicyIsLeaving
<1>1. Listening => OldPolicyIsLeaving
  BY DEF Listening, Leavers, OldPolicyIsLeaving
<1> QED BY SubscriptionsAgree, <1>1, PTL

(* With queues of any length, a change that reaches a subscriber is the    *)
(* successor of what it has, as long as the round goes on.                 *)
THEOREM GapsAreNeverSilent == Spec => []NoSilentGap
<1>1. Listening => NoSilentGap
  BY HeadFollows DEF Listening, Subscribers, Gapless, NoSilentGap
<1> QED BY SubscriptionsAgree, <1>1, PTL

(* Only these steps touch a subscription. *)
LEMMA WhoTells ==
  ASSUME Next, <<subs, streams>>' # <<subs, streams>>
  PROVE \/ PublishPreparing \/ PublishFenced \/ PublishCancelled \/ ControlNotice
        \/ \E c \in Client : ControlStarts(c) \/ Disconnect(c) \/ StreamControl(c) \/ AbortConnection(c)
        \/ \E c \in Client : \/ PublishTopology(c) \/ SubscribeTopology(c)
                              \/ StreamTopology(c) \/ EndSubscription(c)
        \/ RemoveAutomation
<1>1. \A c \in Client, op \in Operations : ~ Ask(c, op)
  BY DEF Ask
<1>2. \A c \in Client :
        ~ \/ Answer(c) \/ Admit(c) \/ Prompt(c) \/ Retake(c) \/ Commit(c)
          \/ TakePermit(c) \/ Install(c)
  BY DEF Answer, Admit, Prompt, Retake, Commit, TakePermit, Install
<1>3. ~ \/ Begin \/ FinishWork \/ Drain \/ Raise \/ FenceTimesOut \/ Deposit
        \/ Leave \/ AbortAttempt \/ Release
  BY DEF Begin, FinishWork, Drain, Raise, FenceTimesOut, Deposit, Leave, AbortAttempt,
    Release, listeners
<1>4. ~ \/ EditPolicy \/ RequestReload \/ ReadPolicy \/ PublishPolicy
        \/ CompleteReload \/ Terminate
  BY DEF EditPolicy, RequestReload, ReadPolicy, PublishPolicy, CompleteReload, Terminate,
    listeners
<1>5. ~ \/ LeaveToShutDown \/ LeaveToExec \/ StopForExec \/ CancelDeposit \/ DepositCancelled
        \/ DrainReloads \/ Shutdown \/ Cross \/ Exec \/ Resume
  BY DEF LeaveToShutDown, LeaveToExec, StopForExec, CancelDeposit, DepositCancelled,
    DrainReloads, Shutdown, Cross, Exec, Resume, listeners
<1> QED BY <1>1, <1>2, <1>3, <1>4, <1>5 DEF Next, Scheduled, Fence

(* A stream that stays live never goes back behind what it was told. *)
LEMMA FloorsRise ==
  ASSUME IInv, Listening, Next, NEW c \in Client,
         streams[c].at = "live", streams'[c].at = "live"
  PROVE streams'[c].floor >= streams[c].floor
<1>0. streams \in [Client -> Listener] /\ streams[c].floor \in Nat
  BY DEF Listening, Subscribers, Listener
<1>1. CASE streams' = streams
  BY <1>0, <1>1
<1>2. CASE PublishPreparing \/ PublishFenced \/ PublishCancelled
  <2>1. last' \in Notice
    BY <1>2 DEF PublishPreparing, PublishFenced, PublishCancelled, PublishStatus, IInv, Types,
      Notice, Phases
  <2>2. streams' = [d \in Client |-> Notify(streams[d], last')]
    BY <1>2 DEF PublishPreparing, PublishFenced, PublishCancelled, PublishStatus
  <2> QED BY <1>0, <2>1, <2>2, ChannelTells DEF Listening
<1>3. CASE ControlNotice
  <2>1. [serial |-> 0, phase |-> "none"] \in Notice
    BY DEF Notice
  <2> QED BY <1>0, <1>3, <2>1, ChannelTells DEF Listening, ControlNotice
<1>4. ASSUME NEW d \in Client, ControlStarts(d) PROVE streams'[c].floor >= streams[c].floor
  <2>1. d # c
    BY <1>4 DEF ControlStarts, Listening, Ends
  <2> QED BY <1>0, <1>4, <2>1 DEF ControlStarts
<1>5. ASSUME NEW d \in Client, Disconnect(d) \/ AbortConnection(d)
      PROVE streams'[c].floor >= streams[c].floor
  <2>1. streams' = [streams EXCEPT ![d] = NoStream] /\ NoStream.at = "none"
    BY <1>5 DEF Disconnect, AbortConnection, NoStream
  <2> QED BY <1>0, <2>1
<1>6. ASSUME NEW d \in Client, StreamControl(d) PROVE streams'[c].floor >= streams[c].floor
  <2>1. /\ streams' = [streams EXCEPT ![d] = Hear(streams[d], last, gate)]
        /\ MayHear(streams[d]) /\ last \in Notice
    BY <1>6 DEF StreamControl, IInv, Types, Notice
  <2>2. Hear(streams[d], last, gate).floor >= streams[d].floor
    BY <1>0, <2>1, HearFits
  <2> QED BY <1>0, <2>1, <2>2
<1>7. ASSUME \/ RemoveAutomation
             \/ \E d \in Client : \/ PublishTopology(d) \/ SubscribeTopology(d)
                                   \/ StreamTopology(d) \/ EndSubscription(d)
      PROVE streams' = streams
  BY <1>7 DEF RemoveAutomation, PublishTopology, SubscribeTopology, StreamTopology, EndSubscription
<1> QED BY <1>1, <1>2, <1>3, <1>4, <1>5, <1>6, <1>7, WhoTells, Zenon

(* The phases of any number of attempts are broadcast in order: release    *)
(* takes the hub's lock before the gate opens for the next attempt.  A     *)
(* control stream raises its floor with all it hears, so none of it is     *)
(* older than what came before.                                            *)
THEOREM PhaseOrder == Spec => PhasesInOrder
<1> DEFINE Ordered ==
      last'.serial > last.serial =>
        /\ last'.phase = "Preparing" => last.phase \in {"none", "Cancelled"}
        /\ last'.phase = "Fenced" => last.phase = "Preparing"
    Rising ==
      \A c \in Client :
        streams[c].at = "live" /\ streams'[c].at = "live"
          => streams'[c].floor >= streams[c].floor
<1>1. IInv /\ Listening /\ [Next]_vars => [Ordered /\ Rising]_vars
  <2> SUFFICES ASSUME IInv, Listening, Next PROVE Ordered
    BY FloorsRise DEF vars
  <2>1. CASE last' = last
    BY <2>1 DEF IInv, Types
  <2>2. CASE PublishPreparing
    BY <2>2 DEF PublishPreparing, PublishStatus, IInv, PhasesAgree
  <2>3. CASE PublishFenced
    BY <2>3 DEF PublishFenced, PublishStatus, IInv, PhasesAgree
  <2>4. CASE PublishCancelled
    BY <2>4, Zenon DEF PublishCancelled, PublishStatus
  <2>5. CASE Resume
    BY <2>5 DEF Resume, NoStatus, IInv, Types
  <2> QED BY <2>1, <2>2, <2>3, <2>4, <2>5, WhoPublishes
<1> QED BY LocksAgree, SubscriptionsAgree, <1>1, PTL DEF Spec, PhasesInOrder

(* Only these steps move a reload, a signal or a policy. *)
LEMMA WhoReloads ==
  ASSUME Next, policies' # policies
  PROVE \/ RequestReload \/ ReadPolicy \/ PublishPolicy \/ RemoveAutomation
        \/ CompleteReload \/ StopForExec \/ DrainReloads \/ EditPolicy \/ Resume
<1>1. \A c \in Client, op \in Operations : ~ Ask(c, op)
  BY DEF Ask, policies
<1>2. \A c \in Client :
        ~ \/ Answer(c) \/ Admit(c) \/ Prompt(c) \/ Retake(c) \/ Commit(c)
          \/ TakePermit(c) \/ Install(c) \/ PublishTopology(c)
          \/ SubscribeTopology(c) \/ ControlStarts(c) \/ Disconnect(c)
          \/ StreamTopology(c) \/ EndSubscription(c) \/ StreamControl(c) \/ AbortConnection(c)
  BY DEF Answer, Admit, Prompt, Retake, Commit, TakePermit, Install, PublishTopology,
    SubscribeTopology, ControlStarts, Disconnect, StreamTopology, EndSubscription,
    StreamControl, AbortConnection, policies
<1>3. ~ \/ Begin \/ PublishPreparing \/ FinishWork \/ Drain \/ Raise \/ FenceTimesOut
        \/ PublishFenced \/ Deposit \/ Leave \/ AbortAttempt \/ Release \/ PublishCancelled
  BY DEF Begin, PublishPreparing, FinishWork, Drain, Raise, FenceTimesOut, PublishFenced,
    Deposit, Leave, AbortAttempt, Release, PublishCancelled, policies
<1>4. ~ (ControlNotice \/ Terminate)
  BY DEF ControlNotice, Terminate, policies
<1>5. ~ \/ LeaveToShutDown \/ LeaveToExec \/ CancelDeposit \/ DepositCancelled
        \/ Shutdown \/ Cross \/ Exec
  BY DEF LeaveToShutDown, LeaveToExec, CancelDeposit, DepositCancelled, Shutdown, Cross,
    Exec, policies
<1> QED BY <1>1, <1>2, <1>3, <1>4, <1>5 DEF Next, Scheduled, Fence

(* A reload that has published is never cut: the exec boundary abandons    *)
(* reloads only under the fence, whose permit a published reload has.      *)
THEOREM ReloadsAreWhole == Spec => ReloadIsWhole
<1> DEFINE Whole == reload.at = "published" => reload'.at \in {"published", "done"}
<1>1. IInv /\ [Next]_vars => [Whole]_vars
  <2> SUFFICES ASSUME IInv, Next, reload.at = "published" PROVE reload'.at \in {"published", "done"}
    BY DEF vars
  <2>1. CASE reload' = reload
    BY <2>1
  <2>2. CASE RequestReload \/ RemoveAutomation
    BY <2>2 DEF RequestReload, RemoveAutomation, IInv, Types
  <2>3. CASE ReadPolicy \/ PublishPolicy \/ CompleteReload \/ DrainReloads
    BY <2>3 DEF ReadPolicy, PublishPolicy, CompleteReload, DrainReloads
  <2>4. CASE StopForExec
    BY <2>4 DEF StopForExec, IInv, RoundAgrees, GateAgrees, PermitAgrees, Under
  <2>5. CASE EditPolicy \/ Resume
    BY <2>5 DEF EditPolicy, Resume
  <2> QED BY <2>1, <2>2, <2>3, <2>4, <2>5, WhoReloads DEF policies
<1> QED BY LocksAgree, <1>1, PTL DEF Spec, ReloadIsWhole

-----------------------------------------------------------------------------
(* Signals.                                                                *)

(* Only these steps move the round or a termination. *)
LEMMA WhoMoves ==
  ASSUME Next, <<serve, term>>' # <<serve, term>>
  PROVE \/ Terminate \/ LeaveToShutDown \/ LeaveToExec \/ StopForExec \/ CancelDeposit
        \/ DepositCancelled \/ DrainReloads \/ Shutdown \/ Cross \/ Exec \/ Resume
<1>1. \A c \in Client, op \in Operations : ~ Ask(c, op)
  BY DEF Ask
<1>2. \A c \in Client :
        ~ \/ Answer(c) \/ Admit(c) \/ Prompt(c) \/ Retake(c) \/ Commit(c)
          \/ TakePermit(c) \/ Install(c) \/ PublishTopology(c)
          \/ SubscribeTopology(c) \/ ControlStarts(c) \/ Disconnect(c)
          \/ StreamTopology(c) \/ EndSubscription(c) \/ StreamControl(c) \/ AbortConnection(c)
  BY DEF Answer, Admit, Prompt, Retake, Commit, TakePermit, Install, PublishTopology,
    SubscribeTopology, ControlStarts, Disconnect, StreamTopology, EndSubscription,
    StreamControl, AbortConnection
<1>3. ~ \/ Begin \/ PublishPreparing \/ FinishWork \/ Drain \/ Raise \/ FenceTimesOut
        \/ PublishFenced \/ Deposit \/ Leave \/ AbortAttempt \/ Release \/ PublishCancelled
  BY DEF Begin, PublishPreparing, FinishWork, Drain, Raise, FenceTimesOut, PublishFenced,
    Deposit, Leave, AbortAttempt, Release, PublishCancelled
<1>4. ~ \/ EditPolicy \/ RequestReload \/ ReadPolicy \/ PublishPolicy \/ RemoveAutomation
        \/ CompleteReload \/ ControlNotice
  BY DEF EditPolicy, RequestReload, ReadPolicy, PublishPolicy, RemoveAutomation,
    CompleteReload, ControlNotice
<1> QED BY <1>1, <1>2, <1>3, <1>4 DEF Next, Scheduled, Fence

(* Where a termination is, at each place of the round. *)
Signals ==
  /\ serve \in {"loop", "aborting", "aborting_exec", "stopped", "crossing", "exec",
                "cancelling", "draining", "closing", "down"}
  /\ serve \in {"loop", "aborting_exec", "stopped"} => term \in {"none", "taken"}
  /\ serve \in {"crossing", "exec"} => term \in {"none", "pending"}

(* For any number of handoffs that resume, a termination is acted on or    *)
(* stays pending across the exec boundary.                                 *)
THEOREM TerminationsAreKept == Spec => []TerminationIsKept
<1>1. Init => Signals
  BY DEF Init, Signals
<1>2. Signals /\ [Next]_vars => Signals'
  <2> SUFFICES ASSUME Signals, [Next]_vars PROVE Signals'
    OBVIOUS
  <2>1. CASE <<serve, term>>' = <<serve, term>>
    BY <2>1 DEF Signals
  <2>2. CASE Terminate
    BY <2>2 DEF Terminate, Signals
  <2>3. CASE LeaveToShutDown \/ LeaveToExec \/ StopForExec \/ Cross \/ Exec \/ Resume
    BY <2>3 DEF LeaveToShutDown, LeaveToExec, StopForExec, Cross, Exec, Resume, Signals
  <2>4. CASE CancelDeposit \/ DepositCancelled \/ DrainReloads \/ Shutdown
    BY <2>4 DEF CancelDeposit, DepositCancelled, DrainReloads, Shutdown, Signals
  <2> QED BY <2>1, <2>2, <2>3, <2>4, WhoMoves DEF vars
<1>3. Signals => TerminationIsKept
  BY DEF Signals, TerminationIsKept
<1> QED BY <1>1, <1>2, <1>3, PTL DEF Spec

(* However edits, signals, reloads and handoffs interleave, no signalled   *)
(* edit of the policy file is forgotten while the daemon serves.           *)
THEOREM SignalsAreFollowed == Spec => []ReloadFollowsSignal
<1>1. Init => ReloadFollowsSignal
  BY DEF Init, ReloadFollowsSignal, NoReload
<1>2. IInv /\ ReloadFollowsSignal /\ [Next]_vars => ReloadFollowsSignal'
  <2> SUFFICES ASSUME IInv, ReloadFollowsSignal, [Next]_vars, serve' = "loop"
               PROVE ReloadFollowsSignal'
    BY DEF ReloadFollowsSignal
  <2>1. CASE Resume
    BY <2>1 DEF Resume, ReloadFollowsSignal, IInv, RoundAgrees
  <2>2. CASE ~ Resume
    <3>1. serve = "loop"
      BY <2>2, WhoMoves DEF vars, Terminate, LeaveToShutDown, LeaveToExec, StopForExec, CancelDeposit,
        DepositCancelled, DrainReloads, Shutdown, Cross, Exec
    <3>2. CASE policies' = policies
      BY <3>1, <3>2 DEF policies, ReloadFollowsSignal
    <3>3. CASE EditPolicy
      BY <3>3 DEF EditPolicy, ReloadFollowsSignal
    <3>4. CASE RequestReload
      BY <3>4 DEF RequestReload, ReloadFollowsSignal, Started, IInv, Types
    <3>5. CASE ReadPolicy
      BY <3>5 DEF ReadPolicy, ReloadFollowsSignal, IInv, Types
    <3>6. CASE PublishPolicy
      BY <3>1, <3>6 DEF PublishPolicy, ReloadFollowsSignal, IInv, Types
    <3>7. CASE RemoveAutomation
      BY <3>1, <3>7 DEF RemoveAutomation, ReloadFollowsSignal, IInv, Types
    <3>8. CASE CompleteReload
      BY <3>1, <3>8 DEF CompleteReload, ReloadFollowsSignal, Started, NoReload, IInv, Types
    <3>9. ~ StopForExec /\ ~ DrainReloads
      BY DEF StopForExec, DrainReloads
    <3> QED BY <2>2, <3>2, <3>3, <3>4, <3>5, <3>6, <3>7, <3>8, <3>9, WhoReloads DEF vars, policies
  <2> QED BY <2>1, <2>2
<1> QED BY LocksAgree, <1>1, <1>2, PTL DEF Spec

-----------------------------------------------------------------------------
(* What subscribers have been told.                                        *)

(* What a control subscriber believes once its pending phase is sent.      *)
Believes(s) == IF s.pending # "none" THEN s.pending ELSE s.heard

(* The last phase is told, lost to a lag that is still to be noticed, or   *)
(* still queued, and nothing queued is newer; a subscriber that was told   *)
(* of no pause, or of its end, believes in none.                           *)
Abreast(s, l) ==
  s.at = "live" =>
    /\ s.floor <= l.serial
    /\ \A i \in 1..Len(s.notices) :
         /\ s.notices[i].serial <= l.serial
         /\ s.notices[i].serial = l.serial => s.notices[i].phase = l.phase
    /\ \/ s.lagged
       \/ s.floor = l.serial
       \/ \E i \in 1..Len(s.notices) : s.notices[i].serial = l.serial
    /\ s.floor = l.serial /\ l.phase \in {"none", "Cancelled"}
         => Believes(s) \in {"none", "Cancelled"}

(* A stream starts with the last phase as its seed. *)
LEMMA SeedIsAbreast ==
  ASSUME NEW l \in Notice, NEW g PROVE Abreast(SubscribeControl(l, g), l)
<1> DEFINE seed == Replayable(l, g)
           pending == IF seed.phase = "Cancelled" THEN "none" ELSE seed.phase
           s == SubscribeControl(l, g)
<1>1. seed.serial = l.serial /\ l.serial \in Nat
  BY DEF Replayable, Notice
<1>2. l.phase \in {"none", "Cancelled"} => pending = "none"
  BY DEF Replayable, Notice
<1>3. s = [NoStream EXCEPT !.at = "live", !.floor = seed.serial, !.pending = pending]
  BY DEF SubscribeControl
<1> HIDE DEF seed, pending, s
<1>4. s.notices = <<>> /\ s.floor = seed.serial /\ s.pending = pending /\ s.heard = "none"
  BY <1>3 DEF NoStream
<1>5. s.floor = l.serial /\ Len(s.notices) = 0
  BY <1>1, <1>4
<1>6. l.phase \in {"none", "Cancelled"} => Believes(s) = "none"
  BY <1>2, <1>4 DEF Believes
<1>7. Abreast(s, l)
  BY <1>1, <1>5, <1>6 DEF Abreast
<1> QED BY <1>7 DEF s

(* t follows s with the notice n queued last, and an older one dropped     *)
(* only if the listener is told that it lagged.                            *)
Queued(s, t, n) ==
  /\ t.floor = s.floor /\ Believes(t) = Believes(s)
  /\ \A i \in 1..Len(t.notices) :
       t.notices[i] = n \/ \E j \in 1..Len(s.notices) : t.notices[i] = s.notices[j]
  /\ \E i \in 1..Len(t.notices) : t.notices[i] = n
  /\ t.lagged \/ (~ s.lagged /\ \A j \in 1..Len(s.notices) :
                                   \E i \in 1..Len(t.notices) : t.notices[i] = s.notices[j])

(* What a broadcast leaves queued is what was, less the oldest if there is *)
(* no room, and the new notice; what is lost is noticed.                   *)
LEMMA NotifyQueues ==
  ASSUME NEW s \in Listener, NEW n \in Notice, s.at = "live"
  PROVE Queued(s, Notify(s, n), n)
<1> DEFINE t == Notify(s, n)
           all == Append(s.notices, n)
<1>0. /\ s.notices \in Seq(Notice) /\ Len(s.notices) \in Nat
      /\ all \in Seq(Notice) /\ Len(all) = Len(s.notices) + 1
      /\ all[Len(all)] = n
      /\ \A j \in 1..Len(s.notices) : all[j] = s.notices[j]
  BY DEF Listener
<1>1. CASE Len(all) <= ControlQueue
  <2>1. t = [s EXCEPT !.notices = all]
    BY <1>1 DEF Notify
  <2> HIDE DEF t, all
  <2>2. /\ t.notices = all /\ t.floor = s.floor /\ t.lagged = s.lagged
        /\ t.pending = s.pending /\ t.heard = s.heard
    BY <2>1 DEF Listener
  <2>3. s.lagged \in BOOLEAN
    BY DEF Listener
  <2>4. \A i \in 1..Len(all) : i = Len(all) \/ i \in 1..Len(s.notices)
    BY <1>0
  <2>5. Len(all) \in 1..Len(all) /\ \A j \in 1..Len(s.notices) : j \in 1..Len(all)
    BY <1>0
  <2>6. Believes(t) = Believes(s)
    BY <2>2 DEF Believes
  <2>7. \A i \in 1..Len(t.notices) :
          t.notices[i] = n \/ \E j \in 1..Len(s.notices) : t.notices[i] = s.notices[j]
    BY <1>0, <2>2, <2>4, Zenon
  <2>8. \E i \in 1..Len(t.notices) : t.notices[i] = n
    BY <1>0, <2>2, <2>5
  <2>9. \A j \in 1..Len(s.notices) : \E i \in 1..Len(t.notices) : t.notices[i] = s.notices[j]
    BY <1>0, <2>2, <2>5
  <2> QED BY <2>2, <2>3, <2>6, <2>7, <2>8, <2>9, Zenon DEF Queued, t
<1>2. CASE ~ (Len(all) <= ControlQueue)
  <2>1. t = [s EXCEPT !.notices = Tail(all), !.lagged = TRUE]
    BY <1>2 DEF Notify
  <2>2. /\ Len(all) >= 2 /\ Len(Tail(all)) = Len(all) - 1
        /\ \A i \in 1..Len(Tail(all)) : Tail(all)[i] = all[i + 1]
    BY <1>0, <1>2, StreamsAssumption
  <2> HIDE DEF t, all
  <2>3. /\ t.notices = Tail(all) /\ t.floor = s.floor /\ t.lagged
        /\ t.pending = s.pending /\ t.heard = s.heard
    BY <2>1 DEF Listener
  <2>4. \A i \in 1..Len(Tail(all)) : i + 1 = Len(all) \/ i + 1 \in 1..Len(s.notices)
    BY <1>0, <2>2
  <2>5. Len(all) - 1 \in 1..Len(Tail(all)) /\ (Len(all) - 1) + 1 = Len(all)
    BY <1>0, <2>2
  <2>6. Believes(t) = Believes(s)
    BY <2>3 DEF Believes
  <2>7. \A i \in 1..Len(t.notices) :
          t.notices[i] = n \/ \E j \in 1..Len(s.notices) : t.notices[i] = s.notices[j]
    BY <1>0, <2>2, <2>3, <2>4
  <2>8. \E i \in 1..Len(t.notices) : t.notices[i] = n
    BY <1>0, <2>2, <2>3, <2>5
  <2> QED BY <2>3, <2>6, <2>7, <2>8, Zenon DEF Queued, t
<1> QED BY <1>1, <1>2, Zenon

(* A new phase is queued for everyone who listens. *)
LEMMA PhaseIsAbreast ==
  ASSUME NEW s \in Listener, NEW l \in Notice, NEW n \in Notice, n.serial = l.serial + 1,
         Abreast(s, l)
  PROVE Abreast(Notify(s, n), n)
<1> DEFINE t == Notify(s, n)
<1>0. t \in Listener /\ t.at = s.at
  BY NotifyFits
<1> SUFFICES ASSUME s.at = "live" PROVE Abreast(t, n)
  BY <1>0, Zenon DEF Abreast
<1>1. /\ t.floor = s.floor
      /\ \A i \in 1..Len(t.notices) :
           t.notices[i] = n \/ \E j \in 1..Len(s.notices) : t.notices[i] = s.notices[j]
      /\ \E i \in 1..Len(t.notices) : t.notices[i] = n
  <2>1. Queued(s, t, n)
    BY NotifyQueues, Zenon
  <2> QED BY <2>1, Zenon DEF Queued
<1> HIDE DEF t
<1>2. l.serial \in Nat /\ n.serial \in Nat /\ s.floor \in Nat /\ s.notices \in Seq(Notice)
  BY DEF Notice, Listener
<1>3. s.floor <= l.serial /\ \A j \in 1..Len(s.notices) : s.notices[j].serial <= l.serial
  BY Zenon DEF Abreast
<1>4. \A j \in 1..Len(s.notices) : s.notices[j].serial \in Nat
  <2>1. \A j \in 1..Len(s.notices) : s.notices[j] \in Notice
    BY <1>2
  <2> QED BY <2>1, Zenon DEF Notice
<1>5. \A j \in 1..Len(s.notices) : s.notices[j].serial < n.serial
  BY <1>2, <1>3, <1>4
<1>6. t.floor < n.serial
  BY <1>1, <1>2, <1>3
<1>7. \A i \in 1..Len(t.notices) :
        t.notices[i] = n \/ (t.notices[i].serial \in Nat /\ t.notices[i].serial < n.serial)
  BY <1>1, <1>4, <1>5, Zenon
<1>8. \A i \in 1..Len(t.notices) : /\ t.notices[i].serial <= n.serial
                                   /\ t.notices[i].serial = n.serial => t.notices[i].phase = n.phase
  BY <1>2, <1>7
<1>9. t.floor <= n.serial /\ t.floor # n.serial
  BY <1>0, <1>2, <1>6 DEF Listener
<1> QED BY <1>1, <1>8, <1>9, Zenon DEF Abreast

(* A notice about something else pushes none out unnoticed. *)
LEMMA NoticeIsAbreast ==
  ASSUME NEW s \in Listener, NEW l \in Notice, NEW n \in Notice, n.serial = 0, n.phase = "none",
         l.serial = 0 => l.phase = "none", Abreast(s, l)
  PROVE Abreast(Notify(s, n), l)
<1> DEFINE t == Notify(s, n)
<1>0. t.at = s.at
  BY NotifyFits
<1> SUFFICES ASSUME s.at = "live" PROVE Abreast(t, l)
  BY <1>0, Zenon DEF Abreast
<1>1. /\ t.floor = s.floor /\ Believes(t) = Believes(s)
      /\ \A i \in 1..Len(t.notices) :
           t.notices[i] = n \/ \E j \in 1..Len(s.notices) : t.notices[i] = s.notices[j]
      /\ t.lagged \/ (~ s.lagged /\ \A j \in 1..Len(s.notices) :
                                       \E i \in 1..Len(t.notices) : t.notices[i] = s.notices[j])
  <2>1. Queued(s, t, n)
    BY NotifyQueues, Zenon
  <2> QED BY <2>1, Zenon DEF Queued
<1> HIDE DEF t
<1>2. n.serial <= l.serial /\ (n.serial = l.serial => n.phase = l.phase)
  BY DEF Notice
<1>3. /\ s.floor <= l.serial
      /\ \A i \in 1..Len(s.notices) : /\ s.notices[i].serial <= l.serial
                                      /\ s.notices[i].serial = l.serial => s.notices[i].phase = l.phase
      /\ \/ s.lagged
         \/ s.floor = l.serial
         \/ \E i \in 1..Len(s.notices) : s.notices[i].serial = l.serial
      /\ s.floor = l.serial /\ l.phase \in {"none", "Cancelled"}
           => Believes(s) \in {"none", "Cancelled"}
  BY Zenon DEF Abreast
<1>4. \A i \in 1..Len(t.notices) : /\ t.notices[i].serial <= l.serial
                                   /\ t.notices[i].serial = l.serial => t.notices[i].phase = l.phase
  <2> TAKE i \in 1..Len(t.notices)
  <2>1. CASE t.notices[i] = n
    BY <1>2, <2>1
  <2>2. CASE \E j \in 1..Len(s.notices) : t.notices[i] = s.notices[j]
    BY <1>3, <2>2, Zenon
  <2> QED BY <1>1, <2>1, <2>2, Zenon
<1>5. \/ t.lagged
      \/ t.floor = l.serial
      \/ \E i \in 1..Len(t.notices) : t.notices[i].serial = l.serial
  BY <1>1, <1>3, Zenon
<1> QED BY <1>1, <1>3, <1>4, <1>5, Zenon DEF Abreast

(* A turn of the stream's loop sends the pending phase, replaces what was  *)
(* lost by the last phase, or hears the oldest notice.                     *)
LEMMA HearIsAbreast ==
  ASSUME NEW s \in Listener, NEW l \in Notice, NEW g, MayHear(s), Abreast(s, l),
         l.serial = 0 <=> l.phase = "none"
  PROVE Abreast(Hear(s, l, g), l)
<1> DEFINE t == Hear(s, l, g)
<1>0. /\ s.at = "live" /\ s.floor <= l.serial /\ s.floor \in Nat /\ l.serial \in Nat
      /\ \A i \in 1..Len(s.notices) : /\ s.notices[i].serial <= l.serial
                                      /\ s.notices[i].serial = l.serial => s.notices[i].phase = l.phase
      /\ \/ s.lagged
         \/ s.floor = l.serial
         \/ \E i \in 1..Len(s.notices) : s.notices[i].serial = l.serial
      /\ s.floor = l.serial /\ l.phase \in {"none", "Cancelled"}
           => Believes(s) \in {"none", "Cancelled"}
  BY Zenon DEF Abreast, MayHear, Listener, Notice
<1>1. CASE s.pending # "none"
  <2>1. t = [s EXCEPT !.pending = "none", !.heard = s.pending]
    BY <1>1 DEF Hear
  <2> HIDE DEF t
  <2>2. /\ t.notices = s.notices /\ t.floor = s.floor /\ t.lagged = s.lagged
        /\ t.pending = "none" /\ t.heard = s.pending
    BY <2>1 DEF Listener
  <2>3. Believes(t) = Believes(s)
    BY <1>1, <2>2 DEF Believes
  <2> QED BY <1>0, <2>2, <2>3, Zenon DEF Abreast, t
<1>2. CASE s.pending = "none" /\ s.lagged
  <2> DEFINE latest == Replayable(l, g)
  <2>1. /\ latest.serial = l.serial
        /\ l.phase \in {"none", "Cancelled"} => latest.phase = l.phase
    BY DEF Replayable, Notice
  <2>2. t = Lag(s, l, g)
    BY <1>2 DEF Hear
  <2>3. CASE l.serial > s.floor
    <3>1. t = [s EXCEPT !.lagged = FALSE, !.floor = latest.serial, !.pending = latest.phase]
      BY <2>1, <2>2, <2>3 DEF Lag
    <3> HIDE DEF t, latest
    <3>2. t.notices = s.notices /\ t.floor = l.serial /\ t.pending = latest.phase /\ t.heard = s.heard
      BY <2>1, <3>1 DEF Listener
    <3>3. l.phase # "none"
      <4>1. s.floor \in Nat /\ l.serial \in Nat
        BY <1>0, Zenon
      <4>2. l.serial # 0
        BY <2>3, <4>1
      <4> QED BY <4>2, Zenon
    <3>4. l.phase = "Cancelled" => Believes(t) = "Cancelled"
      BY <2>1, <3>2, Zenon DEF Believes
    <3>5. l.serial <= l.serial
      BY <1>0
    <3> QED BY <1>0, <3>2, <3>3, <3>4, <3>5, Zenon DEF Abreast, t
  <2>4. CASE ~ (l.serial > s.floor)
    <3>1. t = [s EXCEPT !.lagged = FALSE]
      BY <2>1, <2>2, <2>4 DEF Lag
    <3>2. s.floor = l.serial
      BY <1>0, <2>4
    <3> HIDE DEF t, latest
    <3>3. t.notices = s.notices /\ t.floor = s.floor /\ t.pending = s.pending /\ t.heard = s.heard
      BY <3>1 DEF Listener
    <3>4. Believes(t) = Believes(s)
      BY <3>3 DEF Believes
    <3> QED BY <1>0, <3>2, <3>3, <3>4, Zenon DEF Abreast, t
  <2> QED BY <2>3, <2>4
<1>3. CASE s.pending = "none" /\ ~ s.lagged
  <2> DEFINE n == Head(s.notices)
  <2>1. t = HearNotice(s, n)
    BY <1>3 DEF Hear
  <2>2. /\ s.notices \in Seq(Notice) /\ s.notices # <<>> /\ n = s.notices[1] /\ n \in Notice
        /\ 1 \in 1..Len(s.notices) /\ Len(Tail(s.notices)) = Len(s.notices) - 1
        /\ Len(s.notices) \in Nat \ {0}
        /\ \A i \in 1..Len(Tail(s.notices)) : Tail(s.notices)[i] = s.notices[i + 1]
    BY <1>3 DEF MayHear, Listener
  <2>3. /\ n.serial \in Nat /\ n.serial <= l.serial
        /\ n.serial = l.serial => n.phase = l.phase
    BY <1>0, <2>2 DEF Notice
  <2> HIDE DEF n, t
  <2>4. t.notices = Tail(s.notices)
    BY <2>1 DEF HearNotice, Listener
  <2>5. \A i \in 1..Len(t.notices) : i + 1 \in 1..Len(s.notices) /\ t.notices[i] = s.notices[i + 1]
    <3>1. \A i \in 1..Len(t.notices) : i + 1 \in 1..Len(s.notices)
      BY <2>2, <2>4
    <3> QED BY <2>2, <2>4, <3>1, Zenon
  <2>6. \A i \in 1..Len(t.notices) : /\ t.notices[i].serial <= l.serial
                                     /\ t.notices[i].serial = l.serial => t.notices[i].phase = l.phase
    BY <1>0, <2>5, Zenon
  <2>7. \A j \in 1..Len(s.notices) : j = 1 \/ \E i \in 1..Len(t.notices) : t.notices[i] = s.notices[j]
    <3> TAKE j \in 1..Len(s.notices)
    <3>1. j # 1 => j - 1 \in 1..Len(t.notices) /\ (j - 1) + 1 = j
      BY <2>2, <2>4
    <3> QED BY <2>5, <3>1, Zenon
  <2>8. CASE n.serial > s.floor
    <3>1. t = [s EXCEPT !.notices = Tail(s.notices), !.floor = n.serial, !.heard = n.phase]
      BY <2>1, <2>8 DEF HearNotice
    <3>2. t.floor = n.serial /\ t.pending = "none" /\ t.heard = n.phase
      BY <1>3, <3>1 DEF Listener
    <3>3. Believes(t) = n.phase
      BY <3>2, Zenon DEF Believes
    <3>4. s.floor # l.serial
      <4>1. s.floor \in Nat /\ l.serial \in Nat
        BY <1>0, Zenon
      <4> QED BY <2>3, <2>8, <4>1
    <3>5. t.floor = l.serial \/ \E i \in 1..Len(t.notices) : t.notices[i].serial = l.serial
      BY <1>0, <1>3, <2>2, <2>7, <3>2, <3>4, Zenon
    <3> QED BY <2>3, <2>6, <3>2, <3>3, <3>5, Zenon DEF Abreast, t
  <2>9. CASE ~ (n.serial > s.floor)
    <3>1. t = [s EXCEPT !.notices = Tail(s.notices)]
      BY <2>1, <2>9 DEF HearNotice
    <3>2. t.floor = s.floor /\ t.pending = s.pending /\ t.heard = s.heard
      BY <3>1 DEF Listener
    <3>3. Believes(t) = Believes(s)
      BY <3>2, Zenon DEF Believes
    <3>4. n.serial = l.serial => s.floor = l.serial
      <4>1. s.floor \in Nat /\ l.serial \in Nat /\ s.floor <= l.serial
        BY <1>0, Zenon
      <4> QED BY <2>3, <2>9, <4>1
    <3>5. t.floor = l.serial \/ \E i \in 1..Len(t.notices) : t.notices[i].serial = l.serial
      BY <1>0, <1>3, <2>2, <2>7, <3>2, <3>4, Zenon
    <3> QED BY <1>0, <2>6, <3>2, <3>3, <3>5, Zenon DEF Abreast, t
  <2> QED BY <2>8, <2>9
<1> QED BY <1>1, <1>2, <1>3

(* An event slips through only where a resynchronization is due.           *)
Slips == \A c \in Client : subs[c].slipped => subs[c].resync

Told ==
  /\ last.serial = 0 <=> last.phase = "none"
  /\ \A c \in Client : Abreast(streams[c], last)
  /\ Slips

(* Nothing is told when a round starts. *)
LEMMA InitTells == Init => Told
<1> SUFFICES ASSUME Init PROVE Told
  OBVIOUS
<1>1. \A c \in Client : Abreast(streams[c], last)
  BY NothingIsTyped, Zenon DEF Init, Abreast
<1>2. \A c \in Client : ~ subs[c].slipped
  BY DEF Init, NoSubscriber
<1> QED BY <1>1, <1>2 DEF Init, NoStatus, Told, Slips

(* What the hub does to a subscriber lets no event slip. *)
LEMMA HubKeeps ==
  ASSUME NEW s \in Subscriber, NEW t, NEW q, s.slipped => s.resync, t.slipped,
         t \in {s, [s EXCEPT !.queue = q], [s EXCEPT !.resync = TRUE], [s EXCEPT !.at = "cut"]}
  PROVE t.resync
<1>1. CASE t = s
  BY <1>1, Zenon
<1>2. CASE t = [s EXCEPT !.queue = q]
  BY <1>2, Zenon DEF Subscriber
<1>3. CASE t = [s EXCEPT !.resync = TRUE]
  BY <1>3, Zenon DEF Subscriber
<1>4. CASE t = [s EXCEPT !.at = "cut"]
  BY <1>4, Zenon DEF Subscriber
<1> QED BY <1>1, <1>2, <1>3, <1>4, Zenon

(* Nothing lets an event slip but the stream's own turn. *)
LEMMA SlipsStay ==
  ASSUME IInv, Listening, Told, Next PROVE Slips'
<1>0. subs \in [Client -> Subscriber] /\ Slips
  BY DEF Listening, Subscribers, Told
<1>1. CASE subs' = subs
  BY <1>0, <1>1 DEF Slips
<1>2. ASSUME NEW e, subs' = [c \in Client |-> Broadcast(subs[c], e)] PROVE Slips'
  <2>1. ASSUME NEW c \in Client, subs'[c].slipped PROVE subs'[c].resync
    <3>1. subs'[c] = Broadcast(subs[c], e)
      BY <1>2
    <3> DEFINE q == Append(subs[c].queue, e)
    <3>2. subs'[c] \in {subs[c], [subs[c] EXCEPT !.queue = q], [subs[c] EXCEPT !.resync = TRUE],
                        [subs[c] EXCEPT !.at = "cut"]}
      BY <3>1 DEF Broadcast
    <3> HIDE DEF q
    <3>3. subs[c] \in Subscriber /\ (subs[c].slipped => subs[c].resync)
      BY <1>0, Zenon DEF Slips
    <3> QED BY <2>1, <3>2, <3>3, HubKeeps, Zenon
  <2> QED BY <2>1 DEF Slips
<1>3. CASE PublishPreparing \/ PublishFenced \/ PublishCancelled
  BY <1>2, <1>3 DEF PublishPreparing, PublishFenced, PublishCancelled, PublishStatus
<1>4. ASSUME NEW c \in Client, PublishTopology(c) PROVE Slips'
  BY <1>2, <1>4 DEF PublishTopology
<1>5. ASSUME NEW c \in Client, NEW s, subs' = [subs EXCEPT ![c] = s], s.slipped => s.resync PROVE Slips'
  BY <1>0, <1>5 DEF Slips
<1>6. ASSUME NEW c \in Client, SubscribeTopology(c) PROVE Slips'
  <2>1. ~ Subscribe(revision, request[c].generation).slipped
    BY DEF Subscribe
  <2> QED BY <1>5, <1>6, <2>1, Zenon DEF SubscribeTopology
<1>7. ASSUME NEW c \in Client, Disconnect(c) \/ AbortConnection(c) \/ EndSubscription(c) PROVE Slips'
  <2>1. ~ NoSubscriber.slipped
    BY DEF NoSubscriber
  <2> QED BY <1>5, <1>7, <2>1, Zenon DEF Disconnect, AbortConnection, EndSubscription
<1>8. ASSUME NEW c \in Client, StreamTopology(c) PROVE Slips'
  <2>1. Stream(subs[c]).slipped = subs[c].resync /\ Stream(subs[c]).resync = subs[c].resync
    BY <1>0 DEF Stream, Subscriber
  <2> QED BY <1>5, <1>8, <2>1, Zenon DEF StreamTopology
<1>9. CASE RemoveAutomation
  <2>1. ASSUME NEW c \in Client, subs'[c].slipped PROVE subs'[c].resync
    <3>1. subs'[c] = subs[c] \/ subs'[c] = [subs[c] EXCEPT !.at = "cut"]
      BY <1>0, <1>9 DEF RemoveAutomation, Remove
    <3>2. subs[c] \in Subscriber /\ (subs[c].slipped => subs[c].resync)
      BY <1>0, Zenon DEF Slips
    <3>3. subs'[c] \in {subs[c], [subs[c] EXCEPT !.queue = <<>>], [subs[c] EXCEPT !.resync = TRUE],
                        [subs[c] EXCEPT !.at = "cut"]}
      BY <3>1, Zenon
    <3> QED BY <2>1, <3>2, <3>3, HubKeeps, Zenon
  <2> QED BY <2>1 DEF Slips
<1>10. ASSUME ControlNotice \/ \E c \in Client : ControlStarts(c) \/ StreamControl(c)
       PROVE subs' = subs
  BY <1>10 DEF ControlNotice, ControlStarts, StreamControl
<1> QED BY <1>1, <1>3, <1>4, <1>6, <1>7, <1>8, <1>9, <1>10, WhoTells

(* Every step leaves the control subscribers abreast of the last phase. *)
LEMMA NextTells == IInv /\ Listening /\ Told /\ [Next]_vars => Told'
<1> SUFFICES ASSUME IInv, Listening, Told, [Next]_vars PROVE Told'
  OBVIOUS
<1>0. /\ streams \in [Client -> Listener] /\ last \in Notice
      /\ last.serial = 0 <=> last.phase = "none"
      /\ \A c \in Client : Abreast(streams[c], last)
  BY DEF IInv, Types, Notice, Listening, Subscribers, Told
<1>1. CASE UNCHANGED vars
  BY <1>1 DEF vars, Told, Slips
<1> SUFFICES ASSUME Next
             PROVE /\ last'.serial = 0 <=> last'.phase = "none"
                   /\ \A c \in Client : Abreast(streams'[c], last')
  BY <1>1, SlipsStay DEF Told
<1>2. CASE Resume
  <2>1. \A c \in Client : streams'[c].at = "none"
    BY <1>2, Zenon DEF Resume, Listening, Ends, Serving, Connected
  <2>2. last' = NoStatus
    BY <1>2 DEF Resume
  <2> QED BY <2>1, <2>2 DEF NoStatus, Abreast
<1>3. CASE PublishPreparing \/ PublishFenced \/ PublishCancelled
  <2>1. PICK phase \in Phases : PublishStatus(phase)
    BY <1>3 DEF PublishPreparing, PublishFenced, PublishCancelled, Phases
  <2>2. last' \in Notice /\ last'.serial = last.serial + 1 /\ last'.phase \in Phases
    BY <1>0, <2>1 DEF PublishStatus, Notice
  <2>3. last'.serial # 0 /\ last'.phase # "none"
    BY <1>0, <2>2 DEF Notice, Phases
  <2>4. \A c \in Client : streams'[c] = Notify(streams[c], last')
    BY <2>1, Zenon DEF PublishStatus
  <2>5. \A c \in Client : Abreast(Notify(streams[c], last'), last')
    BY <1>0, <2>2, PhaseIsAbreast
  <2> QED BY <2>3, <2>4, <2>5, Zenon
<1>4. CASE ~ Resume /\ ~ (PublishPreparing \/ PublishFenced \/ PublishCancelled)
  <2>1. last' = last
    BY <1>4, WhoPublishes
  <2>2. CASE streams' = streams
    BY <1>0, <2>1, <2>2
  <2>3. CASE ControlNotice
    <3> DEFINE n == [serial |-> 0, phase |-> "none"]
    <3>1. n \in Notice /\ n.serial = 0 /\ n.phase = "none"
      BY DEF Notice
    <3>2. \A c \in Client : streams'[c] = Notify(streams[c], n)
      BY <2>3 DEF ControlNotice
    <3>3. \A c \in Client : Abreast(Notify(streams[c], n), last)
      BY <1>0, <3>1, NoticeIsAbreast
    <3> QED BY <1>0, <2>1, <3>2, <3>3, Zenon
  <2>4. ASSUME NEW c \in Client, NEW s, streams' = [streams EXCEPT ![c] = s], Abreast(s, last)
        PROVE \A d \in Client : Abreast(streams'[d], last)
    BY <1>0, <2>4
  <2>5. ASSUME NEW c \in Client, ControlStarts(c) PROVE \A d \in Client : Abreast(streams'[d], last)
    <3>1. Abreast(SubscribeControl(last, gate), last)
      BY <1>0, SeedIsAbreast
    <3> QED BY <2>4, <2>5, <3>1, Zenon DEF ControlStarts
  <2>6. ASSUME NEW c \in Client, Disconnect(c) \/ AbortConnection(c)
        PROVE \A d \in Client : Abreast(streams'[d], last)
    <3>1. Abreast(NoStream, last)
      BY NothingIsTyped DEF Abreast
    <3> QED BY <2>4, <2>6, <3>1, Zenon DEF Disconnect, AbortConnection
  <2>7. ASSUME NEW c \in Client, StreamControl(c) PROVE \A d \in Client : Abreast(streams'[d], last)
    <3>1. MayHear(streams[c]) /\ streams' = [streams EXCEPT ![c] = Hear(streams[c], last, gate)]
      BY <2>7 DEF StreamControl
    <3>2. Abreast(Hear(streams[c], last, gate), last)
      BY <1>0, <3>1, HearIsAbreast
    <3> QED BY <2>4, <3>1, <3>2, Zenon
  <2>8. ASSUME \/ RemoveAutomation
               \/ \E d \in Client : \/ PublishTopology(d) \/ SubscribeTopology(d)
                                     \/ StreamTopology(d) \/ EndSubscription(d)
        PROVE streams' = streams
    BY <2>8 DEF RemoveAutomation, PublishTopology, SubscribeTopology, StreamTopology, EndSubscription
  <2> QED BY <1>0, <1>4, <2>1, <2>2, <2>3, <2>5, <2>6, <2>7, <2>8, WhoTells
<1> QED BY <1>2, <1>3, <1>4

(* With queues of any length and however broadcasts, lags and turns        *)
(* interleave, a subscriber with nothing left to hear has everything.      *)
THEOREM NothingIsMissed == Spec => []SubscribersMissNothing
<1>1. IInv /\ Listening /\ Told => SubscribersCatchUp
  <2> SUFFICES ASSUME IInv, Listening, Told, serve = "loop", NEW c \in Client
               PROVE /\ subs[c].at = "live" /\ ~ MayStream(subs[c]) =>
                          TaskEnds(subs[c]) \/ subs[c].revision = Published
                     /\ streams[c].at = "live" /\ ~ MayHear(streams[c]) /\ gate = "Idle" /\ ~ hub =>
                          streams[c].heard \in {"none", "Cancelled"}
    BY DEF SubscribersCatchUp
  <2>1. ASSUME subs[c].at = "live", ~ MayStream(subs[c]), ~ subs[c].resync
        PROVE subs[c].revision = Published
    <3>1. ~ subs[c].slipped /\ subs[c].queue = <<>>
      BY <2>1 DEF MayStream, Told, Slips
    <3>2. Chained(subs[c], Published) /\ Published \in Nat /\ subs[c].revision \in Nat
      BY <2>1, <3>1 DEF Listening, Gapless, Fresh, Subscribers, Subscriber
    <3>3. Changes(subs[c]) = {}
      BY <3>1 DEF Changes
    <3>4. subs[c].revision + 1 .. Published = {} /\ subs[c].revision <= Published
      BY <3>2, <3>3 DEF Chained
    <3> QED BY <3>2, <3>4
  <2>2. ASSUME streams[c].at = "live", ~ MayHear(streams[c]), gate = "Idle", ~ hub
        PROVE streams[c].heard \in {"none", "Cancelled"}
    <3>1. last.phase \in {"none", "Cancelled"}
      BY <2>2 DEF IInv, GateAgrees, PhasesAgree
    <3>2. streams[c].pending = "none" /\ ~ streams[c].lagged /\ Len(streams[c].notices) = 0
      BY <2>2 DEF MayHear, Listening, Subscribers, Listener
    <3>a. Abreast(streams[c], last)
      BY DEF Told
    <3>b. 1..Len(streams[c].notices) = {}
      BY <3>2
    <3>3. streams[c].floor = last.serial
      BY <2>2, <3>2, <3>a, <3>b, Zenon DEF Abreast
    <3>4. Believes(streams[c]) \in {"none", "Cancelled"}
      BY <2>2, <3>1, <3>3, <3>a, Zenon DEF Abreast
    <3> QED BY <3>2, <3>4 DEF Believes
  <2> QED BY <2>1, <2>2 DEF TaskEnds
<1>2. Spec => []Told
  BY InitTells, NextTells, LocksAgree, SubscriptionsAgree, PTL DEF Spec
<1> QED BY <1>1, <1>2, LocksAgree, SubscriptionsAgree, GapsAreNeverSilent, PTL
  DEF SubscribersMissNothing

=============================================================================

----------------------------- MODULE ConsentFlow -----------------------------
(***************************************************************************)
(* How an answer to a workspace access prompt becomes a grant              *)
(* (crates/splinterd/src/main.rs): calls that ask, join and give up        *)
(* waiting; the one prompter and its commit; and everything that ends a    *)
(* request or revokes a grant meanwhile: cancels, expiry, Revoke all       *)
(* access, the end of the workspace, the handoff fence, a shutdown, and a  *)
(* restart.                                                                *)
(*                                                                         *)
(* A grant is named by the request it answers.  `through`, `confirmed` and *)
(* `restored` are history, for the properties.                             *)
(***************************************************************************)
EXTENDS AgentAccess

CONSTANTS Call,          \* request handlers of client connections
          Asking,        \* Asking[c]: the requests handler c may carry
          MaxUpsets      \* ends, revocations, fences, restarts and failed writes

VARIABLES pending,    \* PendingAccess
          engine,     \* AgentAccess
          once,       \* "just this once" grants (ConsentManager)
          calls,      \* where each handler is, and its request
          prompt,     \* where the prompter task is, its request and duration
          lairs,      \* the workspaces of the topology
          ending,     \* where end_lair_grants is, and for which workspace
          revoker,    \* where the person's revocation is, and what it removed
          fence,      \* where the handoff attempt is
          through,    \* the last request opened before the Revoke all access that ran
          confirmed,  \* entries whose durable removal was reported
          restored,   \* entries the store might hold at the last restart
          upsets

history == <<through, confirmed, restored>>
world == <<lairs, ending, revoker, fence, history, upsets>>
vars == <<pending, engine, once, calls, prompt, world>>

Durations == {"once", "session", "always"}
NoLair == "none"
Idle == [at |-> "idle", req |-> 0, ask |-> NoAsk]
NotRevoking == [at |-> "idle", removed |-> {}, from |-> 0]
Off == [at |-> "off", req |-> 0, duration |-> "once"]

Init ==
  /\ pending = NoRequests /\ engine = NoDefinitions /\ once = {}
  /\ calls = [c \in Call |-> Idle]
  /\ prompt = Off
  /\ lairs = Lair
  /\ ending = [at |-> "idle", lair |-> NoLair]
  /\ revoker = NotRevoking
  /\ fence = "idle"
  /\ through = 0 /\ confirmed = {} /\ restored = {}
  /\ upsets = 0

-----------------------------------------------------------------------------
r0 == prompt.req
Opened == Requests \ InPhase(pending, {"unused"})
Same(r) == {q \in Opened : Key(pending, q) = Key(pending, r)}
SameRequester(a, b) == a.process = b.process /\ a.lair = b.lair
OfLair(l) == {r \in Opened : pending.ask[r].lair = l}

Sessions == engine.sessions
Remembered == engine.remembered \ engine.missing
InForce == once \cup Sessions \cup Remembered

\* HandoffGate::is_fenced, and a fence waiting for the admission lock.
Fenced == fence \in {"raised", "up"}
Fencing == fence = "queued"

Upset == upsets < MaxUpsets /\ upsets' = upsets + 1

Committing == {"commit", "once", "session", "always", "write", "finish", "abort", "revoke",
               "flush"}

\* DaemonState::handoff_in_flight, held shared.
Admitted == {c \in Call : calls[c].at \in {"asking", "opened"}}
\* Mutant: the admission is not held while an answer commits.
AdmissionFreeOfCalls == Admitted = {}

AdmissionFree == Admitted = {} /\ prompt.at \notin Committing

-----------------------------------------------------------------------------
(* Request::RequestLairAccess *)

(* The admission, and the checks before the pending lifecycle: a request   *)
(* some grant covers is answered without it.                               *)
CallEnter(c, a) ==
  LET definitions == {g \in Sessions \cup Remembered :
                        Key(pending, g) = <<Identity[a.process], a.lair>>}
      justOnce == {g \in once : SameRequester(pending.ask[g], a)}
  IN /\ calls[c].at = "idle" /\ ~Fencing /\ ~Fenced
     /\ a.lair \in lairs
     /\ \A g \in definitions : ~(a.scopes \subseteq pending.ask[g].scopes)
     /\ ~(a.scopes \subseteq UNION {pending.ask[g].scopes : g \in justOnce})
     /\ calls' = [calls EXCEPT ![c] = [at |-> "asking", req |-> 0, ask |-> a]]
     /\ UNCHANGED <<pending, engine, once, prompt, world>>

(* request_lair_consent up to its wait.  Opening an entry and claiming the *)
(* prompter are two steps under the registry's lock.                       *)
CallAdmit(c, pinned, denials, cooldowns) ==
  LET a == calls[c].ask
      p == IF pending.closed THEN pending ELSE Prune(pending, denials, cooldowns)
      answer == Admission(p, a, pinned)
      unused == InPhase(p, {"unused"})
  IN /\ calls[c].at = "asking"
     /\ answer = "opened" => unused # {}
     /\ pending' = CASE answer = "collected" -> Collect(p, a)
                     [] answer = "opened" -> Open(p, a, Min(unused))
                     [] OTHER -> p
     /\ calls' = [calls EXCEPT ![c] =
                    CASE answer = "opened" ->
                           [at |-> "opened", req |-> Min(unused), ask |-> a]
                      [] answer = "joined" ->
                           [at |-> "waiting", req |-> Min(EntriesFor(p, a)), ask |-> a]
                      [] OTHER -> Idle]
     /\ UNCHANGED <<engine, once, prompt, world>>

(* ensure_consent_prompter *)
EnsurePrompter(c) ==
  /\ calls[c].at = "opened"
  /\ pending' = ClaimPrompter(pending)
  /\ prompt' = IF pending.prompter THEN prompt ELSE [Off EXCEPT !.at = "next"]
  /\ calls' = [calls EXCEPT ![c].at = "waiting"]
  /\ UNCHANGED <<engine, once, world>>

(* The outcome arrives or the wait budget runs out, and the handler        *)
(* replies once it has its admission back.  It holds the watch channel     *)
(* until then, so a deny that comes after the budget is still its own.     *)
CallReturns(c) ==
  /\ calls[c].at = "waiting" /\ ~Fencing
  /\ calls' = [calls EXCEPT ![c] = Idle]
  /\ UNCHANGED <<pending, engine, once, prompt, world>>

\* The connection ends while its handler waits.
CallDropped(c) ==
  /\ calls[c].at = "waiting"
  /\ calls' = [calls EXCEPT ![c] = Idle]
  /\ UNCHANGED <<pending, engine, once, prompt, world>>

\* entry.outcome.receiver_count() # 0
Heard(r) == \E c \in Call : calls[c].at # "idle" /\ calls[c].req = r

-----------------------------------------------------------------------------
(* The prompter task *)

NextJob == [Off EXCEPT !.at = "next"]

TakePrompt ==
  LET queued == InPhase(pending, {"queued"})
  IN /\ prompt.at = "next"
     /\ pending' = NextPrompt(pending)
     /\ prompt' = IF queued = {} THEN Off
                  ELSE [prompt EXCEPT !.at = "looking", !.req = Min(queued)]
     /\ UNCHANGED <<engine, once, calls, world>>

\* settle_lair_prompt, for a prompt without an answer.
Unanswered(r) == IF PromptClosed(pending, r) THEN pending ELSE EndWhere(pending, {r})

(* show_lair_prompt looks the workspace up before it shows the prompt. *)
ShowPrompt ==
  LET found == pending.ask[r0].lair \in lairs
  IN /\ prompt.at = "looking"
     /\ pending' = IF found THEN pending ELSE Unanswered(r0)
     /\ prompt' = IF found THEN [prompt EXCEPT !.at = "shown"] ELSE NextJob
     /\ UNCHANGED <<engine, once, calls, world>>

\* The request ended and its client was killed, or the client failed, or it is too late.
PromptCloses ==
  /\ prompt.at = "shown"
  /\ pending' = Unanswered(r0)
  /\ prompt' = NextJob
  /\ UNCHANGED <<engine, once, calls, world>>

(* The person denies, and settle_lair_prompt records it. *)
PersonDenies ==
  /\ prompt.at = "shown"
  /\ pending' = IF pending.phase[r0] = "prompting" THEN Deny(pending, r0, Heard(r0)) ELSE pending
  /\ prompt' = NextJob
  /\ UNCHANGED <<engine, once, calls, world>>

(* The person grants: settle_lair_prompt takes the admission, and commits  *)
(* unless the request ended.                                               *)
PersonGrants ==
  /\ prompt.at = "shown" /\ ~Fencing
  /\ IF pending.phase[r0] = "prompting"
       THEN /\ pending' = BeginCommit(pending, r0)
            /\ prompt' = [prompt EXCEPT !.at = "commit"]
       ELSE /\ prompt' = NextJob
            /\ UNCHANGED pending
  /\ UNCHANGED <<engine, once, calls, world>>

(* The checks of settle_lair_prompt and commit_agent_grant, and then the   *)
(* duration the person chose.  They also fail when the requester exited or *)
(* the duration is no longer offered.                                      *)
CheckCommit ==
  /\ prompt.at = "commit"
  /\ \/ /\ ~Fenced /\ pending.ask[r0].lair \in lairs
        /\ \E d \in Durations : prompt' = [prompt EXCEPT !.at = d, !.duration = d]
     \/ prompt' = [prompt EXCEPT !.at = "abort"]
  /\ UNCHANGED <<pending, engine, once, calls, world>>

MayPublish(r) == Live(pending, r)

(* GrantDuration::Once, under the grants lock and then the registry's. *)
PublishOnce ==
  /\ prompt.at = "once"
  /\ IF MayPublish(r0)
       THEN /\ once' = once \cup {r0}
            /\ pending' = Publish(pending, r0)
            /\ prompt' = [prompt EXCEPT !.at = "finish"]
       ELSE /\ prompt' = [prompt EXCEPT !.at = "abort"]
            /\ UNCHANGED <<once, pending>>
  /\ UNCHANGED <<engine, calls, world>>

(* GrantDuration::WorkspaceSession, under the engine's memory lock. *)
PublishSession ==
  /\ prompt.at = "session"
  /\ IF pending.ask[r0].lair \notin engine.ended_lairs /\ MayPublish(r0)
       THEN /\ engine' = CommitSession(engine, r0, Same(r0))
            /\ pending' = Publish(pending, r0)
            /\ prompt' = [prompt EXCEPT !.at = "finish"]
       ELSE /\ prompt' = [prompt EXCEPT !.at = "abort"]
            /\ UNCHANGED <<engine, pending>>
  /\ UNCHANGED <<once, calls, world>>

(* GrantDuration::Remembered: the proposal, under the writer lock. *)
ProposeAlways ==
  /\ prompt.at = "always" /\ engine.writer = "none"
  /\ IF pending.ask[r0].lair \in engine.ended_lairs
       THEN /\ prompt' = [prompt EXCEPT !.at = "abort"]
            /\ UNCHANGED engine
       ELSE /\ engine' = Lock(engine, "commit", Proposal(engine, r0, Same(r0)))
            /\ prompt' = [prompt EXCEPT !.at = "write"]
  /\ UNCHANGED <<pending, once, calls, world>>

PublishAlways ==
  /\ engine.writer = "commit" /\ engine.stage = "publish"
  /\ engine' = PublishRemembered(engine, r0, Same(r0), pending.ask[r0].lair)
  /\ prompt' = [prompt EXCEPT !.at = IF r0 \in engine'.remembered THEN "finish" ELSE "abort"]
  /\ UNCHANGED <<pending, once, calls, world>>

\* Mutant: the committer does not look at what finish_commit returns.
FinishGrantBlindly ==
  /\ prompt.at = "finish"
  /\ pending' = FinishCommit(pending, r0, "granted")
  /\ prompt' = NextJob
  /\ UNCHANGED <<engine, once, calls, world>>

(* finish_commit with the grant, or with the error that stopped it. *)
FinishGrant ==
  /\ prompt.at = "finish"
  /\ pending' = FinishCommit(pending, r0, "granted")
  /\ prompt' = IF pending.ended[r0] THEN [prompt EXCEPT !.at = "revoke"] ELSE NextJob
  /\ UNCHANGED <<engine, once, calls, world>>

FinishError ==
  /\ prompt.at = "abort"
  /\ pending' = FinishCommit(pending, r0, "ended")
  /\ prompt' = NextJob
  /\ UNCHANGED <<engine, once, calls, world>>

(* revoke_committed_grant *)
RevokeCommitted ==
  /\ prompt.at = "revoke"
  /\ once' = once \ {r0}
  /\ engine' = IF r0 \in engine.remembered THEN Want(Remove(engine, {r0}), "committer")
                                           ELSE Remove(engine, {r0})
  /\ prompt' = [prompt EXCEPT !.at = "flush"]
  /\ UNCHANGED <<pending, calls, world>>

CommitterDone ==
  /\ prompt.at = "flush" /\ ~Flushing(engine, "committer")
  /\ prompt' = NextJob
  /\ UNCHANGED <<pending, engine, once, calls, world>>

-----------------------------------------------------------------------------
(* The store's writer *)

BeginFlush(w) ==
  /\ w \in engine.wants /\ engine.writer = "none"
  /\ engine' = StartFlush(engine, w)
  /\ UNCHANGED <<pending, once, calls, prompt, world>>

\* What the failure of a write does to its caller: nothing was granted or confirmed.
WriteAbandoned ==
  /\ prompt' = IF engine.writer = "commit" THEN [prompt EXCEPT !.at = "abort"] ELSE prompt
  /\ revoker' = IF engine.writer = "revoker" THEN NotRevoking ELSE revoker
  /\ Upset
  /\ UNCHANGED <<pending, once, calls, lairs, ending, fence, history>>

WriteFails ==
  /\ engine.stage = "write"
  /\ engine' = Unlock(engine)
  /\ WriteAbandoned

WriteRenames ==
  /\ engine.stage = "write"
  /\ engine' = Rename(engine)
  /\ UNCHANGED <<pending, once, calls, prompt, world>>

WriteSyncs ==
  /\ engine.stage = "sync"
  /\ engine' = Sync(engine)
  /\ UNCHANGED <<pending, once, calls, prompt, world>>

SyncFails ==
  /\ engine.stage = "sync"
  /\ engine' = IF engine.writer = "commit" THEN NotDurable(engine, r0) ELSE Unlock(engine)
  /\ WriteAbandoned

FinishFlush ==
  /\ engine.stage = "publish" /\ engine.writer # "commit"
  /\ engine' = Unlock(Written(engine))
  /\ UNCHANGED <<pending, once, calls, prompt, world>>

-----------------------------------------------------------------------------
(* Whatever ends requests and revokes grants *)

(* A request expires, its process exits, or its requester cancels it. *)
EndRequest(r) ==
  /\ pending.phase[r] \in {"queued", "prompting", "committing"} /\ ~pending.ended[r]
  /\ Upset
  /\ pending' = EndWhere(pending, {r})
  /\ UNCHANGED <<engine, once, calls, prompt, lairs, ending, revoker, fence,
                 history>>

(* schedule_once_grant_expiry, or a revoke of the grant.  The once grants  *)
(* of one requester are one grant, which each answer refreshes.            *)
OnceExpires(r) ==
  /\ r \in once
  /\ once' = {g \in once : ~SameRequester(pending.ask[g], pending.ask[r])}
  /\ Upset
  /\ UNCHANGED <<pending, engine, calls, prompt, lairs, ending, revoker, fence,
                 history>>

EndPending(p) == EndWhere(p, Requests)

(* revoke_all: pending requests, then the once grants, then the engine,    *)
(* then the durable removal.                                               *)
RevokeAllPending ==
  /\ revoker.at = "idle"
  /\ pending' = EndPending(pending)
  /\ revoker' = [at |-> "once", removed |-> {},
                  from |-> Cardinality(Opened)]
  /\ Upset
  /\ UNCHANGED <<engine, once, calls, prompt, lairs, ending, fence, history>>

RevokeAllOnce ==
  /\ revoker.at = "once"
  /\ once' = {}
  /\ revoker' = [revoker EXCEPT !.at = "engine"]
  /\ UNCHANGED <<pending, engine, calls, prompt, lairs, ending, fence, history,
                 upsets>>

RevokeAllEngine ==
  /\ revoker.at = "engine"
  /\ engine' = Remove(engine, Requests)
  /\ revoker' = [revoker EXCEPT !.at = "check", !.removed = engine.remembered]
  /\ through' = revoker.from
  /\ UNCHANGED <<pending, once, calls, prompt, lairs, ending, fence, confirmed,
                 restored, upsets>>

(* Without the writer lock: is a write owed? *)
RevokeAllChecks ==
  /\ revoker.at = "check"
  /\ engine' = IF FlushNeeded(engine) THEN Want(engine, "revoker") ELSE engine
  /\ revoker' = [revoker EXCEPT !.at = "flush"]
  /\ UNCHANGED <<pending, once, calls, prompt, lairs, ending, fence, history,
                 upsets>>

(* revoke_remembered_grant, for one listed entry. *)
RevokeEntry(r) ==
  /\ revoker.at = "idle"
  /\ r \in engine.remembered
  /\ engine' = Want(Remove(engine, {r}), "revoker")
  /\ revoker' = [NotRevoking EXCEPT !.at = "flush", !.removed = {r}]
  /\ Upset
  /\ UNCHANGED <<pending, once, calls, prompt, lairs, ending, fence, history>>

(* The flush succeeded, or found nothing left to write: the removal is     *)
(* reported durable.                                                       *)
RevokerDone ==
  /\ revoker.at = "flush" /\ ~Flushing(engine, "revoker")
  /\ revoker' = NotRevoking
  /\ confirmed' = confirmed \cup revoker.removed
  /\ UNCHANGED <<pending, engine, once, calls, prompt, lairs, ending, fence,
                 through, restored, upsets>>

(* The workspace leaves the topology, which takes the transaction permit   *)
(* that the fence holds; then end_lair_grants.                             *)
LairLeaves(l) ==
  /\ ending.at = "idle" /\ l \in lairs /\ ~Fenced
  /\ Upset
  /\ lairs' = lairs \ {l}
  /\ ending' = [at |-> "pending", lair |-> l]
  /\ UNCHANGED <<pending, engine, once, calls, prompt, revoker, fence, history>>

EndLairPending ==
  /\ ending.at = "pending"
  /\ pending' = EndWhere(pending, OfLair(ending.lair))
  /\ ending' = [ending EXCEPT !.at = "once"]
  /\ UNCHANGED <<engine, once, calls, prompt, lairs, revoker, fence, history,
                 upsets>>

EndLairOnce ==
  /\ ending.at = "once"
  /\ once' = once \ OfLair(ending.lair)
  /\ ending' = [ending EXCEPT !.at = "engine"]
  /\ UNCHANGED <<pending, engine, calls, prompt, lairs, revoker, fence, history,
                 upsets>>

EndLairEngine ==
  LET gone == OfLair(ending.lair)
      removed == EndLair(engine, gone, ending.lair)
  IN /\ ending.at = "engine"
     /\ engine' = IF engine.remembered \cap gone # {} THEN Want(removed, "task") ELSE removed
     /\ ending' = [at |-> "idle", lair |-> NoLair]
     /\ UNCHANGED <<pending, once, calls, prompt, lairs, revoker, fence, history,
                    upsets>>

-----------------------------------------------------------------------------
(* HandoffAttempt::fence, and its end without an exec *)

FenceWaits ==
  /\ fence = "idle"
  /\ Upset
  /\ fence' = "queued"
  /\ UNCHANGED <<pending, engine, once, calls, prompt, lairs, ending, revoker,
                 history>>

FenceRises ==
  /\ fence = "queued" /\ AdmissionFree
  /\ fence' = "raised"
  /\ UNCHANGED <<pending, engine, once, calls, prompt, lairs, ending, revoker,
                 history, upsets>>

(* end_all_at_fence *)
FenceEndsPending ==
  /\ fence = "raised"
  /\ pending' = EndWhere(pending, Requests)
  /\ fence' = "up"
  /\ UNCHANGED <<engine, once, calls, prompt, lairs, ending, revoker, history,
                 upsets>>

\* flush_agent_access_at_fence
FlushAtFence ==
  /\ fence = "up" /\ FlushNeeded(engine) /\ ~Flushing(engine, "task")
  /\ engine' = Want(engine, "task")
  /\ UNCHANGED <<pending, once, calls, prompt, world>>

\* The wait for the admission runs out, or the attempt is cancelled.
FenceLifts ==
  /\ fence \in {"queued", "up"}
  /\ fence' = "idle"
  /\ UNCHANGED <<pending, engine, once, calls, prompt, lairs, ending, revoker,
                 history, upsets>>

-----------------------------------------------------------------------------
(* ordered_shutdown: the registry closes, and what is owed is flushed. *)
Shutdown ==
  /\ ~pending.closed
  /\ Upset
  /\ pending' = Close(pending)
  /\ engine' = Want(engine, "task")
  /\ UNCHANGED <<once, calls, prompt, lairs, ending, revoker, fence, history>>

\* What dies with the round: every task, and every grant but the remembered.
RoundEnds ==
  /\ once' = {}
  /\ calls' = [c \in Call |-> Idle]
  /\ prompt' = Off
  /\ ending' = [at |-> "idle", lair |-> NoLair]
  /\ revoker' = NotRevoking
  /\ fence' = "idle"
  /\ pending' = [pending EXCEPT
                   !.phase = [r \in Requests |->
                                IF pending.phase[r] = "unused" THEN "unused" ELSE "over"],
                   !.ended = [r \in Requests |-> FALSE],
                   !.denials = {}, !.cooldowns = {}, !.prompter = FALSE, !.closed = FALSE]

Absent == {r \in Opened : pending.ask[r].lair \notin lairs}

(* The process ends, in order or not, and the next one loads the store.  A *)
(* power failure may leave any of the files that writes left open.         *)
Restart ==
  /\ \/ engine' = Load(engine.file, engine.disk, Absent, {})
     \/ \E content \in engine.disk : engine' = Load(content, {content}, Absent, {})
  /\ restored' = UNION engine.disk
  /\ Upset
  /\ RoundEnds
  /\ UNCHANGED <<lairs, through, confirmed>>

(* A handoff fails past its boundary and the same process serves another   *)
(* round: the owed removals are written first, or carried over if not.     *)
ResumeRound ==
  LET wrote == [engine EXCEPT !.file = engine.remembered, !.disk = {engine.remembered}]
  IN /\ fence = "up" /\ engine.writer = "none"
     /\ \/ engine' = Load(engine.file, engine.disk, Absent, engine.removals)
        \/ /\ FlushNeeded(engine)
           /\ engine' = Load(wrote.file, wrote.disk, Absent, {})
     /\ RoundEnds
     /\ UNCHANGED <<lairs, history, upsets>>

-----------------------------------------------------------------------------
CallSteps(c) == EnsurePrompter(c) \/ CallReturns(c)

AdmitStep(c) ==
  \E pinned \in BOOLEAN, denials \in SUBSET pending.denials,
     cooldowns \in SUBSET pending.cooldowns : CallAdmit(c, pinned, denials, cooldowns)

CommitSteps ==
  \/ CheckCommit \/ PublishOnce \/ PublishSession \/ ProposeAlways \/ PublishAlways
  \/ FinishGrant \/ FinishError \/ RevokeCommitted \/ CommitterDone

PrompterSteps ==
  TakePrompt \/ ShowPrompt \/ PromptCloses \/ CommitSteps

StoreSteps ==
  \/ \E w \in Writers : BeginFlush(w)
  \/ WriteFails \/ WriteRenames \/ WriteSyncs \/ SyncFails \/ FinishFlush

RevokerSteps == RevokeAllOnce \/ RevokeAllEngine \/ RevokeAllChecks \/ RevokerDone
EndingSteps == EndLairPending \/ EndLairOnce \/ EndLairEngine
FenceSteps == FenceRises \/ FenceEndsPending \/ FlushAtFence \/ FenceLifts

Next ==
  \/ \E c \in Call : \/ \E a \in Asking[c] : CallEnter(c, a)
                     \/ AdmitStep(c) \/ CallSteps(c) \/ CallDropped(c)
  \/ PrompterSteps \/ PersonDenies \/ PersonGrants \/ StoreSteps
  \/ \E r \in Requests : EndRequest(r) \/ OnceExpires(r) \/ RevokeEntry(r)
  \/ RevokeAllPending \/ RevokerSteps
  \/ \E l \in Lair : LairLeaves(l)
  \/ EndingSteps
  \/ FenceWaits \/ FenceSteps
  \/ Shutdown \/ Restart \/ ResumeRound

Spec == Init /\ [][Next]_vars

-----------------------------------------------------------------------------
\* The commit that may still revoke what it published.
InCommit(r) == prompt.at \in Committing /\ r0 = r

\* A request that ended without a grant has none in force, except while its
\* committer is about to revoke it, or when a restart cut that short.
EndedWins ==
  \A r \in InForce \ restored :
    pending.outcome[r] \in {"ended", "denied"} => InCommit(r)

\* Once Revoke all access has run, nothing asked for before it began is in force.
RevokeAllIsFinal ==
  \A r \in InForce \ restored : r <= through => InCommit(r)

\* A removal reported durable cannot come back, whatever file a power failure
\* leaves.
ConfirmedIsDurable == confirmed \cap (engine.remembered \cup UNION engine.disk) = {}

\* Whatever the store holds is in force, or its removal is owed, or the writer
\* is still at it.
StoreIsAccountedFor ==
  engine.file \subseteq engine.remembered \cup engine.removals \cup engine.proposal

\* A remembered grant survives a power failure once its requester has it, unless
\* a newer answer for the same program and workspace was being written over it.
AlwaysIsDurable ==
  \A r \in engine.remembered, content \in engine.disk :
    pending.outcome[r] = "granted" \/ r \notin restored =>
      r \in content \/ \E q \in Same(r) : q # r /\ q \in content

(* What the daemon says about the store is so: a removal it confirmed and  *)
(* a grant it gave survive a power failure at any step of a write, and a   *)
(* failed write leaves no entry behind unnoticed (DurableFile::write,      *)
(* commit_remembered, flush).                                              *)
StoreKeepsItsWord == ConfirmedIsDurable /\ StoreIsAccountedFor /\ AlwaysIsDurable

\* The end of a workspace is the end of every grant for it.
LairEndIsFinal ==
  \A l \in Lair \ lairs : ending.lair # l => OfLair(l) \cap InForce = {}

(* "An end that arrives during the commit wins" (settle_lair_prompt): what *)
(* was cancelled, denied, fenced, revoked with everything else, or asked   *)
(* for a workspace that has left is not in force, whatever was being       *)
(* shown, committed or written meanwhile.                                  *)
EndsAreFinal == EndedWins /\ RevokeAllIsFinal /\ LairEndIsFinal

(* A queued request always has a prompter to show it: the role is given    *)
(* back only when nothing is queued, and whoever queues claims it next.    *)
QueueHasPrompter ==
  InPhase(pending, {"queued"}) # {} =>
    prompt.at # "off" \/ \E c \in Call : calls[c].at = "opened"

\* No request is pending, but for one whose answer is being committed, and
\* that one is ended.
NothingPendsUnderFence ==
  fence = "up" =>
    \A r \in Entries(pending) : pending.phase[r] = "committing" /\ pending.ended[r]

(* Under the fence no request is pending (ADR 0014), no grant comes into   *)
(* force, and no answer reaches the store, also one that was being         *)
(* committed when the fence went up: a write puts back at most what memory *)
(* holds or has revoked since the write began, whose removal is owed.      *)
FenceHolds ==
  /\ []NothingPendsUnderFence
  /\ [][Fenced /\ Fenced' =>
       /\ InForce' \subseteq InForce
       /\ engine'.file \subseteq engine.file \cup engine.remembered \cup engine.removals]_vars

(* What this process revoked stays revoked in it, resumed rounds included. *)
RevokedStaysRevoked ==
  [][upsets' = upsets => engine.removals \cap engine'.remembered = {}]_vars

=============================================================================

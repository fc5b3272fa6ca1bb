-------------------------- MODULE ConsentFlowProofs --------------------------
(***************************************************************************)
(* The consent flow for any calls, processes, workspaces and number of     *)
(* requests, and any number of ends, revocations, fences, failed writes    *)
(* and restarts: ends are final, the store keeps its word, a queued        *)
(* request has a prompter, and the fence holds.                            *)
(***************************************************************************)
EXTENDS ConsentFlow, TLAPS

Asks == {NoAsk} \cup UNION {Asking[c] : c \in Call}

PendingState ==
  [phase : [Requests -> {"unused", "queued", "prompting", "committing", "published", "over"}],
   ended : [Requests -> BOOLEAN],
   ask : [Requests -> Asks],
   outcome : [Requests -> {"none", "granted", "denied", "ended"}],
   denials : SUBSET Requests, cooldowns : SUBSET Requests,
   prompter : BOOLEAN, closed : BOOLEAN]

EngineState ==
  [sessions : SUBSET Requests, remembered : SUBSET Requests, missing : SUBSET Requests,
   removals : SUBSET Requests, ended_lairs : SUBSET (Lair \cup {NoLair}),
   file : SUBSET Requests, disk : SUBSET SUBSET Requests,
   writer : Writers \cup {"none"}, stage : {"idle", "write", "sync", "publish"},
   proposal : SUBSET Requests, wants : SUBSET (Writers \ {"commit"})]

(* Who may wait for a flush. *)
Waiters == Writers \ {"commit"}

(* Where the prompter shows a request, and where it commits one that has   *)
(* no grant yet.                                                           *)
Showing == {"looking", "shown"}
Deciding == {"commit", "once", "session", "always", "write", "abort"}

PromptState == [at : {"off", "next"} \cup Showing \cup Committing,
                req : 0..MaxRequests, duration : Durations]

Types ==
  /\ pending \in PendingState /\ engine \in EngineState
  /\ once \subseteq Requests
  /\ calls \in [Call -> [at : {"idle", "asking", "opened", "waiting"},
                         req : 0..MaxRequests, ask : Asks]]
  /\ prompt \in PromptState
  /\ lairs \subseteq Lair
  /\ ending \in [at : {"idle", "pending", "once", "engine"}, lair : Lair \cup {NoLair}]
  /\ ending.at = "idle" <=> ending.lair = NoLair
  /\ revoker \in [at : {"idle", "once", "engine", "check", "flush"},
                  removed : SUBSET Requests, from : Nat]
  /\ fence \in {"idle", "queued", "raised", "up"}
  /\ through \in Nat /\ confirmed \subseteq Requests /\ restored \subseteq Requests
  /\ upsets \in Nat

(* The two facts about numbers the proofs rest on: a set of them that is   *)
(* not empty has a least one, and the first so many are that many.         *)
NumberFacts ==
  /\ \A R \in SUBSET Nat : R # {} => Min(R) \in R /\ \A q \in R : Min(R) <= q
  /\ \A k \in Nat : Cardinality(1..k) = k

-----------------------------------------------------------------------------
(* What the methods of the registry return.                                *)

(* q follows p by ends alone: queued and shown requests are over, those    *)
(* being committed are marked.                                             *)
Ended(p, q) ==
  /\ q \in PendingState /\ q.ask = p.ask
  /\ \A r \in Requests :
       \/ /\ q.phase[r] = p.phase[r] /\ q.outcome[r] = p.outcome[r]
          /\ q.ended[r] = p.ended[r]
       \/ /\ p.phase[r] \in {"queued", "prompting"} /\ q.phase[r] = "over"
          /\ q.outcome[r] = "ended" /\ q.ended[r] = p.ended[r]
       \/ /\ p.phase[r] = "committing" /\ q.phase[r] = "committing"
          /\ q.outcome[r] = p.outcome[r] /\ q.ended[r]

(* q follows p by an answer to the requests of R, and to no other. *)
Delivers(p, q, R, result) ==
  /\ q \in PendingState /\ q.ask = p.ask /\ q.prompter = p.prompter
  /\ q.phase = [r \in Requests |-> IF r \in R THEN "over" ELSE p.phase[r]]
  /\ q.ended = [r \in Requests |-> p.ended[r] /\ r \notin R]
  /\ q.outcome = [r \in Requests |-> IF r \in R THEN result ELSE p.outcome[r]]

(* Delivering settles the requests named, and no other. *)
LEMMA DeliverEffect ==
  ASSUME NEW p \in PendingState, NEW R, NEW result \in {"granted", "denied", "ended"},
         NEW q, q = Deliver(p, R, result)
  PROVE Delivers(p, q, R, result)
<1> DEFINE phases == [r \in Requests |-> IF r \in R THEN "over" ELSE p.phase[r]]
           endeds == [r \in Requests |-> p.ended[r] /\ r \notin R]
           outcomes == [r \in Requests |-> IF r \in R THEN result ELSE p.outcome[r]]
<1>1. phases \in [Requests -> {"unused", "queued", "prompting", "committing", "published", "over"}]
  BY DEF PendingState
<1>2. endeds \in [Requests -> BOOLEAN]
  BY Zenon DEF PendingState
<1>3. outcomes \in [Requests -> {"none", "granted", "denied", "ended"}]
  BY DEF PendingState
<1>4. q = [p EXCEPT !.phase = phases, !.ended = endeds, !.outcome = outcomes]
  BY Zenon DEF Deliver
<1> HIDE DEF phases, endeds, outcomes
<1>5. /\ q \in PendingState /\ q.ask = p.ask /\ q.prompter = p.prompter
      /\ q.phase = phases /\ q.ended = endeds /\ q.outcome = outcomes
  BY <1>1, <1>2, <1>3, <1>4, Zenon DEF PendingState
<1> QED BY <1>5, Zenon DEF Delivers, phases, endeds, outcomes

(* What an end of requests leaves of them. *)
AllEnded(q, R) ==
  \A r \in Requests \cap R :
    q.phase[r] \notin {"queued", "prompting"} /\ (q.phase[r] = "committing" => q.ended[r])

(* Ending requests does no more than that. *)
LEMMA EndWhereEffect ==
  ASSUME NEW p \in PendingState, NEW R,
         NEW q, q = EndWhere(p, R)
  PROVE Ended(p, q) /\ q.prompter = p.prompter /\ AllEnded(q, R)
<1> DEFINE S == R \cap InPhase(p, {"queued", "prompting"})
<1>4. \A r \in Requests : r \in S <=> r \in R /\ p.phase[r] \in {"queued", "prompting"}
  BY Zenon DEF InPhase
<1> DEFINE d == Deliver(p, S, "ended")
           endeds == [r \in Requests |-> p.ended[r] \/ (r \in R /\ p.phase[r] = "committing")]
<1>3. q = [d EXCEPT !.ended = endeds]
  BY Zenon DEF EndWhere
<1> HIDE DEF S
<1>1. /\ d \in PendingState /\ d.ask = p.ask /\ d.prompter = p.prompter
      /\ d.phase = [r \in Requests |-> IF r \in S THEN "over" ELSE p.phase[r]]
      /\ d.outcome = [r \in Requests |-> IF r \in S THEN "ended" ELSE p.outcome[r]]
  <2>1. d = Deliver(p, S, "ended") /\ "ended" \in {"granted", "denied", "ended"}
    OBVIOUS
  <2> HIDE DEF d
  <2>2. Delivers(p, d, S, "ended")
    BY <2>1, DeliverEffect, Zenon
  <2> QED BY <2>2, Zenon DEF Delivers
<1>2. endeds \in [Requests -> BOOLEAN]
  BY Zenon DEF PendingState
<1>a. \A r \in Requests : endeds[r] = (p.ended[r] \/ (r \in R /\ p.phase[r] = "committing"))
  BY Zenon
<1>b. \A r \in Requests : p.ended[r] \in BOOLEAN
  BY Zenon DEF PendingState
<1> HIDE DEF d, endeds
<1>5. /\ q \in PendingState /\ q.ask = p.ask /\ q.prompter = p.prompter
      /\ q.phase = d.phase /\ q.outcome = d.outcome /\ q.ended = endeds
  BY <1>1, <1>2, <1>3 DEF PendingState
<1>6. \A r \in Requests :
        /\ r \in S => q.phase[r] = "over" /\ q.outcome[r] = "ended"
        /\ r \notin S => q.phase[r] = p.phase[r] /\ q.outcome[r] = p.outcome[r]
  BY <1>1, <1>5
<1>7. \A r \in Requests :
        /\ p.phase[r] = "committing" /\ r \in R => q.ended[r]
        /\ ~ (p.phase[r] = "committing" /\ r \in R) => q.ended[r] = p.ended[r]
  BY <1>5, <1>a, <1>b, Zenon
<1>8. Ended(p, q)
  <2> SUFFICES ASSUME NEW r \in Requests
               PROVE \/ /\ q.phase[r] = p.phase[r] /\ q.outcome[r] = p.outcome[r]
                        /\ q.ended[r] = p.ended[r]
                     \/ /\ p.phase[r] \in {"queued", "prompting"} /\ q.phase[r] = "over"
                        /\ q.outcome[r] = "ended" /\ q.ended[r] = p.ended[r]
                     \/ /\ p.phase[r] = "committing" /\ q.phase[r] = "committing"
                        /\ q.outcome[r] = p.outcome[r] /\ q.ended[r]
    BY <1>5, Zenon DEF Ended
  <2>1. CASE r \in S
    BY <1>4, <1>6, <1>7, <2>1
  <2>2. CASE r \notin S /\ r \in R /\ p.phase[r] = "committing"
    BY <1>6, <1>7, <2>2
  <2>3. CASE r \notin S /\ ~ (r \in R /\ p.phase[r] = "committing")
    BY <1>6, <1>7, <2>3
  <2> QED BY <2>1, <2>2, <2>3
<1>9. ASSUME NEW r \in Requests \cap R
      PROVE q.phase[r] \notin {"queued", "prompting"} /\ (q.phase[r] = "committing" => q.ended[r])
  BY <1>4, <1>6, <1>7
<1> QED BY <1>5, <1>8, <1>9, Zenon DEF AllEnded

-----------------------------------------------------------------------------
(* The registry and the prompter's record of where it is.                  *)

(* The prompter is where the phase of its request says, and no other       *)
(* request is shown or committed.                                          *)
Agrees(p, t) ==
  /\ t.at \in Showing => t.req \in Requests /\ p.phase[t.req] \in {"prompting", "over"}
  /\ t.at \in Deciding => t.req \in Requests /\ p.phase[t.req] = "committing"
  /\ t.at = "finish" => t.req \in Requests /\ p.phase[t.req] \in {"committing", "published"}
  /\ t.at \in {"revoke", "flush"} => t.req \in Requests /\ p.phase[t.req] = "over"
  /\ \A r \in Requests :
       /\ p.phase[r] = "prompting" => r = t.req /\ t.at \in Showing
       /\ p.phase[r] = "committing" => r = t.req /\ t.at \in Deciding \cup {"finish"}
       /\ p.phase[r] = "published" => r = t.req /\ t.at = "finish"
       /\ p.ended[r] => p.phase[r] = "committing"
       /\ p.outcome[r] # "none" => p.phase[r] = "over"

(* A request that has had its answer, or its commit its result.            *)
Spent(p, t, r) == p.phase[r] = "over" \/ (r = t.req /\ t.at \in {"finish", "abort"})

(* A request that an end has reached, or that was out before it.           *)
Settled(p, r) ==
  p.phase[r] \in {"over", "published"} \/ (p.phase[r] = "committing" /\ p.ended[r])

(* A grant that its committer is about to revoke. *)
Chased(p, t, r) ==
  r = t.req /\ (t.at = "revoke" \/ (t.at = "finish" /\ p.ended[r]))

(* What a step may do to a request. *)
Moves(p, t, q, u, r) ==
  /\ p.phase[r] = "over" => q.phase[r] = "over" /\ q.outcome[r] = p.outcome[r]
  /\ p.phase[r] # "unused" => q.phase[r] # "unused" /\ q.ask[r] = p.ask[r]
  /\ Spent(p, t, r) => Spent(q, u, r)
  /\ Settled(p, r) => Settled(q, r)
  /\ Chased(p, t, r) =>
       Chased(q, u, r) \/ (t.at = "revoke" /\ u.at = "flush") \/ u.at = "off"
  /\ Spent(p, t, r) /\ r = u.req /\ u.at \in {"finish", "abort"} => t.at = u.at /\ r = t.req
  /\ \/ q.outcome[r] = p.outcome[r]
     \/ q.outcome[r] = "granted" /\ r = t.req /\ t.at = "finish"
     \/ q.outcome[r] \in {"ended", "denied"} /\ ~ Spent(p, t, r)
     \/ q.outcome[r] \in {"ended", "denied"} /\ r = t.req /\ t.at = "abort"
     \/ q.outcome[r] \in {"ended", "denied"} /\ Chased(q, u, r)
  /\ q.phase[r] = "committing" =>
       \/ p.phase[r] = "committing" /\ (p.ended[r] => q.ended[r])
       \/ p.phase[r] = "prompting" /\ t.at = "shown"
  /\ q.phase[r] = "queued" => p.phase[r] \in {"queued", "unused"}
  /\ q.phase[r] = "prompting" => p.phase[r] \in {"queued", "prompting"}
  /\ q.phase[r] = "prompting" =>
       u.at = "looking" \/ (p.phase[r] = "prompting" /\ (u.at = t.at \/ r = t.req))

(* No request is opened, or the next one is. *)
OpensNone(p, q) == \A r \in Requests : p.phase[r] = "unused" => q.phase[r] = "unused"

Opens(p, q) ==
  \/ OpensNone(p, q)
  \/ \E m \in Requests :
       /\ \A r \in Requests : r < m => p.phase[r] # "unused"
       /\ q.phase[m] = "queued"
       /\ \A r \in Requests \ {m} : p.phase[r] = "unused" => q.phase[r] = "unused"

Passes(p, t, q, u) ==
  /\ Agrees(q, u) /\ OpensNone(p, q)
  /\ \A r \in Requests : Moves(p, t, q, u, r)

Admits(p, t, q, u) ==
  /\ Agrees(q, u) /\ Opens(p, q)
  /\ \A r \in Requests : Moves(p, t, q, u, r)

(* Every request but m is left alone. *)
Touches(p, q, m) ==
  /\ q \in PendingState
  /\ \A r \in Requests \ {m} :
       /\ q.phase[r] = p.phase[r] /\ q.outcome[r] = p.outcome[r]
       /\ q.ended[r] = p.ended[r] /\ q.ask[r] = p.ask[r]

-----------------------------------------------------------------------------
(* Every step takes the registry and the prompter from one agreement to    *)
(* another.                                                                *)

WriterAgrees ==
  /\ engine.writer = "commit" <=> prompt.at = "write"
  /\ engine.stage = "idle" <=> engine.writer = "none"

RegistryPasses ==
  pending' \in PendingState /\ prompt' \in PromptState /\ Passes(pending, prompt, pending', prompt')

RegistryAdmits ==
  pending' \in PendingState /\ prompt' \in PromptState /\ Admits(pending, prompt, pending', prompt')

(* The prompter's record when it is done with a request, and when it stops. *)
LEMMA JobRecords ==
  /\ NextJob \in PromptState /\ NextJob.at = "next" /\ NextJob.req = 0
  /\ Off \in PromptState /\ Off.at = "off" /\ Off.req = 0
BY PendingAssumption DEF NextJob, Off, PromptState, Durations

(* q follows p by the answer o to the request r. *)
Answered(p, q, r, o) ==
  /\ Touches(p, q, r) /\ q.phase[r] = "over" /\ q.outcome[r] = o
  /\ ~ q.ended[r] /\ q.ask = p.ask /\ q.prompter = p.prompter

(* A new phase for one request. *)
LEMMA PhaseOne ==
  ASSUME NEW p \in PendingState, NEW q, NEW r \in Requests,
         NEW ph \in {"prompting", "committing", "published"},
         q = [p EXCEPT !.phase[r] = ph]
  PROVE /\ Touches(p, q, r) /\ q \in PendingState /\ q.phase[r] = ph
        /\ q.outcome = p.outcome /\ q.ended = p.ended /\ q.ask = p.ask
        /\ q.prompter = p.prompter
<1>1. /\ q \in PendingState /\ q.phase = [p.phase EXCEPT ![r] = ph]
      /\ q.outcome = p.outcome /\ q.ended = p.ended /\ q.ask = p.ask
      /\ q.prompter = p.prompter
  BY Zenon DEF PendingState
<1>2. q.phase[r] = ph /\ \A x \in Requests \ {r} : q.phase[x] = p.phase[x]
  BY <1>1 DEF PendingState
<1> QED BY <1>1, <1>2, Zenon DEF Touches

(* Requests are opened in order. *)
InOrder(p) ==
  \E k \in 0..MaxRequests : \A r \in Requests : p.phase[r] = "unused" <=> r > k

Registry ==
  /\ Agrees(pending, prompt) /\ InOrder(pending)
  /\ pending.prompter <=> prompt.at # "off"

(* The steps that leave the registry and the prompter alone. *)
Elsewhere ==
  \/ \E c \in Call : (\E a \in Asking[c] : CallEnter(c, a)) \/ CallReturns(c) \/ CallDropped(c)
  \/ \E w \in Writers : BeginFlush(w)
  \/ WriteRenames \/ WriteSyncs \/ FinishFlush
  \/ \E r \in Requests : OnceExpires(r) \/ RevokeEntry(r)
  \/ RevokerSteps
  \/ \E l \in Lair : LairLeaves(l)
  \/ EndLairOnce \/ EndLairEngine
  \/ FenceWaits \/ FenceRises \/ FlushAtFence \/ FenceLifts
  \/ UNCHANGED vars

(* They do. *)
LEMMA ElsewhereIsQuiet ==
  ASSUME Elsewhere
  PROVE pending' = pending /\ prompt' = prompt
<1>1. CASE \E c \in Call : (\E a \in Asking[c] : CallEnter(c, a)) \/ CallReturns(c) \/ CallDropped(c)
  BY <1>1, Zenon DEF CallEnter, CallReturns, CallDropped
<1>2. CASE (\E w \in Writers : BeginFlush(w)) \/ WriteRenames \/ WriteSyncs \/ FinishFlush
  BY <1>2, Zenon DEF BeginFlush, WriteRenames, WriteSyncs, FinishFlush
<1>3. CASE \E r \in Requests : OnceExpires(r) \/ RevokeEntry(r)
  BY <1>3, Zenon DEF OnceExpires, RevokeEntry
<1>4. CASE RevokerSteps
  BY <1>4, Zenon DEF RevokerSteps, RevokeAllOnce, RevokeAllEngine, RevokeAllChecks, RevokerDone
<1>5. CASE (\E l \in Lair : LairLeaves(l)) \/ EndLairOnce \/ EndLairEngine
  BY <1>5, Zenon DEF LairLeaves, EndLairOnce, EndLairEngine
<1>6. CASE FenceWaits \/ FenceRises \/ FlushAtFence \/ FenceLifts \/ UNCHANGED vars
  BY <1>6, Zenon DEF FenceWaits, FenceRises, FlushAtFence, FenceLifts, vars
<1> QED BY <1>1, <1>2, <1>3, <1>4, <1>5, <1>6, Zenon DEF Elsewhere

(* The other steps, by what they do to the registry. *)
Enders ==
  \/ \E r \in Requests : EndRequest(r)
  \/ RevokeAllPending \/ EndLairPending \/ FenceEndsPending \/ Shutdown

Showers ==
  \/ \E c \in Call : EnsurePrompter(c)
  \/ TakePrompt \/ ShowPrompt \/ PromptCloses \/ PersonDenies \/ PersonGrants

(* Every step is of one of these kinds. *)
LEMMA StepKinds ==
  ASSUME [Next]_vars
  PROVE \/ Elsewhere \/ Enders \/ Showers \/ CommitSteps
        \/ \E c \in Call : AdmitStep(c)
        \/ WriteFails \/ SyncFails
        \/ Restart \/ ResumeRound
BY Zenon DEF Next, Elsewhere, Enders, Showers, CallSteps, PrompterSteps, StoreSteps,
   EndingSteps, FenceSteps

(* Whatever happens, the registry and the prompter agree. *)
LEMMA RegistryStep ==
  /\ NumberFacts /\ Types /\ Registry /\ WriterAgrees /\ [Next]_vars
  => /\ RegistryAdmits /\ Registry'
     /\ OpensNone(pending, pending') \/ \E c \in Call : AdmitStep(c)

(* Doing nothing is a case of ending requests. *)
<1>NothingEnds.
    ASSUME NEW p \in PendingState, NEW q \in PendingState,
           q.phase = p.phase, q.ended = p.ended, q.outcome = p.outcome, q.ask = p.ask
    PROVE Ended(p, q)
  BY <1>NothingEnds, Zenon DEF Ended

(* An end finds the prompter where it is. *)
<1>EndPasses.
    ASSUME NEW p \in PendingState, NEW t \in PromptState, NEW q, Agrees(p, t), Ended(p, q)
    PROVE Passes(p, t, q, t)
  <2> USE <1>EndPasses
  <2>1. \A r \in Requests : p.ended[r] \in BOOLEAN /\ q.ended[r] \in BOOLEAN
    BY Zenon DEF Ended, PendingState
  <2>2. Agrees(q, t)
    BY <2>1 DEF Agrees, Ended, Showing, Deciding
  <2>3. \A r \in Requests : Moves(p, t, q, t, r)
    BY <2>1 DEF Agrees, Ended, Moves, Spent, Settled, Chased, Showing, Deciding
  <2>4. OpensNone(p, q)
    BY DEF Ended, OpensNone
  <2> QED BY <2>2, <2>3, <2>4, Zenon DEF Passes

(* A new request is queued behind the others. *)
<1>OpenPasses.
    ASSUME NEW p \in PendingState, NEW t \in PromptState, NEW q, NEW u \in PromptState,
           Agrees(p, t),
           NEW m \in Requests, p.phase[m] = "unused",
           \A r \in Requests : r < m => p.phase[r] # "unused",
           Touches(p, q, m), q.phase[m] = "queued", q.outcome[m] = p.outcome[m],
           q.ended[m] = p.ended[m], u = t
    PROVE Admits(p, t, q, u)
  <2> USE <1>OpenPasses
  <2>1. \A r \in Requests : p.ended[r] \in BOOLEAN /\ q.ended[r] \in BOOLEAN
    BY Zenon DEF Touches, Ended, PendingState
  <2>2. Agrees(q, u)
    BY <2>1 DEF Agrees, Touches, Showing, Deciding
  <2>3. \A r \in Requests : Moves(p, t, q, u, r)
    BY <2>1 DEF Agrees, Touches, Moves, Spent, Settled, Chased, Showing, Deciding
  <2>4. Opens(p, q)
    BY DEF Touches, Opens, OpensNone
  <2> QED BY <2>2, <2>3, <2>4, Zenon DEF Admits

(* The prompter is done with a request that is over, or starts, or stops. *)
<1>FreePasses.
    ASSUME NEW p \in PendingState, NEW t \in PromptState, NEW q, NEW u \in PromptState,
           Agrees(p, t),
           Ended(p, q), t.at \in {"off", "next", "flush"} \cup Showing, u.at \in {"off", "next"},
           t.at \in Showing => q.phase[t.req] # "prompting"
    PROVE Passes(p, t, q, u)
  <2> USE <1>FreePasses
  <2>1. \A r \in Requests : p.ended[r] \in BOOLEAN /\ q.ended[r] \in BOOLEAN
    BY Zenon DEF Touches, Ended, PendingState
  <2>2. Agrees(q, u)
    BY <2>1 DEF Agrees, Ended, Showing, Deciding
  <2>3. \A r \in Requests : Moves(p, t, q, u, r)
    BY <2>1 DEF Agrees, Ended, Moves, Spent, Settled, Chased, Showing, Deciding
  <2>4. OpensNone(p, q)
    BY DEF Ended, OpensNone
  <2> QED BY <2>2, <2>3, <2>4, Zenon DEF Passes

(* The request of the prompter is answered. *)
<1>SettlePasses.
    ASSUME NEW p \in PendingState, NEW t \in PromptState, NEW q, NEW u \in PromptState,
           Agrees(p, t),
           Touches(p, q, t.req), t.req \in Requests, q.phase[t.req] = "over",
           ~ q.ended[t.req], q.ask[t.req] = p.ask[t.req],
           \/ /\ t.at = "shown" /\ p.phase[t.req] = "prompting"
              /\ q.outcome[t.req] = "denied" /\ u.at = "next"
           \/ /\ t.at = "abort" /\ q.outcome[t.req] = "ended" /\ u.at = "next"
           \/ /\ t.at = "finish" /\ p.ended[t.req]
              /\ q.outcome[t.req] = "ended" /\ u.at = "revoke" /\ u.req = t.req
           \/ /\ t.at = "finish" /\ ~ p.ended[t.req]
              /\ q.outcome[t.req] = "granted" /\ u.at = "next"
    PROVE Passes(p, t, q, u)
  <2> USE <1>SettlePasses
  <2>1. \A r \in Requests : p.ended[r] \in BOOLEAN /\ q.ended[r] \in BOOLEAN
    BY Zenon DEF Touches, Ended, PendingState
  <2>2. Agrees(q, u)
    BY <2>1 DEF Agrees, Touches, Showing, Deciding
  <2>3. \A r \in Requests : Moves(p, t, q, u, r)
    BY <2>1 DEF Agrees, Touches, Moves, Spent, Settled, Chased, Showing, Deciding
  <2>4. OpensNone(p, q)
    BY DEF Agrees, Deciding, Touches, OpensNone
  <2> QED BY <2>2, <2>3, <2>4, Zenon DEF Passes

(* A request is shown, its commit begins, or its grant is published. *)
<1>StepPasses.
    ASSUME NEW p \in PendingState, NEW t \in PromptState, NEW q, NEW u \in PromptState,
           Agrees(p, t),
           NEW m \in Requests, Touches(p, q, m), u.req = m,
           q.outcome[m] = p.outcome[m], q.ended[m] = p.ended[m], q.ask[m] = p.ask[m],
           \/ /\ t.at = "next" /\ p.phase[m] = "queued"
              /\ q.phase[m] = "prompting" /\ u.at = "looking"
           \/ /\ t.at = "shown" /\ m = t.req /\ p.phase[m] = "prompting"
              /\ q.phase[m] = "committing" /\ u.at = "commit"
           \/ /\ t.at \in {"once", "session"} /\ m = t.req /\ ~ p.ended[m]
              /\ q.phase[m] = "published" /\ u.at = "finish"
    PROVE Passes(p, t, q, u)
  <2> USE <1>StepPasses
  <2>1. \A r \in Requests : p.ended[r] \in BOOLEAN /\ q.ended[r] \in BOOLEAN
    BY Zenon DEF Touches, Ended, PendingState
  <2>2. Agrees(q, u)
    BY <2>1 DEF Agrees, Touches, Showing, Deciding
  <2>3. \A r \in Requests : Moves(p, t, q, u, r)
    BY <2>1 DEF Agrees, Touches, Moves, Spent, Settled, Chased, Showing, Deciding
  <2>4. OpensNone(p, q)
    BY DEF Agrees, Deciding, Touches, OpensNone
  <2> QED BY <2>2, <2>3, <2>4, Zenon DEF Passes

(* The prompter goes on with the same request. *)
<1>TurnPasses.
    ASSUME NEW p \in PendingState, NEW t \in PromptState, NEW q, NEW u \in PromptState,
           Agrees(p, t),
           q = p, u.req = t.req,
           \/ t.at \in Deciding \ {"abort"} /\ u.at \in Deciding
           \/ t.at = "looking" /\ u.at = "shown"
           \/ t.at = "write" /\ u.at = "finish"
           \/ t.at = "revoke" /\ u.at = "flush"
    PROVE Passes(p, t, q, u)
  <2> USE <1>TurnPasses
  <2>1. \A r \in Requests : p.ended[r] \in BOOLEAN /\ q.ended[r] \in BOOLEAN
    BY Zenon DEF Touches, Ended, PendingState
  <2>2. Agrees(q, u)
    BY <2>1 DEF Agrees, Showing, Deciding
  <2>3. \A r \in Requests : Moves(p, t, q, u, r)
    BY <2>1 DEF Agrees, Moves, Spent, Settled, Chased, Showing, Deciding
  <2>4. OpensNone(p, q)
    BY DEF OpensNone
  <2> QED BY <2>2, <2>3, <2>4, Zenon DEF Passes

(* Every request is over when the round ends. *)
<1>RoundPasses.
    ASSUME NEW p \in PendingState, NEW t \in PromptState, NEW q, NEW u \in PromptState,
           Agrees(p, t),
           q \in PendingState, q.outcome = p.outcome, q.ask = p.ask, u.at = "off",
           \A r \in Requests :
             /\ q.phase[r] = IF p.phase[r] = "unused" THEN "unused" ELSE "over"
             /\ ~ q.ended[r]
    PROVE Passes(p, t, q, u)
  <2> USE <1>RoundPasses
  <2>1. \A r \in Requests : p.ended[r] \in BOOLEAN /\ q.ended[r] \in BOOLEAN
    BY Zenon DEF Touches, Ended, PendingState
  <2>2. Agrees(q, u)
    BY <2>1 DEF Agrees, Showing, Deciding
  <2>3. \A r \in Requests : Moves(p, t, q, u, r)
    BY <2>1 DEF Agrees, Moves, Spent, Settled, Chased, Showing, Deciding
  <2>4. OpensNone(p, q)
    BY DEF OpensNone
  <2> QED BY <2>2, <2>3, <2>4, Zenon DEF Passes

(* A step that leaves the prompter alone and at most ends requests. *)
<1>EndStep.
    ASSUME Types, Agrees(pending, prompt), Ended(pending, pending'), prompt' = prompt
    PROVE RegistryPasses
  <2> USE <1>EndStep
  <2>1. pending \in PendingState /\ prompt \in PromptState /\ pending' \in PendingState
    BY Zenon DEF Types, Ended
  <2>2. Passes(pending, prompt, pending', prompt)
    BY <2>1, <1>EndPasses, Zenon
  <2> QED BY <2>1, <2>2, Zenon DEF RegistryPasses

(* A step elsewhere. *)
<1>QuietStep.
    ASSUME Types, Agrees(pending, prompt), pending' = pending, prompt' = prompt
    PROVE RegistryPasses
  <2> USE <1>QuietStep
  <2>1. Ended(pending, pending')
    BY <1>NothingEnds, Zenon DEF Types
  <2> QED BY <2>1, <1>EndStep, Zenon

(* Closing the registry ends what pends. *)
<1>CloseEffect.
    ASSUME NEW p \in PendingState, NEW q, q = Close(p)
    PROVE Ended(p, q) /\ q.prompter = p.prompter
  <2> USE <1>CloseEffect
  <2> DEFINE e == EndWhere(p, Requests)
  <2>1. e = EndWhere(p, Requests)
    OBVIOUS
  <2>2. q = [e EXCEPT !.closed = TRUE]
    BY Zenon DEF Close
  <2> HIDE DEF e
  <2>3. Ended(p, e) /\ e.prompter = p.prompter
    BY <2>1, EndWhereEffect, Zenon
  <2>4. e \in PendingState
    BY <2>3, Zenon DEF Ended
  <2>5. /\ q \in PendingState /\ q.phase = e.phase /\ q.ended = e.ended /\ q.outcome = e.outcome
        /\ q.ask = e.ask /\ q.prompter = e.prompter
    BY <2>2, <2>4, Zenon DEF PendingState
  <2> QED BY <2>3, <2>5, Zenon DEF Ended

(* What ends requests and is not the prompter. *)
<1>EndersPass.
    ASSUME Types, Agrees(pending, prompt),
           \/ \E r \in Requests : EndRequest(r)
           \/ RevokeAllPending \/ EndLairPending \/ FenceEndsPending \/ Shutdown
    PROVE RegistryPasses /\ pending'.prompter = pending.prompter
  <2> USE <1>EndersPass
  <2>1. pending \in PendingState
    BY Zenon DEF Types
  <2>2. CASE \E r \in Requests : EndRequest(r)
    <3>1. PICK r \in Requests : EndRequest(r)
      BY <2>2
    <3>2. pending' = EndWhere(pending, {r}) /\ prompt' = prompt
      BY <3>1, Zenon DEF EndRequest
    <3>3. Ended(pending, pending') /\ pending'.prompter = pending.prompter
      BY <2>1, <3>2, EndWhereEffect, Zenon
    <3> QED BY <3>2, <3>3, <1>EndStep, Zenon
  <2>3. CASE RevokeAllPending \/ FenceEndsPending
    <3>2. pending' = EndWhere(pending, Requests) /\ prompt' = prompt
      BY <2>3, Zenon DEF RevokeAllPending, FenceEndsPending, EndPending
    <3>3. Ended(pending, pending') /\ pending'.prompter = pending.prompter
      BY <2>1, <3>2, EndWhereEffect, Zenon
    <3> QED BY <3>2, <3>3, <1>EndStep, Zenon
  <2>4. CASE EndLairPending
    <3>2. pending' = EndWhere(pending, OfLair(ending.lair)) /\ prompt' = prompt
      BY <2>4, Zenon DEF EndLairPending
    <3>3. Ended(pending, pending') /\ pending'.prompter = pending.prompter
      BY <2>1, <3>2, EndWhereEffect, Zenon
    <3> QED BY <3>2, <3>3, <1>EndStep, Zenon
  <2>5. CASE Shutdown
    <3>2. pending' = Close(pending) /\ prompt' = prompt
      BY <2>5, Zenon DEF Shutdown
    <3>3. Ended(pending, pending') /\ pending'.prompter = pending.prompter
      BY <2>1, <3>2, <1>CloseEffect, Zenon
    <3> QED BY <3>2, <3>3, <1>EndStep, Zenon
  <2> QED BY <2>2, <2>3, <2>4, <2>5, Zenon

(* An admission opens the next request, or none. *)
<1>AdmitPasses.
    ASSUME NumberFacts, Types, Agrees(pending, prompt), NEW c \in Call, AdmitStep(c)
    PROVE RegistryAdmits /\ pending'.prompter = pending.prompter /\ prompt' = prompt
  <2> USE <1>AdmitPasses
  <2>1. PICK pinned \in BOOLEAN, denials \in SUBSET pending.denials,
             cooldowns \in SUBSET pending.cooldowns : CallAdmit(c, pinned, denials, cooldowns)
    BY Zenon DEF AdmitStep
  <2> DEFINE a == calls[c].ask
             p == IF pending.closed THEN pending ELSE Prune(pending, denials, cooldowns)
             answer == Admission(p, a, pinned)
             unused == InPhase(p, {"unused"})
  <2>2. /\ answer = "opened" => unused # {}
        /\ pending' = CASE answer = "collected" -> Collect(p, a)
                        [] answer = "opened" -> Open(p, a, Min(unused))
                        [] OTHER -> p
        /\ prompt' = prompt
    BY <2>1, Zenon DEF CallAdmit
  <2>3. pending \in PendingState /\ prompt \in PromptState /\ a \in Asks
    BY Zenon DEF Types
  <2>4. /\ p \in PendingState /\ p.phase = pending.phase /\ p.ended = pending.ended
        /\ p.outcome = pending.outcome /\ p.ask = pending.ask /\ p.prompter = pending.prompter
    <3>1. CASE pending.closed
      BY <2>3, <3>1, Zenon
    <3>2. CASE ~ pending.closed
      <4>1. p = Prune(pending, denials, cooldowns)
        BY <3>2, Zenon
      <4>2. denials \in SUBSET Requests /\ cooldowns \in SUBSET Requests
        BY <2>3, Zenon DEF PendingState
      <4> QED BY <2>3, <4>1, <4>2, Zenon DEF Prune, PendingState
    <3> QED BY <3>1, <3>2, Zenon
  <2> HIDE DEF p, a
  <2>5. CASE answer # "opened"
    <3>1. pending' = p \/ pending' = Collect(p, a)
      BY <2>2, <2>5, Zenon
    <3>2. /\ pending' \in PendingState /\ pending'.phase = p.phase /\ pending'.ended = p.ended
          /\ pending'.outcome = p.outcome /\ pending'.ask = p.ask
          /\ pending'.prompter = p.prompter
      <4>1. CASE pending' = p
        BY <2>4, <4>1, Zenon
      <4>2. CASE pending' = Collect(p, a)
        <5> DEFINE kept == p.denials \ {Min({d \in p.denials : p.ask[d] = a})}
        <5>1. kept \in SUBSET Requests
          BY <2>4, Zenon DEF PendingState
        <5>2. pending' = [p EXCEPT !.denials = kept]
          BY <4>2, Zenon DEF Collect
        <5> HIDE DEF kept
        <5> QED BY <2>4, <5>1, <5>2, Zenon DEF PendingState
      <4> QED BY <3>1, <4>1, <4>2, Zenon
    <3>3. Ended(pending, pending')
      BY <2>3, <2>4, <3>2, <1>NothingEnds, Zenon
    <3>4. RegistryPasses
      BY <2>2, <3>3, <1>EndStep, Zenon
    <3> QED BY <2>2, <2>4, <3>2, <3>4, Zenon DEF RegistryPasses, RegistryAdmits, Passes, Admits,
               Opens
  <2>6. CASE answer = "opened"
    <3> DEFINE m == Min(unused)
    <3>1. unused # {} /\ unused \subseteq Nat
      BY <2>2, <2>6 DEF InPhase, Requests
    <3>2. m \in unused /\ \A r \in unused : m <= r
      BY <3>1, Zenon DEF NumberFacts
    <3>3. m \in Requests /\ p.phase[m] = "unused" /\ \A r \in Requests : p.phase[r] = "unused" => m <= r
      BY <3>2, Zenon DEF InPhase
    <3>4. pending' = Open(p, a, m)
      BY <2>2, <2>6, Zenon
    <3> HIDE DEF m
    <3>5. /\ pending' \in PendingState /\ pending'.ended = p.ended /\ pending'.outcome = p.outcome
          /\ pending'.prompter = p.prompter
          /\ pending'.phase = [p.phase EXCEPT ![m] = "queued"]
          /\ pending'.ask = [p.ask EXCEPT ![m] = a]
      BY <2>3, <2>4, <3>3, <3>4, Zenon DEF Open, PendingState
    <3>6. Touches(pending, pending', m) /\ pending'.phase[m] = "queued"
      BY <2>3, <2>4, <3>3, <3>5 DEF Touches, PendingState
    <3>7. \A r \in Requests : r < m => pending.phase[r] # "unused"
      BY <2>4, <3>3 DEF Requests
    <3>8. Admits(pending, prompt, pending', prompt)
      BY <2>3, <2>4, <3>3, <3>5, <3>6, <3>7, <1>OpenPasses, Zenon
    <3> QED BY <2>2, <2>3, <2>4, <3>5, <3>8, Zenon DEF RegistryAdmits
  <2> QED BY <2>5, <2>6, Zenon

(* Only the place changes. *)
<1>TurnRecord.
    ASSUME NEW t \in PromptState, NEW x \in {"off", "next"} \cup Showing \cup Committing,
           NEW u, u = [t EXCEPT !.at = x]
    PROVE u \in PromptState /\ u.at = x /\ u.req = t.req
  BY <1>TurnRecord, Zenon DEF PromptState

(* The prompter turns to its next place with the same request. *)
<1>TurnStep.
    ASSUME Types, Agrees(pending, prompt), pending' = pending,
           NEW x \in Showing \cup Committing, prompt' = [prompt EXCEPT !.at = x],
           \/ prompt.at \in Deciding \ {"abort"} /\ x \in Deciding
           \/ prompt.at = "looking" /\ x = "shown"
           \/ prompt.at = "write" /\ x = "finish"
           \/ prompt.at = "revoke" /\ x = "flush"
    PROVE RegistryPasses
  <2> USE <1>TurnStep
  <2>1. pending \in PendingState /\ prompt \in PromptState
    BY Zenon DEF Types
  <2>2. prompt' \in PromptState /\ prompt'.at = x /\ prompt'.req = prompt.req
    BY <2>1, <1>TurnRecord, Zenon
  <2>3. Passes(pending, prompt, pending', prompt')
    BY <2>1, <2>2, <1>TurnPasses, Zenon
  <2> QED BY <2>1, <2>2, <2>3, Zenon DEF RegistryPasses

(* The prompter is done with a request that is over. *)
<1>FreeStep.
    ASSUME Types, Agrees(pending, prompt), Ended(pending, pending'),
           prompt' \in {NextJob, Off},
           prompt.at \in {"off", "next", "flush"} \cup Showing,
           prompt.at \in Showing => pending'.phase[r0] # "prompting"
    PROVE RegistryPasses
  <2> USE <1>FreeStep
  <2>1. pending \in PendingState /\ prompt \in PromptState /\ pending' \in PendingState
    BY Zenon DEF Types, Ended
  <2>2. prompt' \in PromptState /\ prompt'.at \in {"off", "next"}
    BY JobRecords
  <2>3. Passes(pending, prompt, pending', prompt')
    BY <2>1, <2>2, <1>FreePasses, Zenon DEF r0
  <2> QED BY <2>1, <2>2, <2>3, Zenon DEF RegistryPasses

(* A prompt without an answer ends its request. *)
<1>UnansweredEnds.
    ASSUME Types, r0 \in Requests, pending' = Unanswered(r0)
    PROVE /\ Ended(pending, pending') /\ pending'.phase[r0] # "prompting"
          /\ pending'.prompter = pending.prompter
  <2> USE <1>UnansweredEnds
  <2>1. pending \in PendingState
    BY Zenon DEF Types
  <2>2. CASE PromptClosed(pending, r0)
    <3>1. pending' = pending /\ pending.phase[r0] = "over"
      BY <2>2, Zenon DEF Unanswered, PromptClosed
    <3>2. Ended(pending, pending')
      BY <2>1, <3>1, <1>NothingEnds, Zenon
    <3> QED BY <3>1, <3>2
  <2>3. CASE ~ PromptClosed(pending, r0)
    <3>1. pending' = EndWhere(pending, {r0})
      BY <2>3, Zenon DEF Unanswered
    <3>2. /\ Ended(pending, pending') /\ pending'.prompter = pending.prompter
          /\ AllEnded(pending', {r0})
      BY <2>1, <3>1, EndWhereEffect, Zenon
    <3> QED BY <3>2 DEF AllEnded
  <2> QED BY <2>2, <2>3, Zenon

(* An answer to one request touches that one. *)
<1>DeliverOne.
    ASSUME NEW p \in PendingState, NEW q, NEW r \in Requests, NEW result,
           Delivers(p, q, {r}, result)
    PROVE Answered(p, q, r, result)
  <2> USE <1>DeliverOne
  <2>1. \A x \in Requests : p.ended[x] \in BOOLEAN
    BY Zenon DEF PendingState
  <2>2. \A x \in Requests : q.ended[x] = (p.ended[x] /\ x \notin {r})
    BY Zenon DEF Delivers
  <2>3. ~ q.ended[r] /\ \A x \in Requests \ {r} : q.ended[x] = p.ended[x]
    BY <2>1, <2>2, Zenon
  <2>4. /\ q.phase[r] = "over" /\ q.outcome[r] = result
        /\ \A x \in Requests \ {r} : q.phase[x] = p.phase[x] /\ q.outcome[x] = p.outcome[x]
    BY DEF Delivers
  <2> QED BY <2>3, <2>4, Zenon DEF Answered, Delivers, Touches

(* A deny is kept for its requester, and cools down. *)
<1>DenyEffect.
    ASSUME NEW p \in PendingState, NEW r \in Requests, NEW heard, NEW q, q = Deny(p, r, heard)
    PROVE Answered(p, q, r, "denied")
  <2> USE <1>DenyEffect
  <2> DEFINE d == Deliver(p, {r}, "denied")
             cold == p.cooldowns \cup {r}
             kept == KeepDenial(p, r, heard)
  <2>1. q = [d EXCEPT !.cooldowns = cold, !.denials = kept]
    BY Zenon DEF Deny
  <2>2. cold \in SUBSET Requests /\ kept \in SUBSET Requests
    BY DEF PendingState, KeepDenial
  <2>3. d = Deliver(p, {r}, "denied") /\ "denied" \in {"granted", "denied", "ended"}
    OBVIOUS
  <2> HIDE DEF d, cold, kept
  <2>4. Delivers(p, d, {r}, "denied")
    BY <2>3, DeliverEffect, Zenon
  <2>5. Answered(p, d, r, "denied")
    BY <2>4, <1>DeliverOne, Zenon
  <2>6. /\ q \in PendingState /\ q.phase = d.phase /\ q.ended = d.ended /\ q.outcome = d.outcome
        /\ q.ask = d.ask /\ q.prompter = d.prompter
    BY <2>1, <2>2, <2>4, Zenon DEF Delivers, PendingState
  <2> QED BY <2>5, <2>6, Zenon DEF Answered, Touches

(* The prompter's first steps, up to its answer. *)
<1>ShowingPasses.
    ASSUME NumberFacts, Types, Agrees(pending, prompt),
           \/ \E c \in Call : EnsurePrompter(c)
           \/ TakePrompt \/ ShowPrompt \/ PromptCloses \/ PersonDenies \/ PersonGrants,
           pending.prompter <=> prompt.at # "off"
    PROVE RegistryPasses /\ (pending'.prompter <=> prompt'.at # "off")
  <2> USE <1>ShowingPasses
  <2>1. pending \in PendingState /\ prompt \in PromptState
    BY Zenon DEF Types
  <2>0. prompt.at \in Showing => r0 \in Requests /\ pending.phase[r0] \in {"prompting", "over"}
    BY Zenon DEF Agrees, r0
  <2>2. CASE \E c \in Call : EnsurePrompter(c)
    <3>1. PICK c \in Call : EnsurePrompter(c)
      BY <2>2
    <3>2. pending' = ClaimPrompter(pending) /\ prompt' = IF pending.prompter THEN prompt ELSE NextJob
      BY <3>1, Zenon DEF EnsurePrompter, NextJob
    <3>3. /\ pending' \in PendingState /\ pending'.phase = pending.phase
          /\ pending'.ended = pending.ended /\ pending'.outcome = pending.outcome
          /\ pending'.ask = pending.ask /\ pending'.prompter = TRUE
      BY <2>1, <3>2, Zenon DEF ClaimPrompter, PendingState
    <3>4. Ended(pending, pending')
      BY <2>1, <3>3, <1>NothingEnds, Zenon
    <3>5. CASE pending.prompter
      BY <3>2, <3>3, <3>4, <3>5, <1>EndStep, Zenon
    <3>6. CASE ~ pending.prompter
      <4>1. prompt' = NextJob /\ prompt.at = "off" /\ prompt.at \notin Showing
        BY <3>2, <3>6 DEF Showing
      <4>2. RegistryPasses
        BY <3>4, <4>1, <1>FreeStep, Zenon
      <4> QED BY <3>3, <4>1, <4>2, JobRecords
    <3> QED BY <3>5, <3>6, Zenon
  <2>3. CASE TakePrompt
    <3> DEFINE queued == InPhase(pending, {"queued"})
    <3>1. /\ prompt.at = "next" /\ pending' = NextPrompt(pending)
          /\ prompt' = IF queued = {} THEN Off
                       ELSE [prompt EXCEPT !.at = "looking", !.req = Min(queued)]
      BY <2>3, Zenon DEF TakePrompt
    <3>2. CASE queued = {}
      <4>1. prompt' = Off /\ pending' = [pending EXCEPT !.prompter = FALSE]
        BY <3>1, <3>2, Zenon DEF NextPrompt
      <4>2. /\ pending' \in PendingState /\ pending'.phase = pending.phase
            /\ pending'.ended = pending.ended /\ pending'.outcome = pending.outcome
            /\ pending'.ask = pending.ask /\ pending'.prompter = FALSE
        BY <2>1, <4>1, Zenon DEF PendingState
      <4>3. Ended(pending, pending')
        BY <2>1, <4>2, <1>NothingEnds, Zenon
      <4>4. prompt.at \notin Showing
        BY <3>1 DEF Showing
      <4>5. RegistryPasses
        BY <3>1, <4>1, <4>3, <4>4, <1>FreeStep, Zenon
      <4> QED BY <4>1, <4>2, <4>5, JobRecords, Zenon
    <3>3. CASE queued # {}
      <4> DEFINE m == Min(queued)
      <4>1. queued \subseteq Nat
        BY DEF InPhase, Requests
      <4>2. m \in queued
        BY <3>3, <4>1, Zenon DEF NumberFacts
      <4>3. m \in Requests /\ pending.phase[m] = "queued"
        BY <4>2, Zenon DEF InPhase
      <4>4. /\ prompt' = [prompt EXCEPT !.at = "looking", !.req = m]
            /\ pending' = [pending EXCEPT !.phase[m] = "prompting"]
        BY <3>1, <3>3, Zenon DEF NextPrompt
      <4> HIDE DEF m
      <4>5. prompt' \in PromptState /\ prompt'.at = "looking" /\ prompt'.req = m
        <5>1. m \in 0..MaxRequests
          BY <4>3, PendingAssumption DEF Requests
        <5> QED BY <2>1, <4>4, <5>1, Zenon DEF PromptState, Showing
      <4>6. /\ Touches(pending, pending', m) /\ pending' \in PendingState
            /\ pending'.phase[m] = "prompting" /\ pending'.outcome = pending.outcome
            /\ pending'.ended = pending.ended /\ pending'.ask = pending.ask
            /\ pending'.prompter = pending.prompter
        BY <2>1, <4>3, <4>4, PhaseOne
      <4>7. Passes(pending, prompt, pending', prompt')
        BY <2>1, <3>1, <4>3, <4>5, <4>6, <1>StepPasses, Zenon
      <4> QED BY <3>1, <4>5, <4>6, <4>7 DEF RegistryPasses
    <3> QED BY <3>2, <3>3, Zenon
  <2>4. CASE PromptCloses \/ (ShowPrompt /\ pending.ask[r0].lair \notin lairs)
    <3>1. prompt.at \in Showing /\ prompt' = NextJob /\ pending' = Unanswered(r0)
      BY <2>4 DEF PromptCloses, ShowPrompt, Showing
    <3>2. /\ Ended(pending, pending') /\ pending'.phase[r0] # "prompting"
          /\ pending'.prompter = pending.prompter
      BY <2>0, <3>1, <1>UnansweredEnds, Zenon
    <3>3. RegistryPasses
      BY <3>1, <3>2, <1>FreeStep, Zenon
    <3>4. prompt.at # "off"
      BY <3>1 DEF Showing
    <3> QED BY <3>1, <3>2, <3>3, <3>4, JobRecords
  <2>5. CASE ShowPrompt /\ pending.ask[r0].lair \in lairs
    <3>1. /\ prompt.at = "looking" /\ prompt' = [prompt EXCEPT !.at = "shown"]
          /\ pending' = pending
      BY <2>5, Zenon DEF ShowPrompt
    <3>2. "shown" \in Showing \cup Committing
      BY DEF Showing
    <3>3. RegistryPasses
      BY <3>1, <3>2, <1>TurnStep, Zenon
    <3>4. prompt'.at = "shown"
      BY <2>1, <3>1, Zenon DEF PromptState
    <3> QED BY <3>1, <3>3, <3>4
  <2>6. CASE (PersonDenies \/ PersonGrants) /\ pending.phase[r0] # "prompting"
    <3>1. prompt.at = "shown" /\ prompt' = NextJob /\ pending' = pending
      BY <2>6, Zenon DEF PersonDenies, PersonGrants
    <3>2. Ended(pending, pending')
      BY <2>1, <3>1, <1>NothingEnds, Zenon
    <3>3. prompt.at \in Showing /\ pending'.phase[r0] # "prompting"
      BY <2>6, <3>1 DEF Showing
    <3>4. RegistryPasses
      BY <3>1, <3>2, <3>3, <1>FreeStep, Zenon
    <3> QED BY <3>1, <3>4, JobRecords
  <2>7. CASE PersonDenies /\ pending.phase[r0] = "prompting"
    <3>1. prompt.at = "shown" /\ prompt' = NextJob /\ pending' = Deny(pending, r0, Heard(r0))
      BY <2>7, Zenon DEF PersonDenies
    <3>2. r0 \in Requests
      BY <2>0, <3>1 DEF Showing
    <3>3. Answered(pending, pending', r0, "denied")
      BY <2>1, <3>1, <3>2, <1>DenyEffect, Zenon
    <3>4. /\ Touches(pending, pending', r0) /\ pending'.phase[r0] = "over"
          /\ pending'.outcome[r0] = "denied" /\ ~ pending'.ended[r0]
          /\ pending'.ask = pending.ask /\ pending'.prompter = pending.prompter
          /\ pending' \in PendingState
      BY <3>3, Zenon DEF Answered, Touches
    <3>5. prompt' \in PromptState /\ prompt'.at = "next"
      BY <3>1, JobRecords
    <3>6. Passes(pending, prompt, pending', prompt')
      BY <2>1, <2>7, <3>1, <3>2, <3>4, <3>5, <1>SettlePasses DEF r0
    <3> QED BY <3>1, <3>4, <3>5, <3>6 DEF RegistryPasses
  <2>8. CASE PersonGrants /\ pending.phase[r0] = "prompting"
    <3>1. /\ prompt.at = "shown" /\ prompt' = [prompt EXCEPT !.at = "commit"]
          /\ pending' = [pending EXCEPT !.phase[r0] = "committing"]
      BY <2>8, Zenon DEF PersonGrants, BeginCommit
    <3>2. r0 \in Requests
      BY <2>0, <3>1 DEF Showing
    <3>3. prompt' \in PromptState /\ prompt'.at = "commit" /\ prompt'.req = r0
      BY <2>1, <3>1 DEF PromptState, Committing, r0
    <3>4. /\ Touches(pending, pending', r0) /\ pending' \in PendingState
          /\ pending'.phase[r0] = "committing" /\ pending'.outcome = pending.outcome
          /\ pending'.ended = pending.ended /\ pending'.ask = pending.ask
          /\ pending'.prompter = pending.prompter
      BY <2>1, <3>1, <3>2, PhaseOne
    <3>5. Passes(pending, prompt, pending', prompt')
      BY <2>1, <2>8, <3>1, <3>2, <3>3, <3>4, <1>StepPasses, Zenon DEF r0
    <3> QED BY <3>1, <3>3, <3>4, <3>5 DEF RegistryPasses
  <2> QED BY <2>2, <2>3, <2>4, <2>5, <2>6, <2>7, <2>8, Zenon

(* The prompter's commit. *)
<1>CommitPasses.
    ASSUME Types, Agrees(pending, prompt), WriterAgrees, CommitSteps
    PROVE /\ RegistryPasses /\ pending'.prompter = pending.prompter
          /\ prompt.at # "off" /\ prompt'.at # "off"
  <2> USE <1>CommitPasses
  <2>1. pending \in PendingState /\ prompt \in PromptState
    BY Zenon DEF Types
  <2>0. prompt.at \in Deciding \cup {"finish"} => r0 \in Requests /\ pending.phase[r0] # "over"
    BY DEF Agrees, r0
  <2>2. CASE /\ pending' = pending /\ prompt.at # "off"
             /\ \E x \in Committing : prompt' = [prompt EXCEPT !.at = x]
             /\ \/ prompt.at \in Deciding \ {"abort"} /\ prompt'.at \in Deciding
                \/ prompt.at = "write" /\ prompt'.at = "finish"
                \/ prompt.at = "revoke" /\ prompt'.at = "flush"
    <3>1. PICK x \in Committing : prompt' = [prompt EXCEPT !.at = x]
      BY <2>2
    <3>2. prompt'.at = x
      BY <2>1, <3>1, Zenon DEF PromptState
    <3>3. RegistryPasses
      BY <2>2, <3>1, <3>2, <1>TurnStep, Zenon
    <3>4. x # "off"
      BY DEF Committing
    <3> QED BY <2>2, <3>2, <3>3, <3>4, Zenon
  <2>3. CASE /\ prompt.at \in {"once", "session"} /\ MayPublish(r0)
             /\ pending' = Publish(pending, r0) /\ prompt' = [prompt EXCEPT !.at = "finish"]
    <3>1. r0 \in Requests /\ ~ pending.ended[r0]
      BY <2>0, <2>3 DEF Deciding, MayPublish, Live
    <3>2. prompt' \in PromptState /\ prompt'.at = "finish" /\ prompt'.req = r0
      BY <2>1, <2>3, Zenon DEF PromptState, Committing, r0
    <3>3. /\ Touches(pending, pending', r0) /\ pending' \in PendingState
          /\ pending'.phase[r0] = "published" /\ pending'.outcome = pending.outcome
          /\ pending'.ended = pending.ended /\ pending'.ask = pending.ask
          /\ pending'.prompter = pending.prompter
      BY <2>1, <2>3, <3>1, PhaseOne DEF Publish
    <3>4. Passes(pending, prompt, pending', prompt')
      BY <2>1, <2>3, <3>1, <3>2, <3>3, <1>StepPasses, Zenon DEF r0
    <3> QED BY <2>3, <3>2, <3>3, <3>4 DEF RegistryPasses
  <2>4. CASE CheckCommit
    <3>1. PICK x \in Durations \cup {"abort"} :
            /\ prompt.at = "commit" /\ pending' = pending
            /\ prompt'.at = x /\ prompt' \in PromptState /\ prompt'.req = prompt.req
      <4>1. CASE \E d \in Durations : prompt' = [prompt EXCEPT !.at = d, !.duration = d]
        <5>1. PICK d \in Durations : prompt' = [prompt EXCEPT !.at = d, !.duration = d]
          BY <4>1, Zenon
        <5>2. d \in Committing
          BY DEF Durations, Committing
        <5>3. prompt'.at = d /\ prompt' \in PromptState /\ prompt'.req = prompt.req
          BY <2>1, <5>1, <5>2, Zenon DEF PromptState
        <5> QED BY <2>4, <5>3, Zenon DEF CheckCommit
      <4>2. CASE prompt' = [prompt EXCEPT !.at = "abort"]
        <5>1. prompt'.at = "abort" /\ prompt' \in PromptState /\ prompt'.req = prompt.req
          BY <2>1, <4>2, Zenon DEF PromptState, Committing
        <5> QED BY <2>4, <5>1, Zenon DEF CheckCommit
      <4> QED BY <2>4, <4>1, <4>2, Zenon DEF CheckCommit
    <3>2. prompt.at \in Deciding \ {"abort"} /\ prompt'.at \in Deciding /\ prompt'.at # "off"
      BY <3>1 DEF Deciding, Durations
    <3>3. Passes(pending, prompt, pending', prompt')
      BY <2>1, <3>1, <3>2, <1>TurnPasses, Zenon
    <3> QED BY <2>1, <3>1, <3>2, <3>3 DEF RegistryPasses
  <2>5. CASE FinishGrant \/ FinishError
    <3>1. CASE FinishGrant
      <4> DEFINE o == IF pending.ended[r0] THEN "ended" ELSE "granted"
      <4>1. /\ prompt.at = "finish" /\ pending' = Deliver(pending, {r0}, o)
            /\ prompt' = IF pending.ended[r0] THEN [prompt EXCEPT !.at = "revoke"] ELSE NextJob
        BY <3>1, Zenon DEF FinishGrant, FinishCommit
      <4>2. o \in {"granted", "denied", "ended"}
        OBVIOUS
      <4>3. r0 \in Requests
        BY <2>0, <4>1
      <4>4. Delivers(pending, pending', {r0}, o)
        BY <2>1, <4>1, <4>2, DeliverEffect, Zenon
      <4>5. Answered(pending, pending', r0, o)
        BY <2>1, <4>3, <4>4, <1>DeliverOne, Zenon
      <4>6. /\ Touches(pending, pending', r0) /\ pending'.phase[r0] = "over"
            /\ pending'.outcome[r0] = o /\ ~ pending'.ended[r0]
            /\ pending'.ask = pending.ask /\ pending'.prompter = pending.prompter
            /\ pending' \in PendingState
        BY <4>5, Zenon DEF Answered, Touches
      <4>7. CASE pending.ended[r0]
        <5>1. prompt' \in PromptState /\ prompt'.at = "revoke" /\ prompt'.req = r0
          BY <2>1, <4>1, <4>7, Zenon DEF PromptState, Committing, r0
        <5>2. Passes(pending, prompt, pending', prompt')
          BY <2>1, <4>1, <4>3, <4>6, <4>7, <5>1, <1>SettlePasses, Zenon DEF r0
        <5> QED BY <4>1, <4>6, <5>1, <5>2 DEF RegistryPasses
      <4>8. CASE ~ pending.ended[r0]
        <5>1. prompt' \in PromptState /\ prompt'.at = "next"
          BY <4>1, <4>8, JobRecords
        <5>2. Passes(pending, prompt, pending', prompt')
          BY <2>1, <4>1, <4>3, <4>6, <4>8, <5>1, <1>SettlePasses, Zenon DEF r0
        <5> QED BY <4>1, <4>6, <5>1, <5>2 DEF RegistryPasses
      <4> QED BY <4>7, <4>8, Zenon
    <3>2. CASE FinishError
      <4>1. /\ prompt.at = "abort" /\ pending' = Deliver(pending, {r0}, "ended")
            /\ prompt' = NextJob
        BY <3>2 DEF FinishError, FinishCommit
      <4>3. r0 \in Requests
        BY <2>0, <4>1 DEF Deciding
      <4>4. Delivers(pending, pending', {r0}, "ended")
        BY <2>1, <4>1, DeliverEffect
      <4>5. Answered(pending, pending', r0, "ended")
        BY <2>1, <4>3, <4>4, <1>DeliverOne, Zenon
      <4>6. /\ Touches(pending, pending', r0) /\ pending'.phase[r0] = "over"
            /\ pending'.outcome[r0] = "ended" /\ ~ pending'.ended[r0]
            /\ pending'.ask = pending.ask /\ pending'.prompter = pending.prompter
            /\ pending' \in PendingState
        BY <4>5, Zenon DEF Answered, Touches
      <4>7. prompt' \in PromptState /\ prompt'.at = "next"
        BY <4>1, JobRecords
      <4>8. Passes(pending, prompt, pending', prompt')
        BY <2>1, <4>1, <4>3, <4>6, <4>7, <1>SettlePasses, Zenon DEF r0
      <4> QED BY <4>1, <4>6, <4>7, <4>8 DEF RegistryPasses
    <3> QED BY <2>5, <3>1, <3>2, Zenon
  <2>6. CASE CommitterDone
    <3>1. prompt.at = "flush" /\ prompt' = NextJob /\ pending' = pending
      BY <2>6, Zenon DEF CommitterDone
    <3>2. Ended(pending, pending')
      BY <2>1, <3>1, <1>NothingEnds, Zenon
    <3>3. prompt.at \notin Showing
      BY <3>1 DEF Showing
    <3>4. RegistryPasses
      BY <3>1, <3>2, <3>3, <1>FreeStep, Zenon
    <3> QED BY <3>1, <3>4, JobRecords
  <2>7. CASE PublishOnce \/ PublishSession
    <3>1. CASE prompt' = [prompt EXCEPT !.at = "finish"]
      <4>1. ~ (prompt' = [prompt EXCEPT !.at = "abort"])
        BY <2>1, <3>1 DEF PromptState
      <4> QED BY <2>3, <2>7, <3>1, <4>1 DEF PublishOnce, PublishSession
    <3>2. CASE prompt' # [prompt EXCEPT !.at = "finish"]
      <4>1. /\ prompt.at \in {"once", "session"} /\ pending' = pending
            /\ prompt' = [prompt EXCEPT !.at = "abort"]
        BY <2>7, <3>2 DEF PublishOnce, PublishSession
      <4>2. prompt'.at = "abort"
        BY <2>1, <4>1, Zenon DEF PromptState
      <4> QED BY <2>2, <4>1, <4>2 DEF Deciding, Committing
    <3> QED BY <3>1, <3>2
  <2>8. CASE ProposeAlways \/ PublishAlways
    <3>1. CASE ProposeAlways
      <4>1. PICK x \in {"abort", "write"} : prompt' = [prompt EXCEPT !.at = x]
        BY <3>1, Zenon DEF ProposeAlways
      <4>2. prompt'.at = x /\ pending' = pending /\ prompt.at = "always"
        BY <2>1, <3>1, <4>1, Zenon DEF PromptState, ProposeAlways
      <4> QED BY <2>2, <4>1, <4>2 DEF Deciding, Committing
    <3>2. CASE PublishAlways
      <4>1. PICK x \in {"abort", "finish"} : prompt' = [prompt EXCEPT !.at = x]
        BY <3>2, Zenon DEF PublishAlways
      <4>2. prompt'.at = x /\ pending' = pending /\ prompt.at = "write"
        BY <2>1, <3>2, <4>1, Zenon DEF PromptState, PublishAlways, WriterAgrees
      <4> QED BY <2>2, <4>1, <4>2 DEF Deciding, Committing
    <3> QED BY <2>8, <3>1, <3>2, Zenon
  <2>9. CASE RevokeCommitted
    <3>1. prompt.at = "revoke" /\ prompt' = [prompt EXCEPT !.at = "flush"] /\ pending' = pending
      BY <2>9, Zenon DEF RevokeCommitted
    <3>2. prompt'.at = "flush"
      BY <2>1, <3>1, Zenon DEF PromptState
    <3> QED BY <2>2, <3>1, <3>2 DEF Committing
  <2> QED BY <2>4, <2>5, <2>6, <2>7, <2>8, <2>9, Zenon DEF CommitSteps

(* A failed write aborts the commit it was for, if any. *)
<1>FailPasses.
    ASSUME Types, Agrees(pending, prompt), WriterAgrees, WriteFails \/ SyncFails
    PROVE /\ RegistryPasses /\ pending' = pending
          /\ prompt.at = "off" <=> prompt'.at = "off"
  <2> USE <1>FailPasses
  <2>1. pending \in PendingState /\ prompt \in PromptState
    BY Zenon DEF Types
  <2>2. /\ prompt' = IF engine.writer = "commit" THEN [prompt EXCEPT !.at = "abort"] ELSE prompt
        /\ pending' = pending
    BY Zenon DEF WriteFails, SyncFails, WriteAbandoned
  <2>3. CASE engine.writer = "commit"
    <3>1. prompt' = [prompt EXCEPT !.at = "abort"] /\ prompt.at = "write"
      BY <2>2, <2>3, Zenon DEF WriterAgrees
    <3>2. "abort" \in Showing \cup Committing /\ "abort" \in Deciding /\ "write" \in Deciding \ {"abort"}
      BY DEF Committing, Deciding
    <3>3. RegistryPasses
      BY <2>2, <3>1, <3>2, <1>TurnStep, Zenon
    <3>4. prompt'.at = "abort"
      BY <2>1, <3>1, Zenon DEF PromptState
    <3> QED BY <2>2, <3>1, <3>3, <3>4
  <2>4. CASE engine.writer # "commit"
    <3>1. prompt' = prompt
      BY <2>2, <2>4, Zenon
    <3> QED BY <2>2, <3>1, <1>QuietStep, Zenon
  <2> QED BY <2>3, <2>4, Zenon

(* The end of a round is the end of every request. *)
<1>RoundStep.
    ASSUME Types, Agrees(pending, prompt), RoundEnds
    PROVE RegistryPasses /\ prompt' = Off /\ ~ pending'.prompter
  <2> USE <1>RoundStep
  <2>1. pending \in PendingState /\ prompt \in PromptState
    BY Zenon DEF Types
  <2> DEFINE phases == [r \in Requests |-> IF pending.phase[r] = "unused" THEN "unused" ELSE "over"]
             endeds == [r \in Requests |-> FALSE]
  <2>2. /\ prompt' = Off
        /\ pending' = [pending EXCEPT !.phase = phases, !.ended = endeds, !.denials = {},
                         !.cooldowns = {}, !.prompter = FALSE, !.closed = FALSE]
    BY Zenon DEF RoundEnds
  <2>3. /\ phases \in [Requests -> {"unused", "queued", "prompting", "committing", "published", "over"}]
        /\ \A r \in Requests :
             phases[r] = IF pending.phase[r] = "unused" THEN "unused" ELSE "over"
    OBVIOUS
  <2>4. endeds \in [Requests -> BOOLEAN] /\ \A r \in Requests : ~ endeds[r]
    BY Zenon
  <2> HIDE DEF phases, endeds
  <2>5. /\ pending' \in PendingState /\ pending'.phase = phases /\ pending'.ended = endeds
        /\ pending'.outcome = pending.outcome /\ pending'.ask = pending.ask
        /\ pending'.prompter = FALSE
    BY <2>1, <2>2, <2>3, <2>4, Zenon DEF PendingState
  <2>6. prompt' \in PromptState /\ prompt'.at = "off"
    BY <2>2, JobRecords, Zenon
  <2>7. Passes(pending, prompt, pending', prompt')
    BY <2>1, <2>3, <2>4, <2>5, <2>6, <1>RoundPasses, Zenon
  <2> QED BY <2>2, <2>5, <2>6, <2>7, Zenon DEF RegistryPasses

(* They stay so. *)
<1>OrderStays.
    ASSUME NEW p, NEW q, InOrder(p), Opens(p, q),
           \A r \in Requests : p.phase[r] # "unused" => q.phase[r] # "unused"
    PROVE InOrder(q)
  <2> USE <1>OrderStays
  <2>1. PICK k \in 0..MaxRequests : \A r \in Requests : p.phase[r] = "unused" <=> r > k
    BY Zenon DEF InOrder
  <2>2. CASE OpensNone(p, q)
    BY <2>1, <2>2, Zenon DEF InOrder, OpensNone
  <2>3. CASE \E m \in Requests :
               /\ \A r \in Requests : r < m => p.phase[r] # "unused"
               /\ q.phase[m] = "queued"
               /\ \A r \in Requests \ {m} : p.phase[r] = "unused" => q.phase[r] = "unused"
    <3>1. PICK m \in Requests :
               /\ \A r \in Requests : r < m => p.phase[r] # "unused"
               /\ q.phase[m] = "queued"
               /\ \A r \in Requests \ {m} : p.phase[r] = "unused" => q.phase[r] = "unused"
      BY <2>3
    <3>2. CASE p.phase[m] # "unused"
      <4>1. \A r \in Requests : q.phase[r] = "unused" <=> r > k
        BY <2>1, <3>1, <3>2
      <4> QED BY <4>1, Zenon DEF InOrder
    <3>3. CASE p.phase[m] = "unused"
      <4>1. m > k
        BY <2>1, <3>3, Zenon
      <4>2. \A r \in Requests : r < m => ~ (r > k)
        BY <2>1, <3>1, Zenon
      <4>3. m = k + 1
        <5>1. CASE k + 1 \in Requests
          BY <4>1, <4>2, <5>1 DEF Requests
        <5>2. CASE k + 1 \notin Requests
          BY <4>1, <5>2, PendingAssumption DEF Requests
        <5> QED BY <5>1, <5>2
      <4>4. m \in 0..MaxRequests
        BY DEF Requests
      <4>5. \A r \in Requests : q.phase[r] = "unused" <=> r > m
        BY <2>1, <3>1, <4>3 DEF Requests
      <4> QED BY <4>4, <4>5, Zenon DEF InOrder
    <3> QED BY <3>2, <3>3
  <2> QED BY <2>2, <2>3, Zenon DEF Opens

<1> QED
  <2> SUFFICES ASSUME NumberFacts, Types, Registry, WriterAgrees, [Next]_vars
               PROVE /\ RegistryAdmits /\ Registry'
                     /\ OpensNone(pending, pending') \/ \E c \in Call : AdmitStep(c)
    BY Zenon
  <2> USE DEF Registry
  <2>0. pending.prompter \in BOOLEAN
    BY Zenon DEF Types, PendingState
  <2>1. /\ RegistryPasses \/ (RegistryAdmits /\ \E c \in Call : AdmitStep(c))
        /\ pending'.prompter <=> prompt'.at # "off"
    <3>1. CASE Elsewhere
      <4>1. pending' = pending /\ prompt' = prompt
        BY <3>1, ElsewhereIsQuiet, Zenon
      <4> QED BY <4>1, <1>QuietStep, Zenon
    <3>2. CASE Enders
      <4>1. RegistryPasses /\ pending'.prompter = pending.prompter
        BY <3>2, <1>EndersPass, Zenon DEF Enders
      <4>2. prompt' = prompt
        BY <3>2, Zenon DEF Enders, EndRequest, RevokeAllPending, EndLairPending, FenceEndsPending,
           Shutdown
      <4> QED BY <4>1, <4>2, Zenon
    <3>3. CASE Showers
      BY <3>3, <1>ShowingPasses, Zenon DEF Showers
    <3>4. CASE CommitSteps
      BY <2>0, <3>4, <1>CommitPasses, Zenon
    <3>5. CASE \E c \in Call : AdmitStep(c)
      BY <3>5, <1>AdmitPasses, Zenon
    <3>6. CASE WriteFails \/ SyncFails
      BY <3>6, <1>FailPasses, Zenon
    <3>7. CASE Restart \/ ResumeRound
      <4>1. RoundEnds
        BY <3>7, Zenon DEF Restart, ResumeRound
      <4> QED BY <4>1, <1>RoundStep, JobRecords, Zenon
    <3> QED BY <3>1, <3>2, <3>3, <3>4, <3>5, <3>6, <3>7, StepKinds, Zenon
  <2>4. /\ RegistryAdmits
        /\ OpensNone(pending, pending') \/ \E c \in Call : AdmitStep(c)
    BY <2>1, Zenon DEF RegistryPasses, RegistryAdmits, Passes, Admits, Opens
  <2>2. /\ Agrees(pending', prompt') /\ Opens(pending, pending')
        /\ \A r \in Requests : pending.phase[r] # "unused" => pending'.phase[r] # "unused"
    BY <2>4, Zenon DEF RegistryAdmits, Admits, Moves
  <2>3. InOrder(pending')
    BY <2>2, <1>OrderStays, Zenon
  <2> QED BY <2>1, <2>2, <2>3, <2>4, Zenon

-----------------------------------------------------------------------------
(* What the operations of the engine do.                                   *)

Keeps(e, f) ==
  /\ f \in EngineState
  /\ f.remembered = e.remembered /\ f.missing = e.missing /\ f.removals = e.removals
  /\ f.ended_lairs = e.ended_lairs /\ f.file = e.file /\ f.disk = e.disk
  /\ f.writer = e.writer /\ f.stage = e.stage /\ f.proposal = e.proposal

Removes(e, f, R) ==
  /\ f \in EngineState
  /\ f.sessions = e.sessions \ R /\ f.remembered = e.remembered \ R
  /\ f.missing = e.missing \ R /\ f.removals = e.removals \cup (e.remembered \cap R)
  /\ f.file = e.file /\ f.disk = e.disk
  /\ f.writer = e.writer /\ f.stage = e.stage /\ f.proposal = e.proposal

Locks(e, f, w, P) ==
  /\ f \in EngineState
  /\ f.writer = w /\ f.stage = "write" /\ f.proposal = P /\ f.wants = e.wants \ {w}
  /\ f.sessions = e.sessions /\ f.remembered = e.remembered /\ f.missing = e.missing
  /\ f.removals = e.removals /\ f.ended_lairs = e.ended_lairs
  /\ f.file = e.file /\ f.disk = e.disk

Unlocks(e, f) ==
  /\ f \in EngineState
  /\ f.writer = "none" /\ f.stage = "idle" /\ f.proposal = {} /\ f.wants = e.wants
  /\ f.sessions = e.sessions /\ f.missing = e.missing /\ f.ended_lairs = e.ended_lairs
  /\ f.file = e.file /\ f.disk = e.disk

Publication(e, f, r, same, l) ==
  /\ Unlocks(e, f)
  /\ \/ /\ l \in e.ended_lairs
        /\ f.remembered = e.remembered
        /\ f.removals = (e.removals \cap e.proposal) \cup {r}
     \/ /\ l \notin e.ended_lairs
        /\ f.remembered = (e.remembered \ same) \cup {r}
        /\ f.removals = e.removals \cap e.proposal

Writes(e, f) ==
  /\ f \in EngineState
  /\ f.writer = e.writer /\ f.proposal = e.proposal /\ f.wants = e.wants
  /\ f.sessions = e.sessions /\ f.remembered = e.remembered /\ f.missing = e.missing
  /\ f.removals = e.removals /\ f.ended_lairs = e.ended_lairs

Skips(e, f, w) ==
  /\ e.removals = {} /\ Keeps(e, f)
  /\ f.sessions = e.sessions /\ f.wants = e.wants \ {w}

Wanted(e, f, w) == f.wants = e.wants \cup {w}

SparesLairs(e, f) == f.ended_lairs = e.ended_lairs

Leaves(e, f, l) == f.ended_lairs = e.ended_lairs \cup {l} /\ f.wants = e.wants

Joins(e, f, r, same) == f.sessions = (e.sessions \ same) \cup {r} /\ f.wants = e.wants

Loads(f, content, disk, absent, carried) ==
  /\ f \in EngineState
  /\ f.remembered = content \ carried /\ f.missing = (content \cap absent) \ carried
  /\ f.removals = content \cap carried
  /\ f.file = content /\ f.disk = disk
  /\ f.sessions = {} /\ f.ended_lairs = {} /\ f.writer = "none" /\ f.stage = "idle"
  /\ f.proposal = {} /\ f.wants = {}

(* The writer starts with its proposal. *)
LEMMA LockEffect ==
  ASSUME NEW e \in EngineState, NEW w \in Writers, w \notin e.wants,
         NEW P \in SUBSET Requests, NEW f, f = Lock(e, w, P)
  PROVE Locks(e, f, w, P)
<1>1. e.wants \ {w} = e.wants
  OBVIOUS
<1> QED BY <1>1, Zenon DEF Lock, EngineState, Locks

(* The writer stops. *)
LEMMA UnlockEffect ==
  ASSUME NEW e \in EngineState, NEW f, f = Unlock(e)
  PROVE Unlocks(e, f) /\ f.remembered = e.remembered /\ f.removals = e.removals
BY Zenon DEF Unlock, EngineState, Unlocks

(* The proposal becomes the file; a power failure may leave either. *)
LEMMA RenameEffect ==
  ASSUME NEW e \in EngineState, NEW f, f = Rename(e)
  PROVE /\ Writes(e, f) /\ f.file = e.proposal /\ f.disk = e.disk \cup {e.proposal}
        /\ f.stage = "sync"
BY Zenon DEF Rename, EngineState, Writes

(* The file is what a power failure leaves. *)
LEMMA SyncEffect ==
  ASSUME NEW e \in EngineState, NEW f, f = Sync(e)
  PROVE Writes(e, f) /\ f.file = e.file /\ f.disk = {e.file} /\ f.stage = "publish"
BY Zenon DEF Sync, EngineState, Writes

(* What the file no longer holds is no longer owed. *)
LEMMA WrittenEffect ==
  ASSUME NEW e \in EngineState, NEW f, f = Unlock(Written(e))
  PROVE Unlocks(e, f) /\ f.remembered = e.remembered /\ f.removals = e.removals \cap e.proposal
BY Zenon DEF Unlock, Written, EngineState, Unlocks

(* Removed entries leave memory, and their removal is owed. *)
LEMMA RemoveEffect ==
  ASSUME NEW e \in EngineState, NEW R, NEW f, f = Remove(e, R)
  PROVE Removes(e, f, R) /\ f.ended_lairs = e.ended_lairs /\ f.wants = e.wants
BY Zenon DEF Remove, EngineState, Removes

(* A flush is asked for. *)
LEMMA WantEffect ==
  ASSUME NEW e \in EngineState, NEW w \in Waiters, NEW f, f = Want(e, w)
  PROVE Keeps(e, f) /\ f.sessions = e.sessions /\ f.wants = e.wants \cup {w}
<1>1. e.wants \cup {w} \in SUBSET (Writers \ {"commit"})
  BY Zenon DEF EngineState, Waiters
<1> QED BY <1>1, Zenon DEF Want, EngineState, Keeps

(* A removal, and the flush it asks for. *)
LEMMA RemoveAndWant ==
  ASSUME NEW e \in EngineState, NEW R, NEW w \in Waiters,
         NEW f, f = Want(Remove(e, R), w)
  PROVE Removes(e, f, R) /\ SparesLairs(e, f) /\ Wanted(e, f, w)
<1> DEFINE g == Remove(e, R)
<1>1. Removes(e, g, R) /\ g.ended_lairs = e.ended_lairs /\ g.wants = e.wants
  BY RemoveEffect, Zenon
<1> HIDE DEF g
<1>2. g \in EngineState /\ f = Want(g, w)
  BY <1>1, Zenon DEF Removes, g
<1>3. Keeps(g, f) /\ f.sessions = g.sessions /\ f.wants = g.wants \cup {w}
  BY <1>2, WantEffect, Zenon
<1> QED BY <1>1, <1>3, Zenon DEF Removes, Keeps, Wanted, SparesLairs

(* A session grant takes the place of the ones with its key. *)
LEMMA SessionEffect ==
  ASSUME NEW e \in EngineState, NEW r \in Requests, NEW same, NEW f, f = CommitSession(e, r, same)
  PROVE Keeps(e, f) /\ Joins(e, f, r, same)
<1>1. (e.sessions \ same) \cup {r} \in SUBSET Requests
  BY Zenon DEF EngineState
<1> QED BY <1>1, Zenon DEF CommitSession, EngineState, Keeps, Joins

(* Which workspaces have ended is on record. *)
LEMMA LairsRecorded ==
  ASSUME NEW e \in EngineState, NEW known \in SUBSET (Lair \cup {NoLair}),
         NEW f, f = [e EXCEPT !.ended_lairs = known]
  PROVE f \in EngineState
BY Zenon DEF EngineState

(* The end of a workspace is remembered. *)
LEMMA EndLairEffect ==
  ASSUME NEW e \in EngineState, NEW R, NEW l \in Lair \cup {NoLair}, NEW f, f = EndLair(e, R, l)
  PROVE Removes(e, f, R) /\ Leaves(e, f, l)
<1> DEFINE g == Remove(e, R)
           known == g.ended_lairs \cup {l}
<1>1. Removes(e, g, R) /\ g.ended_lairs = e.ended_lairs /\ g.wants = e.wants
  BY RemoveEffect, Zenon
<1>2. f = [g EXCEPT !.ended_lairs = known]
  BY Zenon DEF EndLair
<1> HIDE DEF g
<1>3. g \in EngineState /\ known \in SUBSET (Lair \cup {NoLair})
  BY <1>1, Zenon DEF Removes, EngineState
<1>4. known = g.ended_lairs \cup {l}
  OBVIOUS
<1> HIDE DEF known
<1>5. f \in EngineState
  BY <1>2, <1>3, LairsRecorded, Zenon
<1>6. /\ f.ended_lairs = known /\ f.sessions = g.sessions /\ f.remembered = g.remembered
      /\ f.missing = g.missing /\ f.removals = g.removals /\ f.file = g.file /\ f.disk = g.disk
  BY <1>2, <1>3, Zenon DEF EngineState
<1>7. /\ f.writer = g.writer /\ f.stage = g.stage /\ f.proposal = g.proposal
      /\ f.wants = g.wants
  BY <1>2, <1>3, Zenon DEF EngineState
<1> QED BY <1>1, <1>4, <1>5, <1>6, <1>7, Zenon DEF Removes, Leaves

(* A grant whose write was not made durable is owed a removal. *)
LEMMA NotDurableEffect ==
  ASSUME NEW e \in EngineState, NEW r \in Requests, NEW f, f = NotDurable(e, r)
  PROVE Unlocks(e, f) /\ f.remembered = e.remembered /\ f.removals = e.removals \cup {r}
<1>1. e.removals \cup {r} \in SUBSET Requests
  BY Zenon DEF EngineState
<1> QED BY <1>1, Zenon DEF NotDurable, Unlock, EngineState, Unlocks

(* A durable grant is remembered, unless its workspace ended. *)
LEMMA PublishEffect ==
  ASSUME NEW e \in EngineState, NEW r \in Requests, NEW same, NEW l,
         NEW f, f = PublishRemembered(e, r, same, l)
  PROVE Publication(e, f, r, same, l)
<1> DEFINE w == Written(e)
<1>1. /\ w \in EngineState /\ w.removals = e.removals \cap e.proposal
      /\ w.sessions = e.sessions /\ w.remembered = e.remembered /\ w.missing = e.missing
      /\ w.ended_lairs = e.ended_lairs /\ w.file = e.file /\ w.disk = e.disk
      /\ w.wants = e.wants
  BY Zenon DEF Written, EngineState
<1> HIDE DEF w
<1>2. CASE l \in e.ended_lairs
  <2> DEFINE v == [w EXCEPT !.removals = @ \cup {r}]
  <2>1. /\ v \in EngineState /\ v.removals = w.removals \cup {r}
        /\ v.sessions = w.sessions /\ v.remembered = w.remembered /\ v.missing = w.missing
        /\ v.ended_lairs = w.ended_lairs /\ v.file = w.file /\ v.disk = w.disk
        /\ v.wants = w.wants
    BY <1>1, Zenon DEF EngineState
  <2>2. f = Unlock(v)
    BY <1>2, Zenon DEF PublishRemembered, w
  <2> HIDE DEF v
  <2>3. Unlocks(v, f) /\ f.remembered = v.remembered /\ f.removals = v.removals
    BY <2>1, <2>2, UnlockEffect, Zenon
  <2> QED BY <1>1, <1>2, <2>1, <2>3, Zenon DEF Unlocks, Publication
<1>3. CASE l \notin e.ended_lairs
  <2> DEFINE v == [w EXCEPT !.remembered = (@ \ same) \cup {r}]
  <2>1. /\ v \in EngineState /\ v.remembered = (w.remembered \ same) \cup {r}
        /\ v.sessions = w.sessions /\ v.removals = w.removals /\ v.missing = w.missing
        /\ v.ended_lairs = w.ended_lairs /\ v.file = w.file /\ v.disk = w.disk
        /\ v.wants = w.wants
    BY <1>1, Zenon DEF EngineState
  <2>2. f = Unlock(v)
    BY <1>3, Zenon DEF PublishRemembered, w
  <2> HIDE DEF v
  <2>3. Unlocks(v, f) /\ f.remembered = v.remembered /\ f.removals = v.removals
    BY <2>1, <2>2, UnlockEffect, Zenon
  <2> QED BY <1>1, <1>3, <2>1, <2>3, Zenon DEF Unlocks, Publication
<1> QED BY <1>2, <1>3, Zenon

(* A flush writes what memory holds, if a removal is owed. *)
LEMMA FlushEffect ==
  ASSUME NEW e \in EngineState, NEW w \in Writers, NEW f, f = StartFlush(e, w)
  PROVE \/ e.removals # {} /\ Locks(e, f, w, e.remembered)
        \/ Skips(e, f, w)
<1> DEFINE g == [e EXCEPT !.wants = @ \ {w}]
<1>1. /\ g \in EngineState /\ g.wants = e.wants \ {w}
      /\ g.sessions = e.sessions /\ g.remembered = e.remembered /\ g.missing = e.missing
      /\ g.removals = e.removals /\ g.ended_lairs = e.ended_lairs /\ g.file = e.file
      /\ g.disk = e.disk /\ g.writer = e.writer /\ g.stage = e.stage /\ g.proposal = e.proposal
  BY Zenon DEF EngineState
<1>2. CASE e.removals # {}
  <2>1. f = Lock(g, w, e.remembered) /\ e.remembered \in SUBSET Requests
    BY <1>2, Zenon DEF StartFlush, FlushNeeded, EngineState
  <2> HIDE DEF g
  <2>2. w \notin g.wants
    BY <1>1
  <2>3. Locks(g, f, w, e.remembered)
    BY <1>1, <2>1, <2>2, LockEffect, Zenon
  <2>4. g.wants \ {w} = g.wants
    BY <2>2
  <2> QED BY <1>1, <1>2, <2>3, <2>4, Zenon DEF Locks
<1>3. CASE e.removals = {}
  <2>1. f = g
    BY <1>3, Zenon DEF StartFlush, FlushNeeded
  <2> HIDE DEF g
  <2> QED BY <1>1, <1>3, <2>1, Zenon DEF Keeps, Skips
<1> QED BY <1>2, <1>3, Zenon

(* A start reads the file back, less what is still owed a removal. *)
LEMMA LoadEffect ==
  ASSUME NEW content \in SUBSET Requests, NEW disk \in SUBSET SUBSET Requests,
         NEW absent, NEW carried, NEW f, f = Load(content, disk, absent, carried)
  PROVE Loads(f, content, disk, absent, carried)
BY Zenon DEF Load, NoDefinitions, EngineState, Writers, Loads

-----------------------------------------------------------------------------
(* Every step of the store, by what it does to it.                         *)

StaysPut == prompt.at = "write" \/ prompt'.at = "write" => prompt' = prompt

Rests ==
  /\ Keeps(engine, engine') /\ StaysPut
  /\ engine'.sessions = engine.sessions \/ PublishSession

Revokes ==
  /\ \E R : Removes(engine, engine', R)
  /\ StaysPut
  /\ engine'.ended_lairs = engine.ended_lairs \/ EndLairEngine

Proposes ==
  /\ engine.writer = "none" /\ prompt.at = "always"
  /\ Locks(engine, engine', "commit", Proposal(engine, r0, Same(r0)))
  /\ prompt'.at = "write" /\ prompt'.req = r0 /\ pending' = pending

Flushes ==
  /\ engine.writer = "none" /\ prompt' = prompt /\ pending' = pending
  /\ \E w \in Writers \ {"commit"} : Locks(engine, engine', w, engine.remembered)

Fails ==
  /\ engine.stage \in {"write", "sync"}
  /\ Unlocks(engine, engine') /\ pending' = pending /\ engine'.remembered = engine.remembered
  /\ engine'.removals = IF engine.stage = "sync" /\ engine.writer = "commit"
                          THEN engine.removals \cup {r0} ELSE engine.removals
  /\ engine.writer = "commit" => prompt'.at = "abort" /\ prompt'.req = r0
  /\ engine.writer # "commit" => prompt' = prompt

Renames ==
  /\ engine.stage = "write" /\ Writes(engine, engine') /\ engine'.stage = "sync"
  /\ engine'.file = engine.proposal /\ engine'.disk = engine.disk \cup {engine.proposal}
  /\ prompt' = prompt /\ pending' = pending

Syncs ==
  /\ engine.stage = "sync" /\ Writes(engine, engine') /\ engine'.stage = "publish"
  /\ engine'.file = engine.file /\ engine'.disk = {engine.file}
  /\ prompt' = prompt /\ pending' = pending

Flushed ==
  /\ engine.stage = "publish" /\ engine.writer # "commit" /\ Unlocks(engine, engine')
  /\ engine'.remembered = engine.remembered
  /\ engine'.removals = engine.removals \cap engine.proposal
  /\ prompt' = prompt /\ pending' = pending

Publishes ==
  /\ engine.stage = "publish" /\ engine.writer = "commit" /\ prompt.at = "write"
  /\ Publication(engine, engine', r0, Same(r0), pending.ask[r0].lair)
  /\ prompt'.at = (IF r0 \in engine'.remembered THEN "finish" ELSE "abort")
  /\ prompt'.req = r0 /\ pending' = pending

Restarts ==
  /\ RoundEnds /\ restored' = UNION engine.disk /\ Upset
  /\ \/ Loads(engine', engine.file, engine.disk, Absent, {})
     \/ \E content \in engine.disk : Loads(engine', content, {content}, Absent, {})

Resumes ==
  /\ RoundEnds /\ restored' = restored /\ fence = "up" /\ engine.writer = "none"
  /\ \/ Loads(engine', engine.file, engine.disk, Absent, engine.removals)
     \/ Loads(engine', engine.remembered, {engine.remembered}, Absent, {})

StoreStep ==
  \/ Rests \/ Revokes \/ Proposes \/ Flushes \/ Fails \/ Renames \/ Syncs \/ Flushed
  \/ Publishes \/ Restarts \/ Resumes

(* The end of a workspace reaches the engine. *)
LEMMA LairEngineEnds ==
  ASSUME Types, EndLairEngine
  PROVE Removes(engine, engine', OfLair(ending.lair)) /\ ending.lair \in engine'.ended_lairs
<1> DEFINE gone == OfLair(ending.lair)
           removed == EndLair(engine, gone, ending.lair)
<1>0. "task" \in Waiters
  BY DEF Waiters, Writers
<1>1. engine' = removed \/ engine' = Want(removed, "task")
  BY Zenon DEF EndLairEngine
<1>2. engine \in EngineState /\ ending.lair \in Lair \cup {NoLair}
  BY Zenon DEF Types
<1>3. removed = EndLair(engine, gone, ending.lair)
  OBVIOUS
<1> HIDE DEF gone, removed
<1>4. Removes(engine, removed, gone) /\ Leaves(engine, removed, ending.lair)
  BY <1>2, <1>3, EndLairEffect, Zenon
<1>5. ending.lair \in removed.ended_lairs
  BY <1>4 DEF Leaves
<1>6. Removes(engine, engine', gone) /\ ending.lair \in engine'.ended_lairs
  <2>1. CASE engine' = removed
    BY <1>4, <1>5, <2>1, Zenon
  <2>2. CASE engine' = Want(removed, "task")
    <3>1. removed \in EngineState
      BY <1>4, Zenon DEF Removes
    <3>2. Keeps(removed, engine') /\ engine'.sessions = removed.sessions
      BY <1>0, <2>2, <3>1, WantEffect, Zenon
    <3> QED BY <1>4, <1>5, <3>2, Zenon DEF Removes, Keeps
  <2> QED BY <1>1, <2>1, <2>2, Zenon
<1> QED BY <1>6, Zenon DEF gone

(* A restart reads what a power failure may have left. *)
LEMMA RestartLoads ==
  ASSUME Types, Restart
  PROVE Restarts
<1>0. engine \in EngineState
  BY Zenon DEF Types
<1>1. /\ RoundEnds /\ restored' = UNION engine.disk /\ Upset
      /\ \/ engine' = Load(engine.file, engine.disk, Absent, {})
         \/ \E content \in engine.disk : engine' = Load(content, {content}, Absent, {})
  BY Zenon DEF Restart
<1>2. engine.file \in SUBSET Requests /\ engine.disk \in SUBSET SUBSET Requests
  BY <1>0, Zenon DEF EngineState
<1>3. CASE engine' = Load(engine.file, engine.disk, Absent, {})
  <2>1. Loads(engine', engine.file, engine.disk, Absent, {})
    BY <1>2, <1>3, LoadEffect, Zenon
  <2> QED BY <1>1, <2>1, Zenon DEF Restarts
<1>4. CASE \E content \in engine.disk : engine' = Load(content, {content}, Absent, {})
  <2>1. PICK content \in engine.disk : engine' = Load(content, {content}, Absent, {})
    BY <1>4, Zenon
  <2>2. content \in SUBSET Requests /\ {content} \in SUBSET SUBSET Requests
    BY <1>2
  <2>3. Loads(engine', content, {content}, Absent, {})
    BY <2>1, <2>2, LoadEffect, Zenon
  <2> QED BY <1>1, <2>3, Zenon DEF Restarts
<1> QED BY <1>1, <1>3, <1>4

(* A new round of the same process reads what it left, less what is owed. *)
LEMMA ResumeLoads ==
  ASSUME Types, ResumeRound
  PROVE Resumes
<1>0. engine \in EngineState
  BY Zenon DEF Types
<1> DEFINE wrote == [engine EXCEPT !.file = engine.remembered, !.disk = {engine.remembered}]
<1>1. /\ RoundEnds /\ restored' = restored /\ fence = "up" /\ engine.writer = "none"
      /\ \/ engine' = Load(engine.file, engine.disk, Absent, engine.removals)
         \/ engine' = Load(wrote.file, wrote.disk, Absent, {})
  BY Zenon DEF ResumeRound, history
<1>2. /\ engine.file \in SUBSET Requests /\ engine.disk \in SUBSET SUBSET Requests
      /\ engine.remembered \in SUBSET Requests
  BY <1>0, Zenon DEF EngineState
<1>3. wrote.file = engine.remembered /\ wrote.disk = {engine.remembered}
  BY <1>0, Zenon DEF EngineState
<1> HIDE DEF wrote
<1>4. CASE engine' = Load(engine.file, engine.disk, Absent, engine.removals)
  <2>1. Loads(engine', engine.file, engine.disk, Absent, engine.removals)
    BY <1>2, <1>4, LoadEffect, Zenon
  <2> QED BY <1>1, <2>1, Zenon DEF Resumes
<1>5. CASE engine' = Load(engine.remembered, {engine.remembered}, Absent, {})
  <2>1. {engine.remembered} \in SUBSET SUBSET Requests
    BY <1>2
  <2>2. Loads(engine', engine.remembered, {engine.remembered}, Absent, {})
    BY <1>2, <1>5, <2>1, LoadEffect, Zenon
  <2> QED BY <1>1, <2>2, Zenon DEF Resumes
<1> QED BY <1>1, <1>3, <1>4, <1>5, Zenon

(* Every step of the store is one of these. *)
LEMMA StoreSteppers ==
  /\ Types /\ Registry /\ WriterAgrees /\ [Next]_vars
  => StoreStep

(* The steps that leave the engine alone. *)
<1>EngineRests.
    ASSUME Types, engine' = engine, StaysPut
    PROVE Rests
  BY <1>EngineRests, Zenon DEF Types, Keeps, Rests

(* The store's writer. *)
<1>WriterStores.
    ASSUME Types, Registry, WriterAgrees, StoreSteps
    PROVE StoreStep
  <2> USE <1>WriterStores
  <2>1. engine \in EngineState /\ prompt \in PromptState
    BY Zenon DEF Types
  <2>0. engine.writer = "commit" => r0 \in Requests
    BY DEF WriterAgrees, Registry, Agrees, Deciding, r0
  <2>2. CASE \E w \in Writers : BeginFlush(w)
    <3>1. PICK w \in Writers : BeginFlush(w)
      BY <2>2
    <3>2. /\ w \in engine.wants /\ engine.writer = "none" /\ engine' = StartFlush(engine, w)
          /\ pending' = pending /\ prompt' = prompt
      BY <3>1, Zenon DEF BeginFlush
    <3>3. w \in Writers \ {"commit"}
      BY <2>1, <3>2, Zenon DEF EngineState
    <3>4. \/ Locks(engine, engine', w, engine.remembered)
          \/ Skips(engine, engine', w)
      BY <2>1, <3>2, FlushEffect, Zenon
    <3>5. CASE Locks(engine, engine', w, engine.remembered)
      BY <3>2, <3>3, <3>5, Zenon DEF StoreStep, Flushes
    <3>6. CASE Skips(engine, engine', w)
      BY <3>2, <3>6, Zenon DEF Skips, StoreStep, Rests, StaysPut
    <3> QED BY <3>4, <3>5, <3>6
  <2>3. CASE WriteFails
    <3>1. /\ engine.stage = "write" /\ engine' = Unlock(engine) /\ pending' = pending
          /\ prompt' = IF engine.writer = "commit" THEN [prompt EXCEPT !.at = "abort"] ELSE prompt
      BY <2>3, Zenon DEF WriteFails, WriteAbandoned
    <3>2. /\ Unlocks(engine, engine') /\ engine'.remembered = engine.remembered
          /\ engine'.removals = engine.removals
      BY <2>1, <3>1, UnlockEffect, Zenon
    <3>3. engine.writer = "commit" => prompt'.at = "abort" /\ prompt'.req = r0
      BY <2>1, <3>1, Zenon DEF PromptState, r0
    <3> QED BY <3>1, <3>2, <3>3 DEF StoreStep, Fails
  <2>4. CASE SyncFails
    <3>1. /\ engine.stage = "sync" /\ pending' = pending
          /\ prompt' = IF engine.writer = "commit" THEN [prompt EXCEPT !.at = "abort"] ELSE prompt
          /\ engine' = IF engine.writer = "commit" THEN NotDurable(engine, r0) ELSE Unlock(engine)
      BY <2>4, Zenon DEF SyncFails, WriteAbandoned
    <3>2. engine.writer = "commit" => prompt'.at = "abort" /\ prompt'.req = r0
      BY <2>1, <3>1, Zenon DEF PromptState, r0
    <3>3. CASE engine.writer = "commit"
      <4>1. engine' = NotDurable(engine, r0)
        BY <3>1, <3>3, Zenon
      <4>2. /\ Unlocks(engine, engine') /\ engine'.remembered = engine.remembered
            /\ engine'.removals = engine.removals \cup {r0}
        BY <2>0, <2>1, <3>3, <4>1, NotDurableEffect, Zenon
      <4> QED BY <3>1, <3>2, <3>3, <4>2 DEF StoreStep, Fails
    <3>4. CASE engine.writer # "commit"
      <4>1. engine' = Unlock(engine)
        BY <3>1, <3>4, Zenon
      <4>2. /\ Unlocks(engine, engine') /\ engine'.remembered = engine.remembered
            /\ engine'.removals = engine.removals
        BY <2>1, <4>1, UnlockEffect, Zenon
      <4> QED BY <3>1, <3>2, <3>4, <4>2 DEF StoreStep, Fails
    <3> QED BY <3>3, <3>4
  <2>5. CASE WriteRenames
    <3>1. engine.stage = "write" /\ engine' = Rename(engine) /\ pending' = pending /\ prompt' = prompt
      BY <2>5, Zenon DEF WriteRenames
    <3>2. /\ Writes(engine, engine') /\ engine'.file = engine.proposal
          /\ engine'.disk = engine.disk \cup {engine.proposal} /\ engine'.stage = "sync"
      BY <2>1, <3>1, RenameEffect, Zenon
    <3> QED BY <3>1, <3>2, Zenon DEF StoreStep, Renames
  <2>6. CASE WriteSyncs
    <3>1. engine.stage = "sync" /\ engine' = Sync(engine) /\ pending' = pending /\ prompt' = prompt
      BY <2>6, Zenon DEF WriteSyncs
    <3>2. /\ Writes(engine, engine') /\ engine'.file = engine.file
          /\ engine'.disk = {engine.file} /\ engine'.stage = "publish"
      BY <2>1, <3>1, SyncEffect, Zenon
    <3> QED BY <3>1, <3>2, Zenon DEF StoreStep, Syncs
  <2>7. CASE FinishFlush
    <3>1. /\ engine.stage = "publish" /\ engine.writer # "commit"
          /\ engine' = Unlock(Written(engine)) /\ pending' = pending /\ prompt' = prompt
      BY <2>7, Zenon DEF FinishFlush
    <3>2. /\ Unlocks(engine, engine') /\ engine'.remembered = engine.remembered
          /\ engine'.removals = engine.removals \cap engine.proposal
      BY <2>1, <3>1, WrittenEffect, Zenon
    <3> QED BY <3>1, <3>2, Zenon DEF StoreStep, Flushed
  <2> QED BY <2>2, <2>3, <2>4, <2>5, <2>6, <2>7, Zenon DEF StoreSteps

(* The committer. *)
<1>CommitStores.
    ASSUME Types, Registry, WriterAgrees, CommitSteps
    PROVE StoreStep
  <2> USE <1>CommitStores
  <2>1. engine \in EngineState /\ prompt \in PromptState
    BY Zenon DEF Types
  <2>0. prompt.at \in Deciding \cup {"revoke"} => r0 \in Requests
    BY DEF Registry, Agrees, r0
  <2>2. CASE CheckCommit \/ PublishOnce \/ FinishGrant \/ FinishError \/ CommitterDone
    <3>1. engine' = engine
      BY <2>2, Zenon DEF CheckCommit, PublishOnce, FinishGrant, FinishError, CommitterDone
    <3>2. StaysPut
      <4>1. prompt.at # "write"
        BY <2>2, Zenon DEF CheckCommit, PublishOnce, FinishGrant, FinishError, CommitterDone
      <4>2. prompt'.at # "write"
        BY <2>1, <2>2, JobRecords, Zenon DEF CheckCommit, PublishOnce, FinishGrant, FinishError,
           CommitterDone, PromptState, Durations
      <4> QED BY <4>1, <4>2, Zenon DEF StaysPut
    <3> QED BY <3>1, <3>2, <1>EngineRests, Zenon DEF StoreStep
  <2>3. CASE PublishSession
    <3>1. /\ prompt.at = "session"
          /\ prompt' = [prompt EXCEPT !.at = "finish"] \/ prompt' = [prompt EXCEPT !.at = "abort"]
          /\ engine' = engine \/ engine' = CommitSession(engine, r0, Same(r0))
      BY <2>3, Zenon DEF PublishSession
    <3>2. prompt'.at \in {"finish", "abort"}
      BY <2>1, <3>1 DEF PromptState
    <3>3. StaysPut
      BY <3>1, <3>2 DEF StaysPut
    <3>4. r0 \in Requests
      BY <2>0, <3>1 DEF Deciding
    <3>5. Keeps(engine, engine')
      <4>1. CASE engine' = engine
        BY <2>1, <4>1, Zenon DEF Keeps
      <4>2. CASE engine' = CommitSession(engine, r0, Same(r0))
        BY <2>1, <3>4, <4>2, SessionEffect, Zenon
      <4> QED BY <3>1, <4>1, <4>2, Zenon
    <3> QED BY <2>3, <3>3, <3>5, Zenon DEF StoreStep, Rests
  <2>4. CASE ProposeAlways
    <3>1. prompt.at = "always" /\ engine.writer = "none" /\ pending' = pending
      BY <2>4, Zenon DEF ProposeAlways
    <3>2. CASE pending.ask[r0].lair \in engine.ended_lairs
      <4>1. prompt' = [prompt EXCEPT !.at = "abort"] /\ engine' = engine
        BY <2>4, <3>2, Zenon DEF ProposeAlways
      <4>2. prompt'.at = "abort"
        BY <2>1, <4>1, Zenon DEF PromptState
      <4>3. StaysPut
        BY <3>1, <4>2 DEF StaysPut
      <4> QED BY <4>1, <4>3, <1>EngineRests, Zenon DEF StoreStep
    <3>3. CASE pending.ask[r0].lair \notin engine.ended_lairs
      <4> DEFINE P == Proposal(engine, r0, Same(r0))
      <4>1. prompt' = [prompt EXCEPT !.at = "write"] /\ engine' = Lock(engine, "commit", P)
        BY <2>4, <3>3, Zenon DEF ProposeAlways
      <4>2. prompt'.at = "write" /\ prompt'.req = r0
        BY <2>1, <4>1, Zenon DEF PromptState, r0
      <4>3. r0 \in Requests
        BY <2>0, <3>1 DEF Deciding
      <4>4. P \in SUBSET Requests /\ "commit" \in Writers /\ "commit" \notin engine.wants
        BY <2>1, <4>3 DEF Proposal, EngineState, Writers
      <4> HIDE DEF P
      <4>5. Locks(engine, engine', "commit", P)
        BY <2>1, <4>1, <4>4, LockEffect, Zenon
      <4> QED BY <3>1, <4>2, <4>5, Zenon DEF StoreStep, Proposes, P
    <3> QED BY <3>2, <3>3, Zenon
  <2>5. CASE PublishAlways
    <3>1. /\ engine.writer = "commit" /\ engine.stage = "publish" /\ pending' = pending
          /\ engine' = PublishRemembered(engine, r0, Same(r0), pending.ask[r0].lair)
          /\ prompt' = [prompt EXCEPT !.at = IF r0 \in engine'.remembered THEN "finish" ELSE "abort"]
      BY <2>5, Zenon DEF PublishAlways
    <3>2. prompt.at = "write"
      BY <3>1, Zenon DEF WriterAgrees
    <3>3. r0 \in Requests
      BY <2>0, <3>2 DEF Deciding
    <3>4. /\ prompt'.at = (IF r0 \in engine'.remembered THEN "finish" ELSE "abort")
          /\ prompt'.req = r0
      BY <2>1, <3>1, Zenon DEF PromptState, r0
    <3>5. Publication(engine, engine', r0, Same(r0), pending.ask[r0].lair)
      BY <2>1, <3>1, <3>3, PublishEffect, Zenon
    <3> QED BY <3>1, <3>2, <3>4, <3>5, Zenon DEF StoreStep, Publishes
  <2>6. CASE RevokeCommitted
    <3>1. /\ prompt.at = "revoke" /\ prompt' = [prompt EXCEPT !.at = "flush"]
          /\ \/ engine' = Want(Remove(engine, {r0}), "committer")
             \/ engine' = Remove(engine, {r0})
      BY <2>6, Zenon DEF RevokeCommitted
    <3>2. prompt'.at = "flush"
      BY <2>1, <3>1, Zenon DEF PromptState
    <3>3. StaysPut
      BY <3>1, <3>2 DEF StaysPut
    <3>4. "committer" \in Waiters
      BY DEF Waiters, Writers
    <3>5. Removes(engine, engine', {r0}) /\ engine'.ended_lairs = engine.ended_lairs
      <4>1. CASE engine' = Want(Remove(engine, {r0}), "committer")
        <5>1. Removes(engine, engine', {r0}) /\ SparesLairs(engine, engine')
          BY <2>1, <3>4, <4>1, RemoveAndWant, Zenon
        <5> QED BY <5>1, Zenon DEF SparesLairs
      <4>2. CASE engine' = Remove(engine, {r0})
        BY <2>1, <4>2, RemoveEffect, Zenon
      <4> QED BY <3>1, <4>1, <4>2
    <3> QED BY <3>3, <3>5, Zenon DEF StoreStep, Revokes
  <2> QED BY <2>2, <2>3, <2>4, <2>5, <2>6, Zenon DEF CommitSteps

(* Whatever revokes, waits for a flush, or does not touch the store. *)
<1>OthersStore.
    ASSUME Types, Elsewhere, ~ StoreSteps
    PROVE (Rests \/ Revokes) /\ prompt' = prompt
  <2> USE <1>OthersStore
  <2>1. engine \in EngineState
    BY Zenon DEF Types
  <2>2. prompt' = prompt /\ StaysPut
    BY ElsewhereIsQuiet, Zenon DEF StaysPut
  <2>0. "revoker" \in Waiters /\ "task" \in Waiters
    BY DEF Waiters, Writers
  <2>3. CASE engine' = engine
    BY <2>2, <2>3, <1>EngineRests, Zenon
  <2>4. CASE engine' = Want(engine, "revoker") \/ engine' = Want(engine, "task")
    <3>1. Keeps(engine, engine') /\ engine'.sessions = engine.sessions
      <4>1. CASE engine' = Want(engine, "revoker")
        BY <2>0, <2>1, <4>1, WantEffect, Zenon
      <4>2. CASE engine' = Want(engine, "task")
        BY <2>0, <2>1, <4>2, WantEffect, Zenon
      <4> QED BY <2>4, <4>1, <4>2, Zenon
    <3> QED BY <2>2, <3>1, Zenon DEF Rests
  <2>5. CASE \E R : engine' = Remove(engine, R) \/ engine' = Want(Remove(engine, R), "revoker")
    <3>1. (\E R : Removes(engine, engine', R)) /\ engine'.ended_lairs = engine.ended_lairs
      <4>1. PICK R : engine' = Remove(engine, R) \/ engine' = Want(Remove(engine, R), "revoker")
        BY <2>5
      <4>2. CASE engine' = Want(Remove(engine, R), "revoker")
        <5>1. Removes(engine, engine', R) /\ SparesLairs(engine, engine')
          BY <2>0, <2>1, <4>2, RemoveAndWant, Zenon
        <5> QED BY <5>1, Zenon DEF SparesLairs
      <4>3. CASE engine' = Remove(engine, R)
        BY <2>1, <4>3, RemoveEffect, Zenon
      <4> QED BY <4>1, <4>2, <4>3
    <3> QED BY <2>2, <3>1, Zenon DEF Revokes
  <2>6. CASE EndLairEngine
    BY <2>2, <2>6, LairEngineEnds, Zenon DEF Revokes
  <2>7. CASE \E c \in Call : (\E a \in Asking[c] : CallEnter(c, a)) \/ CallReturns(c) \/ CallDropped(c)
    <3>1. engine' = engine
      BY <2>7, Zenon DEF CallEnter, CallReturns, CallDropped
    <3> QED BY <2>3, <3>1
  <2>8. CASE \E r \in Requests : OnceExpires(r) \/ RevokeEntry(r)
    <3>1. engine' = engine \/ \E R : engine' = Want(Remove(engine, R), "revoker")
      BY <2>8, Zenon DEF OnceExpires, RevokeEntry
    <3> QED BY <2>3, <2>5, <3>1, Zenon
  <2>9. CASE RevokerSteps
    <3>1. engine' = engine \/ engine' = Remove(engine, Requests) \/ engine' = Want(engine, "revoker")
      BY <2>9, Zenon DEF RevokerSteps, RevokeAllOnce, RevokeAllEngine, RevokeAllChecks, RevokerDone
    <3> QED BY <2>3, <2>4, <2>5, <3>1, Zenon
  <2>10. CASE (\E l \in Lair : LairLeaves(l)) \/ EndLairOnce \/ FenceWaits \/ FenceRises
              \/ FenceLifts \/ UNCHANGED vars
    <3>1. engine' = engine
      BY <2>10, Zenon DEF LairLeaves, EndLairOnce, FenceWaits, FenceRises, FenceLifts, vars
    <3> QED BY <2>3, <3>1
  <2>11. CASE FlushAtFence
    <3>1. engine' = Want(engine, "task")
      BY <2>11, Zenon DEF FlushAtFence
    <3> QED BY <2>4, <3>1
  <2> QED BY <2>6, <2>7, <2>8, <2>9, <2>10, <2>11, Zenon DEF Elsewhere, StoreSteps

<1> QED
  <2> SUFFICES ASSUME Types, Registry, WriterAgrees, [Next]_vars
               PROVE StoreStep
    BY Zenon
  <2>1. engine \in EngineState /\ prompt \in PromptState
    BY Zenon DEF Types
  <2>2. CASE StoreSteps
    BY <2>2, <1>WriterStores, Zenon
  <2>3. CASE Elsewhere /\ ~ StoreSteps
    BY <2>3, <1>OthersStore, Zenon DEF StoreStep
  <2>4. CASE CommitSteps
    BY <2>4, <1>CommitStores, Zenon
  <2>5. CASE Enders
    <3>1. prompt' = prompt
      BY <2>5, Zenon DEF Enders, EndRequest, RevokeAllPending, EndLairPending, FenceEndsPending,
         Shutdown
    <3>2. engine' = engine \/ engine' = Want(engine, "task")
      BY <2>5, Zenon DEF Enders, EndRequest, RevokeAllPending, EndLairPending, FenceEndsPending,
         Shutdown
    <3>3. "task" \in Waiters
      BY DEF Waiters, Writers
    <3>4. Keeps(engine, engine') /\ engine'.sessions = engine.sessions
      <4>1. CASE engine' = engine
        BY <2>1, <4>1, Zenon DEF Keeps
      <4>2. CASE engine' = Want(engine, "task")
        BY <2>1, <3>3, <4>2, WantEffect, Zenon
      <4> QED BY <3>2, <4>1, <4>2, Zenon
    <3> QED BY <3>1, <3>4, Zenon DEF StoreStep, Rests, StaysPut
  <2>6. CASE Showers
    <3>1. engine' = engine
      BY <2>6, Zenon DEF Showers, EnsurePrompter, TakePrompt, ShowPrompt, PromptCloses,
         PersonDenies, PersonGrants
    <3>2. StaysPut
      <4>1. CASE \E c \in Call : EnsurePrompter(c)
        <5>1. prompt' = prompt \/ (~ pending.prompter /\ prompt' = NextJob)
          BY <4>1, Zenon DEF EnsurePrompter, NextJob
        <5>2. prompt' = prompt \/ (prompt.at = "off" /\ prompt'.at = "next")
          BY <5>1, JobRecords DEF Registry
        <5> QED BY <5>2 DEF StaysPut
      <4>2. CASE TakePrompt \/ ShowPrompt \/ PromptCloses \/ PersonDenies \/ PersonGrants
        <5>1. prompt.at \in {"next", "looking", "shown"}
          BY <4>2 DEF TakePrompt, ShowPrompt, PromptCloses, PersonDenies, PersonGrants
        <5>2. prompt'.at # "write"
          BY <2>1, <4>2, JobRecords, Zenon DEF TakePrompt, ShowPrompt, PromptCloses, PersonDenies,
             PersonGrants, PromptState
        <5> QED BY <5>1, <5>2 DEF StaysPut
      <4> QED BY <2>6, <4>1, <4>2, Zenon DEF Showers
    <3> QED BY <3>1, <3>2, <1>EngineRests, Zenon DEF StoreStep
  <2>7. CASE \E c \in Call : AdmitStep(c)
    <3>1. PICK c \in Call : AdmitStep(c)
      BY <2>7
    <3>2. prompt' = prompt /\ engine' = engine
      <4>1. PICK pinned \in BOOLEAN, denials \in SUBSET pending.denials,
                 cooldowns \in SUBSET pending.cooldowns : CallAdmit(c, pinned, denials, cooldowns)
        BY <3>1, Zenon DEF AdmitStep
      <4> QED BY <4>1, Zenon DEF CallAdmit
    <3> QED BY <3>2, <1>EngineRests, Zenon DEF StoreStep, StaysPut
  <2>8. CASE WriteFails \/ SyncFails
    BY <2>2, <2>8, Zenon DEF StoreSteps
  <2>9. CASE Restart
    BY <2>9, RestartLoads, Zenon DEF StoreStep
  <2>10. CASE ResumeRound
    BY <2>10, ResumeLoads, Zenon DEF StoreStep
  <2> QED BY <2>2, <2>3, <2>4, <2>5, <2>6, <2>7, <2>8, <2>9, <2>10, StepKinds, Zenon

(* The writer lock and the committer agree after it. *)
LEMMA WriterStep ==
  ASSUME Types, WriterAgrees, StoreStep
  PROVE WriterAgrees' /\ engine' \in EngineState
<1> USE DEF WriterAgrees
<1>1. engine \in EngineState
  BY Zenon DEF Types
<1>2. CASE Rests
  BY <1>2 DEF Rests, Keeps, StaysPut
<1>3. CASE Revokes
  BY <1>3 DEF Revokes, Removes, StaysPut
<1>4. CASE Proposes
  BY <1>4 DEF Proposes, Locks
<1>5. CASE Flushes
  <2>1. PICK w \in Writers \ {"commit"} : Locks(engine, engine', w, engine.remembered)
    BY <1>5, Zenon DEF Flushes
  <2>2. w # "none" /\ w # "commit"
    BY DEF Writers
  <2> QED BY <1>5, <2>1, <2>2 DEF Flushes, Locks
<1>6. CASE Fails
  BY <1>6 DEF Fails, Unlocks
<1>7. CASE Renames \/ Syncs
  BY <1>7 DEF Renames, Syncs, Writes
<1>8. CASE Flushed
  BY <1>8 DEF Flushed, Unlocks
<1>9. CASE Publishes
  BY <1>9 DEF Publishes, Publication, Unlocks
<1>10. CASE Restarts \/ Resumes
  <2>1. prompt' = Off
    BY <1>10, Zenon DEF Restarts, Resumes, RoundEnds
  <2>2. engine'.writer = "none" /\ engine'.stage = "idle" /\ engine' \in EngineState
    BY <1>10, Zenon DEF Restarts, Resumes, Loads
  <2> QED BY <2>1, <2>2, JobRecords
<1> QED BY <1>2, <1>3, <1>4, <1>5, <1>6, <1>7, <1>8, <1>9, <1>10, Zenon DEF StoreStep

-----------------------------------------------------------------------------
(* Whose step changes what.                                                *)

Rounds == Restart \/ ResumeRound

Callers ==
  \/ \E c \in Call : \/ \E a \in Asking[c] : CallEnter(c, a)
                     \/ AdmitStep(c) \/ EnsurePrompter(c) \/ CallReturns(c) \/ CallDropped(c)
  \/ Rounds

Owners ==
  /\ calls' = calls \/ Callers
  /\ once' = once \/ PublishOnce \/ RevokeCommitted \/ RevokeAllOnce \/ EndLairOnce \/ Rounds
       \/ \E r \in Requests : OnceExpires(r)
  /\ lairs' = lairs \/ \E l \in Lair : LairLeaves(l)
  /\ ending' = ending \/ EndingSteps \/ Rounds \/ \E l \in Lair : LairLeaves(l)
  /\ fence' = fence \/ FenceWaits \/ FenceRises \/ FenceEndsPending \/ FenceLifts \/ Rounds
  /\ through' = through \/ RevokeAllEngine
  /\ restored' = restored \/ Restart
  /\ upsets' = upsets \/ Upset

RevokerOwners ==
  /\ revoker' = revoker \/ RevokeAllPending \/ RevokerSteps \/ Rounds
       \/ (\E r \in Requests : RevokeEntry(r)) \/ WriteFails \/ SyncFails
  /\ confirmed' = confirmed \/ RevokerDone

(* A new round begins with the end of the last. *)
LEMMA RoundsEnd ==
  ASSUME Rounds PROVE RoundEnds
BY Zenon DEF Rounds, Restart, ResumeRound

(* Each step changes its own. *)
LEMMA Ownership ==
  ASSUME [Next]_vars
  PROVE Owners /\ RevokerOwners
<1> USE DEF Owners, RevokerOwners, world, history
<1>1. CASE \E c \in Call : \/ \E a \in Asking[c] : CallEnter(c, a)
                           \/ EnsurePrompter(c) \/ CallReturns(c) \/ CallDropped(c)
  BY <1>1, Zenon DEF CallEnter, EnsurePrompter, CallReturns, CallDropped, Callers
<1>2. CASE \E c \in Call : AdmitStep(c)
  <2>1. UNCHANGED <<once, world>>
    <3>1. PICK c \in Call : AdmitStep(c)
      BY <1>2
    <3>2. PICK pinned \in BOOLEAN, denials \in SUBSET pending.denials,
               cooldowns \in SUBSET pending.cooldowns : CallAdmit(c, pinned, denials, cooldowns)
      BY <3>1, Zenon DEF AdmitStep
    <3> QED BY <3>2, Zenon DEF CallAdmit
  <2> QED BY <1>2, <2>1, Zenon DEF Callers
<1>3. CASE TakePrompt \/ ShowPrompt \/ PromptCloses \/ PersonDenies \/ PersonGrants
  BY <1>3, Zenon DEF TakePrompt, ShowPrompt, PromptCloses, PersonDenies, PersonGrants
<1>4. CASE CommitSteps
  BY <1>4, Zenon DEF CommitSteps, CheckCommit, PublishOnce, PublishSession, ProposeAlways,
     PublishAlways, FinishGrant, FinishError, RevokeCommitted, CommitterDone
<1>5. CASE StoreSteps
  BY <1>5, Zenon DEF StoreSteps, BeginFlush, WriteFails, WriteRenames, WriteSyncs, SyncFails,
     FinishFlush, WriteAbandoned
<1>6. CASE \E r \in Requests : EndRequest(r) \/ OnceExpires(r) \/ RevokeEntry(r)
  BY <1>6, Zenon DEF EndRequest, OnceExpires, RevokeEntry
<1>7. CASE RevokeAllPending \/ RevokerSteps
  BY <1>7, Zenon DEF RevokeAllPending, RevokerSteps, RevokeAllOnce, RevokeAllEngine,
     RevokeAllChecks, RevokerDone
<1>8. CASE (\E l \in Lair : LairLeaves(l)) \/ EndingSteps
  BY <1>8, Zenon DEF LairLeaves, EndingSteps, EndLairPending, EndLairOnce, EndLairEngine
<1>9. CASE FenceWaits \/ FenceSteps \/ Shutdown
  BY <1>9, Zenon DEF FenceWaits, FenceSteps, FenceRises, FenceEndsPending, FlushAtFence,
     FenceLifts, Shutdown
<1>10. CASE Restart \/ ResumeRound
  BY <1>10, Zenon DEF Rounds, Restart, ResumeRound, Callers
<1>11. CASE UNCHANGED vars
  BY <1>11, Zenon DEF vars
<1> QED BY <1>1, <1>2, <1>3, <1>4, <1>5, <1>6, <1>7, <1>8, <1>9, <1>10, <1>11, Zenon
           DEF Next, CallSteps, PrompterSteps

(* The requests that were opened are the first so many. *)
Counts ==
  /\ Cardinality(Opened) \in Nat
  /\ \A r \in Requests : pending.phase[r] = "unused" <=> r > Cardinality(Opened)

(* Every step keeps the types. *)
LEMMA TypesStep ==
  /\ NumberFacts /\ Types /\ Registry /\ WriterAgrees /\ Counts /\ [Next]_vars
  => Types'

(* The calls keep their shape. *)
<1>CallsKept.
    ASSUME NumberFacts, Types, [Next]_vars
    PROVE calls' \in [Call -> [at : {"idle", "asking", "opened", "waiting"},
                               req : 0..MaxRequests, ask : Asks]]
  <2> USE <1>CallsKept
  <2> DEFINE Shape == [at : {"idle", "asking", "opened", "waiting"}, req : 0..MaxRequests, ask : Asks]
  <2>1. calls \in [Call -> Shape] /\ pending \in PendingState
    BY Zenon DEF Types
  <2>2. Idle \in Shape
    BY PendingAssumption DEF Idle, Asks
  <2> SUFFICES calls' \in [Call -> Shape]
    OBVIOUS
  <2>3. CASE \E c \in Call : \E a \in Asking[c] : CallEnter(c, a)
    <3>0. PICK c \in Call : \E a \in Asking[c] : CallEnter(c, a)
      BY <2>3
    <3>1. PICK a \in Asking[c] : CallEnter(c, a)
      BY <3>0
    <3>2. a \in Asks /\ 0 \in 0..MaxRequests
      BY PendingAssumption DEF Asks
    <3>3. calls' = [calls EXCEPT ![c] = [at |-> "asking", req |-> 0, ask |-> a]]
      BY <3>1, Zenon DEF CallEnter
    <3>4. [at |-> "asking", req |-> 0, ask |-> a] \in Shape
      BY <3>2, Zenon
    <3> HIDE DEF Shape
    <3> QED BY <2>1, <3>3, <3>4, Zenon
  <2>4. CASE \E c \in Call : AdmitStep(c)
    <3>1. PICK c \in Call : AdmitStep(c)
      BY <2>4
    <3>2. PICK pinned \in BOOLEAN, denials \in SUBSET pending.denials,
               cooldowns \in SUBSET pending.cooldowns : CallAdmit(c, pinned, denials, cooldowns)
      BY <3>1, Zenon DEF AdmitStep
    <3> DEFINE a == calls[c].ask
               p == IF pending.closed THEN pending ELSE Prune(pending, denials, cooldowns)
               answer == Admission(p, a, pinned)
               unused == InPhase(p, {"unused"})
               x == CASE answer = "opened" -> [at |-> "opened", req |-> Min(unused), ask |-> a]
                      [] answer = "joined" -> [at |-> "waiting", req |-> Min(EntriesFor(p, a)), ask |-> a]
                      [] OTHER -> Idle
    <3>3. calls' = [calls EXCEPT ![c] = x] /\ (answer = "opened" => unused # {})
      BY <3>2, Zenon DEF CallAdmit
    <3>4. a \in Asks
      BY <2>1, Zenon
    <3>5. answer = "joined" => EntriesFor(p, a) # {}
      BY Zenon DEF Admission
    <3>6. unused \subseteq Requests /\ EntriesFor(p, a) \subseteq Requests
      BY Zenon DEF InPhase, EntriesFor, Entries
    <3>7. \A R : R \subseteq Requests /\ R # {} => Min(R) \in 0..MaxRequests
      <4> SUFFICES ASSUME NEW R, R \subseteq Requests, R # {} PROVE Min(R) \in 0..MaxRequests
        BY Zenon
      <4>1. R \subseteq Nat
        BY DEF Requests
      <4>2. Min(R) \in R
        BY <4>1, Zenon DEF NumberFacts
      <4>3. Requests \subseteq 0..MaxRequests
        BY DEF Requests
      <4> QED BY <4>2, <4>3, Zenon
    <3>8. /\ answer = "opened" => Min(unused) \in 0..MaxRequests
          /\ answer = "joined" => Min(EntriesFor(p, a)) \in 0..MaxRequests
      BY <3>3, <3>5, <3>6, <3>7, Zenon
    <3> HIDE DEF a, answer, unused, p
    <3>9. x \in Shape
      BY <2>2, <3>4, <3>8, Zenon
    <3> HIDE DEF x, Shape
    <3> QED BY <2>1, <3>3, <3>9, Zenon
  <2>5. CASE \E c \in Call : EnsurePrompter(c)
    <3>1. PICK c \in Call : EnsurePrompter(c)
      BY <2>5
    <3>2. calls' = [calls EXCEPT ![c].at = "waiting"]
      BY <3>1, Zenon DEF EnsurePrompter
    <3> QED BY <2>1, <3>2
  <2>6. CASE \E c \in Call : CallReturns(c) \/ CallDropped(c)
    <3>1. PICK c \in Call : calls' = [calls EXCEPT ![c] = Idle]
      BY <2>6, Zenon DEF CallReturns, CallDropped
    <3> HIDE DEF Shape
    <3> QED BY <2>1, <2>2, <3>1, Zenon
  <2>7. CASE RoundEnds
    <3>1. calls' = [c \in Call |-> Idle]
      BY <2>7, Zenon DEF RoundEnds
    <3> HIDE DEF Shape
    <3> QED BY <2>2, <3>1, Zenon
  <2>8. calls' = calls \/ Callers
    BY Ownership, Zenon DEF Owners
  <2> QED BY <2>1, <2>3, <2>4, <2>5, <2>6, <2>7, <2>8, RoundsEnd, Zenon DEF Callers

<1> QED
  <2> SUFFICES ASSUME NumberFacts, Types, Registry, WriterAgrees, Counts, [Next]_vars
               PROVE Types'
    BY Zenon
  <2>1. engine' \in EngineState
    BY StoreSteppers, WriterStep, Zenon
  <2>2. pending' \in PendingState /\ prompt' \in PromptState
    BY RegistryStep, Zenon DEF RegistryAdmits
  <2>3. calls' \in [Call -> [at : {"idle", "asking", "opened", "waiting"},
                             req : 0..MaxRequests, ask : Asks]]
    BY <1>CallsKept, Zenon
  <2>0. Owners /\ RevokerOwners
    BY Ownership, Zenon
  <2> USE DEF Types
  <2>4. once' \subseteq Requests
    <3>1. PublishOnce => r0 \in Requests
      BY Zenon DEF PublishOnce, Registry, Agrees, Deciding, r0
    <3>2. \/ once' = once \/ once' = {} \/ (r0 \in Requests /\ once' = once \cup {r0})
          \/ \E R : once' = once \ R
          \/ \E r : once' = {g \in once : ~SameRequester(pending.ask[g], pending.ask[r])}
      BY <2>0, <3>1, RoundsEnd, Zenon DEF Owners, PublishOnce, RevokeCommitted, RevokeAllOnce, EndLairOnce,
         RoundEnds, OnceExpires
    <3> QED BY <3>2
  <2>5. lairs' \subseteq Lair /\ fence' \in {"idle", "queued", "raised", "up"}
    BY <2>0, RoundsEnd DEF Owners, LairLeaves, FenceWaits, FenceRises, FenceEndsPending, FenceLifts, RoundEnds
  <2>6. /\ ending' \in [at : {"idle", "pending", "once", "engine"}, lair : Lair \cup {NoLair}]
        /\ ending'.at = "idle" <=> ending'.lair = NoLair
    <3>1. CASE ending' = ending
      BY <3>1, Zenon
    <3>2. CASE EndLairPending
      BY <3>2 DEF EndLairPending
    <3>3. CASE EndLairOnce
      BY <3>3 DEF EndLairOnce
    <3>4. CASE EndLairEngine \/ RoundEnds
      BY <3>4 DEF EndLairEngine, RoundEnds
    <3>5. CASE \E l \in Lair : LairLeaves(l)
      BY <3>5, PendingAssumption DEF LairLeaves, NoLair
    <3> QED BY <2>0, <3>1, <3>2, <3>3, <3>4, <3>5, RoundsEnd, Zenon DEF Owners, EndingSteps
  <2>7. restored' \subseteq Requests
    BY <2>0 DEF Owners, Restart, EngineState
  <2>8. through' \in Nat
    BY <2>0 DEF Owners, RevokeAllEngine
  <2>9. upsets' \in Nat
    BY <2>0 DEF Owners, Upset
  <2>10. confirmed' \subseteq Requests
    BY <2>0 DEF RevokerOwners, RevokerDone
  <2>11. revoker' \in [at : {"idle", "once", "engine", "check", "flush"},
                      removed : SUBSET Requests, from : Nat]
    <3>0. NotRevoking \in [at : {"idle", "once", "engine", "check", "flush"},
                          removed : SUBSET Requests, from : Nat]
      BY DEF NotRevoking
    <3>1. CASE RevokeAllPending
      BY <3>1 DEF RevokeAllPending, Counts
    <3>2. CASE RevokeAllOnce \/ RevokeAllChecks
      BY <3>2 DEF RevokeAllOnce, RevokeAllChecks
    <3>3. CASE RevokeAllEngine
      BY <3>3, Zenon DEF RevokeAllEngine, EngineState
    <3>4. CASE RevokerDone \/ RoundEnds
      BY <3>0, <3>4, Zenon DEF RevokerDone, RoundEnds
    <3>5. CASE \E r \in Requests : RevokeEntry(r)
      <4>1. PICK r \in Requests : revoker' = [NotRevoking EXCEPT !.at = "flush", !.removed = {r}]
        BY <3>5, Zenon DEF RevokeEntry
      <4>2. {r} \in SUBSET Requests
        OBVIOUS
      <4> QED BY <3>0, <4>1, <4>2, Zenon
    <3>6. CASE WriteFails \/ SyncFails
      BY <3>0, <3>6, Zenon DEF WriteFails, SyncFails, WriteAbandoned
    <3> QED BY <2>0, <3>1, <3>2, <3>3, <3>4, <3>5, <3>6, RoundsEnd, Zenon DEF RevokerOwners, RevokerSteps
  <2> QED BY <2>1, <2>2, <2>3, <2>4, <2>5, <2>6, <2>7, <2>8, <2>9, <2>10, <2>11, Zenon

-----------------------------------------------------------------------------
(* Grants and entries come from requests that had their answer.            *)

Grants == once \cup engine.sessions \cup engine.remembered
Writing == IF engine.writer = "commit" THEN {r0} ELSE {}

GrantsAreSpent ==
  /\ \A r \in Grants : Spent(pending, prompt, r) /\ ~ (r = r0 /\ prompt.at = "abort")
  /\ \A r \in engine.removals \cup confirmed \cup revoker.removed : Spent(pending, prompt, r)
  /\ \A r \in (UNION engine.disk) \cup engine.proposal : Spent(pending, prompt, r) \/ r \in Writing
  /\ \A r \in restored : pending.phase[r] = "over"

(* The file, the proposal and memory. *)
StoreIsOrdered ==
  /\ engine.writer = "none" => engine.proposal = {}
  /\ engine.proposal \subseteq engine.remembered \cup engine.removals \cup Writing
  /\ engine.file \in engine.disk
  /\ engine.stage \in {"idle", "write"} => engine.file \subseteq engine.remembered \cup engine.removals
  /\ engine.stage \in {"sync", "publish"} => engine.file = engine.proposal
  /\ engine.stage = "publish" => engine.disk = {engine.file}
  /\ engine.removals \cap engine.remembered = {}
  /\ engine.writer = "commit" =>
       /\ r0 \in engine.proposal
       /\ \A q \in engine.proposal : q # r0 => Key(pending, q) # Key(pending, r0)

(* Every step, by what it does to the grants. *)
Shrinks ==
  /\ once' \subseteq once /\ engine'.sessions \subseteq engine.sessions
  /\ engine'.remembered \subseteq engine.remembered /\ restored' = restored

GrantsOnce ==
  /\ prompt.at = "once" /\ Live(pending, r0) /\ pending'.phase[r0] = "published"
  /\ once' = once \cup {r0} /\ engine' = engine

GrantsSession ==
  /\ prompt.at = "session" /\ Live(pending, r0) /\ pending'.phase[r0] = "published"
  /\ once' = once /\ engine'.sessions \subseteq engine.sessions \cup {r0}
  /\ Keeps(engine, engine')

GrantsAlways ==
  /\ prompt.at = "write" /\ pending' = pending
  /\ pending.ask[r0].lair \notin engine.ended_lairs
  /\ once' \subseteq once /\ engine'.sessions = engine.sessions
  /\ engine'.remembered \subseteq engine.remembered \cup {r0}
  /\ engine'.missing = engine.missing

Reloads ==
  /\ RoundEnds /\ Upset /\ engine'.sessions = {}
  /\ engine'.remembered \subseteq UNION engine.disk /\ restored' = UNION engine.disk

GrantStep ==
  \/ Shrinks
  \/ /\ GrantsOnce \/ GrantsSession \/ GrantsAlways
     /\ restored' = restored /\ prompt'.at = "finish" /\ prompt'.req = r0
  \/ Reloads

(* Nothing else grants, but the writer's last step and a restart. *)
LEMMA GrantSteppers ==
  /\ Types /\ Registry /\ WriterAgrees /\ StoreIsOrdered /\ [Next]_vars
  => GrantStep /\ StoreStep /\ (restored' = restored \/ Restarts)

(* A grant made visible at once. *)
<1>VisibleGrant.
    ASSUME Types, Registry, PublishOnce \/ PublishSession
    PROVE GrantStep
  <2> USE <1>VisibleGrant
  <2>1. /\ pending \in PendingState /\ prompt \in PromptState /\ engine \in EngineState
        /\ restored' = restored
    BY Zenon DEF Types, PublishOnce, PublishSession, world, history
  <2>0. r0 \in Requests
    BY Zenon DEF PublishOnce, PublishSession, Registry, Agrees, Deciding, r0
  <2>2. CASE UNCHANGED <<once, engine>>
    BY <2>1, <2>2 DEF GrantStep, Shrinks
  <2>3. CASE PublishOnce /\ once' # once
    <3>1. /\ prompt.at = "once" /\ Live(pending, r0) /\ pending' = [pending EXCEPT !.phase[r0] = "published"]
          /\ once' = once \cup {r0} /\ engine' = engine /\ prompt' = [prompt EXCEPT !.at = "finish"]
      BY <2>3, Zenon DEF PublishOnce, MayPublish, Publish
    <3>2. pending'.phase[r0] = "published"
      <4>1. pending' = [pending EXCEPT !.phase[r0] = "published"] /\ pending \in PendingState
        BY <2>1, <3>1, Zenon
      <4> QED BY <2>0, <4>1, PhaseOne, Zenon
    <3>3. prompt'.at = "finish" /\ prompt'.req = r0
      BY <2>1, <3>1, Zenon DEF PromptState, r0
    <3> QED BY <2>1, <3>1, <3>2, <3>3, Zenon DEF GrantStep, GrantsOnce
  <2>4. CASE PublishSession /\ engine' # engine
    <3>1. /\ prompt.at = "session" /\ Live(pending, r0) /\ pending' = [pending EXCEPT !.phase[r0] = "published"]
          /\ once' = once /\ prompt' = [prompt EXCEPT !.at = "finish"]
          /\ engine' = CommitSession(engine, r0, Same(r0))
      BY <2>4, Zenon DEF PublishSession, MayPublish, Publish
    <3>2. pending'.phase[r0] = "published"
      <4>1. pending' = [pending EXCEPT !.phase[r0] = "published"] /\ pending \in PendingState
        BY <2>1, <3>1, Zenon
      <4> QED BY <2>0, <4>1, PhaseOne, Zenon
    <3>3. prompt'.at = "finish" /\ prompt'.req = r0
      BY <2>1, <3>1, Zenon DEF PromptState, r0
    <3>4. Keeps(engine, engine') /\ engine'.sessions = (engine.sessions \ Same(r0)) \cup {r0}
      <4>1. engine' = CommitSession(engine, r0, Same(r0)) /\ engine \in EngineState
        BY <2>1, <3>1, Zenon
      <4>2. Keeps(engine, engine') /\ Joins(engine, engine', r0, Same(r0))
        BY <2>0, <4>1, SessionEffect, Zenon
      <4> QED BY <4>2, Zenon DEF Joins
    <3>5. engine'.sessions \subseteq engine.sessions \cup {r0}
      BY <3>4
    <3> QED BY <2>1, <3>1, <3>2, <3>3, <3>4, <3>5, Zenon DEF GrantStep, GrantsSession
  <2> QED BY <2>2, <2>3, <2>4, Zenon DEF PublishOnce, PublishSession

<1> QED
  <2> SUFFICES ASSUME Types, Registry, WriterAgrees, StoreIsOrdered, [Next]_vars
               PROVE GrantStep /\ StoreStep /\ (restored' = restored \/ Restarts)
    BY Zenon
  <2>1. StoreStep
    BY StoreSteppers, Zenon
  <2>2. restored' = restored \/ Restarts
    BY Ownership, RestartLoads, Zenon DEF Owners
  <2>3. CASE PublishOnce \/ PublishSession
    BY <2>1, <2>2, <2>3, <1>VisibleGrant, Zenon
  <2>4. CASE Restarts
    <3>1. engine.file \in engine.disk
      BY Zenon DEF StoreIsOrdered
    <3>2. engine'.sessions = {} /\ engine'.remembered \subseteq UNION engine.disk
      BY <2>4, <3>1 DEF Restarts, Loads
    <3> QED BY <2>1, <2>2, <2>4, <3>2, Zenon DEF Restarts, Reloads, GrantStep
  <2>5. CASE restored' = restored /\ ~ PublishOnce /\ ~ PublishSession /\ ~ Restarts
    <3>1. once' \subseteq once
      <4>1. once' = once \/ once' = {} \/ (\E R : once' = once \ R)
            \/ \E r : once' = {g \in once : ~SameRequester(pending.ask[g], pending.ask[r])}
        BY <2>5, Ownership, RoundsEnd, Zenon DEF Owners, RevokeCommitted, RevokeAllOnce, EndLairOnce,
           RoundEnds, OnceExpires
      <4> QED BY <4>1
    <3>2. CASE Rests
      BY <2>1, <2>5, <3>1, <3>2 DEF Rests, Keeps, GrantStep, Shrinks
    <3>3. CASE Revokes
      BY <2>1, <2>5, <3>1, <3>3 DEF Revokes, Removes, GrantStep, Shrinks
    <3>4. CASE Proposes \/ Flushes
      BY <2>1, <2>5, <3>1, <3>4 DEF Proposes, Flushes, Locks, GrantStep, Shrinks
    <3>5. CASE Fails \/ Flushed
      BY <2>1, <2>5, <3>1, <3>5 DEF Fails, Flushed, Unlocks, GrantStep, Shrinks
    <3>6. CASE Renames \/ Syncs
      BY <2>1, <2>5, <3>1, <3>6 DEF Renames, Syncs, Writes, GrantStep, Shrinks
    <3>7. CASE Publishes
      <4>1. CASE engine'.remembered = engine.remembered
        BY <2>1, <2>5, <3>1, <3>7, <4>1 DEF Publishes, Publication, Unlocks, GrantStep, Shrinks
      <4>2. CASE /\ pending.ask[r0].lair \notin engine.ended_lairs
                 /\ engine'.remembered = (engine.remembered \ Same(r0)) \cup {r0}
        <5>1. prompt'.at = "finish" /\ prompt'.req = r0
          BY <3>7, <4>2 DEF Publishes
        <5>2. GrantsAlways
          BY <3>1, <3>7, <4>2 DEF Publishes, Publication, Unlocks, GrantsAlways
        <5> QED BY <2>1, <2>5, <5>1, <5>2, Zenon DEF GrantStep
      <4> QED BY <3>7, <4>1, <4>2, Zenon DEF Publishes, Publication
    <3>8. CASE Resumes
      <4>1. engine.stage = "idle"
        BY <3>8, Zenon DEF Resumes, WriterAgrees
      <4>2. engine.file \subseteq engine.remembered \cup engine.removals
        BY <4>1 DEF StoreIsOrdered
      <4>3. engine'.sessions = {} /\ engine'.remembered \subseteq engine.remembered
        BY <3>8, <4>2 DEF Resumes, Loads
      <4> QED BY <2>1, <2>5, <3>1, <4>3 DEF GrantStep, Shrinks
    <3> QED BY <2>1, <2>5, <3>2, <3>3, <3>4, <3>5, <3>6, <3>7, <3>8, Zenon DEF StoreStep
  <2> QED BY <2>2, <2>3, <2>4, <2>5, Zenon

(* What a round's end leaves of the registry. *)
LEMMA RoundLeaves ==
  ASSUME Types, RoundEnds
  PROVE /\ prompt' = Off /\ prompt'.at = "off" /\ once' = {}
        /\ pending'.outcome = pending.outcome /\ pending'.ask = pending.ask
        /\ \A r \in Requests :
             pending'.phase[r] = IF pending.phase[r] = "unused" THEN "unused" ELSE "over"
<1>1. pending \in PendingState
  BY Zenon DEF Types
<1> DEFINE phases == [r \in Requests |-> IF pending.phase[r] = "unused" THEN "unused" ELSE "over"]
<1>2. /\ pending'.phase = phases /\ pending'.outcome = pending.outcome
      /\ pending'.ask = pending.ask
  BY <1>1 DEF PendingState, RoundEnds
<1>3. prompt' = Off /\ once' = {}
  BY Zenon DEF RoundEnds
<1> QED BY <1>2, <1>3, JobRecords

(* A request that is being decided is not spent; a spent one was opened. *)
LEMMA SpentFacts ==
  ASSUME Agrees(pending, prompt)
  PROVE /\ prompt.at \in Deciding \ {"abort"} =>
             /\ r0 \in Requests /\ pending.phase[r0] = "committing"
             /\ ~ Spent(pending, prompt, r0)
        /\ \A r \in Requests : Spent(pending, prompt, r) => pending.phase[r] # "unused"
BY DEF Agrees, Spent, Deciding, r0

Forward ==
  \A r \in Requests : Moves(pending, prompt, pending', prompt', r)

(* What is being written is of use to no one yet. *)
LEMMA WritingFacts ==
  ASSUME Types, Registry, WriterAgrees, GrantsAreSpent, engine.writer = "commit"
  PROVE /\ r0 \in Requests /\ pending.phase[r0] = "committing"
        /\ ~ Spent(pending, prompt, r0)
        /\ r0 \notin engine.remembered \cup engine.removals \cup confirmed \cup revoker.removed
        /\ r0 \notin once \cup engine.sessions \cup restored
<1>1. prompt.at = "write" /\ Agrees(pending, prompt)
  BY Zenon DEF WriterAgrees, Registry
<1>2. /\ r0 \in Requests /\ pending.phase[r0] = "committing"
      /\ ~ Spent(pending, prompt, r0)
  BY <1>1, SpentFacts DEF Deciding
<1> QED BY <1>2 DEF GrantsAreSpent, Grants

(* Every step keeps it so. *)
LEMMA SpentStep ==
  /\ Types /\ Registry /\ WriterAgrees /\ StoreIsOrdered /\ GrantsAreSpent /\ GrantStep
  /\ StoreStep /\ (restored' = restored \/ Restarts) /\ RevokerOwners /\ Forward
  => GrantsAreSpent'

(* Once spent, always spent. *)
<1>SpentStays.
    ASSUME Forward
    PROVE \A r \in Requests :
            /\ Spent(pending, prompt, r) => Spent(pending', prompt', r)
            /\ Spent(pending, prompt, r) /\ r = prompt'.req /\ prompt'.at = "abort" =>
                 r = r0 /\ prompt.at = "abort"
  BY <1>SpentStays DEF Forward, Moves, r0

(* Grants come from spent requests. *)
<1>GrantsSpent.
    ASSUME Types, Registry, WriterAgrees, StoreIsOrdered, GrantsAreSpent, GrantStep, Forward
    PROVE \A r \in Grants' : Spent(pending', prompt', r) /\ ~ (r = r0' /\ prompt'.at = "abort")
  <2> USE <1>GrantsSpent
  <2> SUFFICES ASSUME NEW r \in Grants'
               PROVE Spent(pending', prompt', r) /\ ~ (r = prompt'.req /\ prompt'.at = "abort")
    BY Zenon DEF r0
  <2>0. Grants \subseteq Requests /\ UNION engine.disk \subseteq Requests
    BY DEF Types, EngineState, Grants
  <2>1. CASE r \in Grants
    <3>1. r \in Requests /\ Spent(pending, prompt, r) /\ ~ (r = r0 /\ prompt.at = "abort")
      BY <2>0, <2>1 DEF GrantsAreSpent
    <3> QED BY <3>1, <1>SpentStays, Zenon
  <2>2. CASE r \notin Grants /\ Reloads
    <3>1. prompt'.at = "off" /\ r \in UNION engine.disk
      BY <2>2, RoundLeaves DEF Reloads, Grants
    <3>2. r \in Requests /\ (Spent(pending, prompt, r) \/ r \in Writing)
      BY <2>0, <3>1 DEF GrantsAreSpent
    <3>3. pending.phase[r] # "unused"
      BY <3>2, SpentFacts, WritingFacts DEF Writing, Registry
    <3>4. pending'.phase[r] = "over"
      BY <2>2, <3>2, <3>3, RoundLeaves DEF Reloads
    <3> QED BY <3>1, <3>4 DEF Spent
  <2>3. CASE r \notin Grants /\ ~ Reloads
    <3>1. r = r0 /\ prompt'.at = "finish" /\ prompt'.req = r0
      BY <2>3 DEF GrantStep, Shrinks, GrantsOnce, GrantsSession, GrantsAlways, Keeps, Grants
    <3> QED BY <3>1 DEF Spent
  <2> QED BY <2>1, <2>2, <2>3

(* So do the removals that are owed, and those that were reported. *)
<1>RemovalsSpent.
    ASSUME Types, Registry, WriterAgrees, GrantsAreSpent, StoreStep, RevokerOwners, Forward
    PROVE \A r \in engine'.removals \cup confirmed' \cup revoker'.removed : Spent(pending', prompt', r)
  <2> USE <1>RemovalsSpent
  <2>0. /\ engine.remembered \subseteq Requests /\ engine.removals \subseteq Requests
        /\ confirmed \subseteq Requests /\ revoker.removed \subseteq Requests
    BY DEF Types, EngineState
  <2>1. \A r \in engine.remembered \cup engine.removals \cup confirmed \cup revoker.removed :
          Spent(pending', prompt', r)
    BY <2>0, <1>SpentStays, Zenon DEF GrantsAreSpent, Grants
  <2>2. \A r \in engine'.removals : r \in engine.removals \cup engine.remembered
                                     \/ (r = prompt'.req /\ prompt'.at \in {"finish", "abort"})
    <3>1. CASE Rests \/ Revokes
      BY <3>1 DEF Rests, Keeps, Revokes, Removes
    <3>2. CASE Proposes \/ Flushes \/ Renames \/ Syncs
      BY <3>2 DEF Proposes, Flushes, Locks, Renames, Syncs, Writes
    <3>3. CASE Fails \/ Flushed
      BY <3>3 DEF Fails, Flushed
    <3>4. CASE Publishes
      BY <3>4 DEF Publishes, Publication
    <3>5. CASE Restarts \/ Resumes
      BY <3>5 DEF Restarts, Resumes, Loads
    <3> QED BY <3>1, <3>2, <3>3, <3>4, <3>5, Zenon DEF StoreStep
  <2>3. \A r \in engine'.removals : Spent(pending', prompt', r)
    BY <2>1, <2>2 DEF Spent
  <2>4. revoker'.removed \subseteq revoker.removed \cup engine.remembered
    <3>1. CASE revoker' = revoker
      BY <3>1
    <3>2. CASE RevokeAllPending \/ RoundEnds \/ RevokerDone
      BY <3>2 DEF RevokeAllPending, RoundEnds, RevokerDone, NotRevoking
    <3>3. CASE RevokeAllOnce \/ RevokeAllChecks \/ RevokeAllEngine
      BY <3>3, Zenon DEF RevokeAllOnce, RevokeAllChecks, RevokeAllEngine, Types
    <3>4. CASE \E r \in Requests : RevokeEntry(r)
      BY <3>4 DEF RevokeEntry, NotRevoking
    <3>5. CASE WriteFails \/ SyncFails
      BY <3>5 DEF WriteFails, SyncFails, WriteAbandoned, NotRevoking
    <3> QED BY <3>1, <3>2, <3>3, <3>4, <3>5, RoundsEnd, Zenon DEF RevokerOwners, RevokerSteps
  <2>5. confirmed' \subseteq confirmed \cup revoker.removed
    BY DEF RevokerOwners, RevokerDone
  <2> QED BY <2>1, <2>3, <2>4, <2>5

(* And the entries of the store, but for the one being written. *)
<1>EntriesSpent.
    ASSUME Types, Registry, WriterAgrees, StoreIsOrdered, GrantsAreSpent, StoreStep, Forward
    PROVE \A r \in (UNION engine'.disk) \cup engine'.proposal :
            Spent(pending', prompt', r) \/ r \in Writing'
  <2> USE <1>EntriesSpent
  <2> DEFINE Entries0 == (UNION engine.disk) \cup engine.proposal
             Entries1 == (UNION engine'.disk) \cup engine'.proposal
  <2>0. /\ engine.remembered \subseteq Requests /\ Entries0 \subseteq Requests
        /\ engine.file \in engine.disk
    <3>1. /\ engine.disk \in SUBSET SUBSET Requests /\ engine.proposal \in SUBSET Requests
          /\ engine.remembered \in SUBSET Requests /\ engine.file \in engine.disk
      BY Zenon DEF Types, EngineState, StoreIsOrdered
    <3> QED BY <3>1
  <2>1. /\ \A r \in engine.remembered : Spent(pending', prompt', r)
        /\ \A r \in Entries0 : Spent(pending', prompt', r) \/ r \in Writing
    BY <2>0, <1>SpentStays, Zenon DEF GrantsAreSpent, Grants
  <2> SUFFICES ASSUME NEW r \in Entries1
               PROVE Spent(pending', prompt', r) \/ r \in Writing'
    BY Zenon
  <2>2. CASE Rests \/ Revokes
    <3>1. r \in Entries0 /\ engine'.writer = engine.writer
      BY <2>2 DEF Rests, Keeps, Revokes, Removes
    <3>2. engine.writer = "commit" => prompt' = prompt
      BY <2>2, Zenon DEF Rests, Revokes, StaysPut, WriterAgrees
    <3> QED BY <2>1, <3>1, <3>2 DEF Writing, r0
  <2>3. CASE Proposes
    <3>1. engine.writer = "none" /\ engine'.writer = "commit" /\ prompt'.req = prompt.req
      BY <2>3 DEF Proposes, Locks, r0
    <3>2. r \in Entries0 \cup engine.remembered \cup {prompt.req}
      <4>1. /\ engine'.disk = engine.disk
            /\ engine'.proposal = (engine.remembered \ Same(r0)) \cup {prompt.req}
        BY <2>3, Zenon DEF Proposes, Locks, Proposal, r0
      <4> QED BY <4>1
    <3> QED BY <2>1, <3>1, <3>2 DEF Writing, r0
  <2>4. CASE Flushes
    <3>1. engine.writer = "none" /\ r \in Entries0 \cup engine.remembered
      <4>1. /\ engine'.disk = engine.disk /\ engine'.proposal = engine.remembered
            /\ engine.writer = "none"
        BY <2>4, Zenon DEF Flushes, Locks
      <4> QED BY <4>1
    <3> QED BY <2>1, <3>1 DEF Writing
  <2>5. CASE Renames \/ Syncs
    <3>1. r \in Entries0 /\ engine'.writer = engine.writer /\ prompt' = prompt
      <4>1. /\ engine'.disk = engine.disk \cup {engine.proposal} \/ engine'.disk = {engine.file}
            /\ engine'.proposal = engine.proposal /\ engine'.writer = engine.writer
            /\ prompt' = prompt
        BY <2>5, Zenon DEF Renames, Syncs, Writes
      <4> QED BY <2>0, <4>1
    <3> QED BY <2>1, <3>1 DEF Writing, r0
  <2>6. CASE Fails \/ Flushed \/ Publishes
    <3>1. r \in Entries0
      BY <2>6 DEF Fails, Flushed, Publishes, Publication, Unlocks
    <3>2. engine.writer = "commit" => prompt'.req = r0 /\ prompt'.at \in {"finish", "abort"}
      BY <2>6 DEF Fails, Flushed, Publishes
    <3> QED BY <2>1, <3>1, <3>2 DEF Writing, Spent
  <2>7. CASE Restarts
    <3>1. r \in Entries0 /\ RoundEnds
      BY <2>0, <2>7 DEF Restarts, Loads
    <3>2. r \in Requests /\ (Spent(pending, prompt, r) \/ r \in Writing)
      BY <2>0, <3>1 DEF GrantsAreSpent
    <3>3. pending.phase[r] # "unused"
      BY <3>2, SpentFacts, WritingFacts DEF Writing, Registry
    <3> QED BY <3>1, <3>2, <3>3, RoundLeaves DEF Spent
  <2>8. CASE Resumes
    <3>1. r \in Entries0 \cup engine.remembered /\ engine.writer = "none"
      BY <2>0, <2>8 DEF Resumes, Loads
    <3> QED BY <2>1, <3>1 DEF Writing
  <2> QED BY <2>2, <2>3, <2>4, <2>5, <2>6, <2>7, <2>8, Zenon DEF StoreStep

<1> QED
  <2> SUFFICES ASSUME Types, Registry, WriterAgrees, StoreIsOrdered, GrantsAreSpent,
                      GrantStep, StoreStep, restored' = restored \/ Restarts, RevokerOwners, Forward
               PROVE GrantsAreSpent'
    BY Zenon
  <2>1. \A r \in restored' : pending'.phase[r] = "over"
    <3>1. CASE restored' = restored
      BY <3>1, Zenon DEF Forward, Moves, GrantsAreSpent, Types
    <3>2. CASE Restarts
      <4> SUFFICES ASSUME NEW r \in UNION engine.disk PROVE pending'.phase[r] = "over"
        BY <3>2, Zenon DEF Restarts
      <4>1. r \in Requests /\ (Spent(pending, prompt, r) \/ r \in Writing)
        BY DEF GrantsAreSpent, Types, EngineState
      <4>2. pending.phase[r] # "unused"
        BY <4>1, SpentFacts, WritingFacts DEF Writing, Registry
      <4> QED BY <3>2, <4>1, <4>2, RoundLeaves DEF Restarts
    <3> QED BY <3>1, <3>2
  <2> QED BY <2>1, <1>GrantsSpent, <1>RemovalsSpent, <1>EntriesSpent, Zenon DEF GrantsAreSpent

(* The key of a request that was opened does not change. *)
LEMMA KeyStays ==
  ASSUME Forward, NEW r \in Requests, pending.phase[r] # "unused"
  PROVE Key(pending', r) = Key(pending, r) /\ pending'.phase[r] # "unused"
<1>1. pending'.ask[r] = pending.ask[r] /\ pending'.phase[r] # "unused"
  BY Zenon DEF Forward, Moves
<1> QED BY <1>1, Zenon DEF Key

(* The store is in order after every step. *)
LEMMA OrderedStep ==
  ASSUME Types, Registry, WriterAgrees, StoreIsOrdered, GrantsAreSpent, StoreStep, Forward
  PROVE StoreIsOrdered'
<1>0. engine.stage \in {"idle", "write", "sync", "publish"} /\ engine.proposal \subseteq Requests
  BY DEF Types, EngineState
<1>1. engine.writer = "commit" =>
        /\ r0 \in Requests /\ pending.phase[r0] # "unused"
        /\ r0 \notin engine.remembered \cup engine.removals
  BY WritingFacts
<1>2. CASE Rests \/ Revokes
  <2>1. /\ engine'.writer = engine.writer /\ engine'.stage = engine.stage
        /\ engine'.proposal = engine.proposal /\ engine'.file = engine.file
        /\ engine'.disk = engine.disk
    BY <1>2, Zenon DEF Rests, Keeps, Revokes, Removes
  <2>2. /\ engine'.remembered \cup engine'.removals = engine.remembered \cup engine.removals
        /\ engine'.removals \cap engine'.remembered = {}
    BY <1>2 DEF Rests, Keeps, Revokes, Removes, StoreIsOrdered
  <2>3. engine.writer = "commit" => prompt' = prompt
    BY <1>2, Zenon DEF Rests, Revokes, StaysPut, WriterAgrees
  <2>4. engine.writer = "commit" =>
          \A q \in engine.proposal : q # r0 => Key(pending', q) # Key(pending', r0)
    <3> SUFFICES ASSUME engine.writer = "commit", NEW q \in engine.proposal, q # r0
                 PROVE Key(pending', q) # Key(pending', r0)
      OBVIOUS
    <3>1. q \in Requests /\ pending.phase[q] # "unused"
      <4>1. q \in Requests /\ (Spent(pending, prompt, q) \/ q \in Writing)
        BY <1>0 DEF GrantsAreSpent
      <4> QED BY <4>1, SpentFacts DEF Registry, Writing
    <3>2. Key(pending', q) = Key(pending, q) /\ Key(pending', r0) = Key(pending, r0)
      BY <1>1, <3>1, KeyStays, Zenon
    <3> QED BY <3>2 DEF StoreIsOrdered
  <2>5. Writing' = Writing
    BY <2>1, <2>3 DEF Writing, r0
  <2> QED BY <2>1, <2>2, <2>3, <2>4, <2>5 DEF StoreIsOrdered, r0
<1>3. CASE Proposes
  <2>1. /\ engine.stage = "idle" /\ engine'.stage = "write" /\ engine'.writer = "commit"
        /\ engine'.proposal = (engine.remembered \ Same(r0)) \cup {r0}
        /\ engine'.file = engine.file /\ engine'.disk = engine.disk
        /\ engine'.remembered = engine.remembered /\ engine'.removals = engine.removals
        /\ prompt'.req = prompt.req /\ pending' = pending
    BY <1>3, Zenon DEF Proposes, Locks, Proposal, WriterAgrees, r0
  <2>2. \A q \in engine.remembered \ Same(r0) : Key(pending, q) # Key(pending, r0)
    <3> SUFFICES ASSUME NEW q \in engine.remembered \ Same(r0)
                 PROVE Key(pending, q) # Key(pending, r0)
      OBVIOUS
    <3>1. q \in Requests /\ pending.phase[q] # "unused"
      BY SpentFacts DEF Registry, GrantsAreSpent, Grants, Types, EngineState
    <3> QED BY <3>1 DEF Same, Opened, InPhase
  <2>3. Writing' = {r0}
    BY <2>1 DEF Writing, r0
  <2> QED BY <2>1, <2>2, <2>3 DEF StoreIsOrdered, r0
<1>4. CASE Flushes
  <2>1. /\ engine.stage = "idle" /\ engine'.stage = "write" /\ engine'.writer \notin {"commit", "none"}
        /\ engine'.proposal = engine.remembered
        /\ engine'.file = engine.file /\ engine'.disk = engine.disk
        /\ engine'.remembered = engine.remembered /\ engine'.removals = engine.removals
    BY <1>4 DEF Flushes, Locks, WriterAgrees, Writers
  <2> QED BY <2>1 DEF StoreIsOrdered, Writing
<1>5. CASE Fails
  <2>1. /\ engine'.stage = "idle" /\ engine'.writer = "none" /\ engine'.proposal = {}
        /\ engine'.file = engine.file /\ engine'.disk = engine.disk
        /\ engine'.remembered = engine.remembered
        /\ engine'.removals = IF engine.stage = "sync" /\ engine.writer = "commit"
                                THEN engine.removals \cup {r0} ELSE engine.removals
    BY <1>5, Zenon DEF Fails, Unlocks
  <2>2. engine.file \subseteq engine'.remembered \cup engine'.removals
    BY <1>5, <2>1, Zenon DEF Fails, StoreIsOrdered, Writing
  <2>3. engine'.removals \cap engine'.remembered = {}
    BY <1>1, <2>1 DEF StoreIsOrdered
  <2> QED BY <2>1, <2>2, <2>3, Zenon DEF StoreIsOrdered
<1>6. CASE Renames \/ Syncs
  <2>1. /\ engine'.writer = engine.writer /\ engine'.proposal = engine.proposal
        /\ engine'.remembered = engine.remembered /\ engine'.removals = engine.removals
        /\ prompt' = prompt /\ pending' = pending
        /\ engine'.file = engine.proposal /\ engine'.file \in engine'.disk
        /\ \/ engine'.stage = "sync"
           \/ engine'.stage = "publish" /\ engine'.disk = {engine'.file}
    BY <1>6 DEF Renames, Syncs, Writes, StoreIsOrdered
  <2>2. Writing' = Writing /\ r0' = r0
    BY <2>1 DEF Writing, r0
  <2> QED BY <2>1, <2>2 DEF StoreIsOrdered
<1>7. CASE Flushed
  <2>1. /\ engine'.stage = "idle" /\ engine'.writer = "none" /\ engine'.proposal = {}
        /\ engine'.file = engine.file /\ engine'.disk = engine.disk
        /\ engine'.remembered = engine.remembered
        /\ engine'.removals = engine.removals \cap engine.proposal
        /\ engine.file = engine.proposal /\ engine.writer # "commit"
    BY <1>7 DEF Flushed, Unlocks, StoreIsOrdered
  <2> QED BY <2>1, Zenon DEF StoreIsOrdered, Writing
<1>8. CASE Publishes
  <2>1. /\ engine'.stage = "idle" /\ engine'.writer = "none" /\ engine'.proposal = {}
        /\ engine'.file = engine.file /\ engine'.disk = engine.disk
        /\ engine.file = engine.proposal /\ engine.writer = "commit"
    BY <1>8 DEF Publishes, Publication, Unlocks, StoreIsOrdered
  <2>2. engine.proposal \cap Same(r0) \subseteq {r0}
    BY <2>1 DEF StoreIsOrdered, Same
  <2>3. /\ engine.file \subseteq engine'.remembered \cup engine'.removals
        /\ engine'.removals \cap engine'.remembered = {}
    <3>1. CASE /\ engine'.remembered = engine.remembered
               /\ engine'.removals = (engine.removals \cap engine.proposal) \cup {r0}
      BY <1>1, <2>1, <3>1 DEF StoreIsOrdered, Writing
    <3>2. CASE /\ engine'.remembered = (engine.remembered \ Same(r0)) \cup {r0}
               /\ engine'.removals = engine.removals \cap engine.proposal
      BY <1>1, <2>1, <2>2, <3>2 DEF StoreIsOrdered, Writing
    <3> QED BY <1>8, <3>1, <3>2, Zenon DEF Publishes, Publication
  <2> QED BY <2>1, <2>3 DEF StoreIsOrdered
<1>9. CASE Restarts \/ Resumes
  <2>1. \E content, disk, carried : Loads(engine', content, disk, Absent, carried) /\ content \in disk
    BY <1>9, Zenon DEF Restarts, Resumes, StoreIsOrdered
  <2> QED BY <2>1 DEF Loads, StoreIsOrdered
<1> QED BY <1>2, <1>3, <1>4, <1>5, <1>6, <1>7, <1>8, <1>9, Zenon DEF StoreStep

-----------------------------------------------------------------------------
(* The person's revocation and the store.                                  *)

RevocationsHold ==
  /\ (revoker.removed \cup confirmed) \cap engine.remembered = {}
  /\ (revoker.removed \cup confirmed) \cap (UNION engine.disk) \subseteq engine.removals
  /\ confirmed \cap engine.removals = {}
  /\ revoker.at \in {"idle", "once", "engine"} => revoker.removed = {}
  /\ Flushing(engine, "revoker") => revoker.at = "flush"
  /\ engine.writer = "revoker" =>
       "revoker" \notin engine.wants /\ revoker.removed \cap engine.proposal = {}
  /\ revoker.at = "flush" /\ ~ Flushing(engine, "revoker") =>
       revoker.removed \cap engine.removals = {}

(* A step that is none of the revocation's. *)
FlushKept ==
  /\ "revoker" \in engine'.wants <=> "revoker" \in engine.wants
  /\ engine'.writer = "revoker" => engine.writer = "revoker"
  /\ engine.writer = "revoker" /\ engine'.writer # "revoker" => Flushed

NotRevocation == revoker' = revoker /\ confirmed' = confirmed /\ FlushKept

RevocationStep ==
  \/ RevokeAllPending \/ RevokerSteps \/ \E r \in Requests : RevokeEntry(r)
  \/ BeginFlush("revoker")
  \/ (WriteFails \/ SyncFails) /\ engine.writer = "revoker"
  \/ Restart \/ ResumeRound

(* Every step respects the revocation. *)
LEMMA RevocationsStep ==
  /\ Types /\ Registry /\ WriterAgrees /\ StoreIsOrdered /\ GrantsAreSpent /\ RevocationsHold
  /\ StoreStep /\ [Next]_vars
  => RevocationsHold'

(* The steps of the writer that are none of the revocation's. *)
<1>OtherWrites.
    ASSUME Types, Registry, WriterAgrees, StoreSteps, ~ RevocationStep
    PROVE NotRevocation
  <2> USE <1>OtherWrites
  <2>1. engine \in EngineState
    BY Zenon DEF Types
  <2>2. CASE \E w \in Writers : BeginFlush(w)
    <3>1. PICK w \in Writers : BeginFlush(w)
      BY <2>2
    <3>2. /\ engine.writer = "none" /\ engine' = StartFlush(engine, w) /\ w # "revoker"
          /\ revoker' = revoker /\ confirmed' = confirmed
      BY <3>1, Zenon DEF BeginFlush, RevocationStep, world, history
    <3>3. \/ Locks(engine, engine', w, engine.remembered)
          \/ Skips(engine, engine', w)
      BY <2>1, <3>2, FlushEffect, Zenon
    <3> QED BY <3>2, <3>3 DEF Locks, Skips, Keeps, NotRevocation, FlushKept
  <2>3. CASE WriteFails \/ SyncFails
    <3>1. /\ engine.writer # "revoker" /\ revoker' = revoker /\ confirmed' = confirmed
      BY <2>3, Zenon DEF WriteFails, SyncFails, WriteAbandoned, RevocationStep, history
    <3>2. engine' = Unlock(engine) \/ (engine.writer = "commit" /\ engine' = NotDurable(engine, r0))
      BY <2>3, Zenon DEF WriteFails, SyncFails
    <3>3. engine.writer = "commit" => r0 \in Requests
      BY DEF WriterAgrees, Registry, Agrees, Deciding, r0
    <3>4. Unlocks(engine, engine')
      BY <2>1, <3>2, <3>3, UnlockEffect, NotDurableEffect, Zenon
    <3> QED BY <3>1, <3>4 DEF Unlocks, NotRevocation, FlushKept
  <2>4. CASE WriteRenames \/ WriteSyncs
    <3>1. revoker' = revoker /\ confirmed' = confirmed /\ (engine' = Rename(engine) \/ engine' = Sync(engine))
      BY <2>4, Zenon DEF WriteRenames, WriteSyncs, world, history
    <3>2. Writes(engine, engine')
      BY <2>1, <3>1, RenameEffect, SyncEffect, Zenon
    <3> QED BY <3>1, <3>2 DEF Writes, NotRevocation, FlushKept
  <2>5. CASE FinishFlush
    <3>1. /\ engine.stage = "publish" /\ engine.writer # "commit" /\ revoker' = revoker
          /\ engine' = Unlock(Written(engine)) /\ pending' = pending /\ prompt' = prompt
          /\ confirmed' = confirmed
      BY <2>5, Zenon DEF FinishFlush, world, history
    <3>2. /\ Unlocks(engine, engine') /\ engine'.remembered = engine.remembered
          /\ engine'.removals = engine.removals \cap engine.proposal
      BY <2>1, <3>1, WrittenEffect, Zenon
    <3>3. Flushed
      BY <3>1, <3>2, Zenon DEF Flushed
    <3> QED BY <3>1, <3>2, <3>3 DEF Unlocks, NotRevocation, FlushKept
  <2> QED BY <2>2, <2>3, <2>4, <2>5, Zenon DEF StoreSteps

(* The commit's. *)
<1>CommitIsOther.
    ASSUME Types, Registry, WriterAgrees, CommitSteps
    PROVE FlushKept
  <2> USE <1>CommitIsOther
  <2>1. engine \in EngineState
    BY Zenon DEF Types
  <2>0. prompt.at \in Deciding \cup {"revoke"} => r0 \in Requests
    BY DEF Registry, Agrees, r0
  <2>2. CASE engine' = engine
    BY <2>2 DEF FlushKept
  <2>3. CASE PublishSession /\ engine' # engine
    <3>1. engine' = CommitSession(engine, r0, Same(r0)) /\ prompt.at = "session"
      BY <2>3, Zenon DEF PublishSession
    <3>2. r0 \in Requests
      BY <2>0, <3>1 DEF Deciding
    <3>3. Keeps(engine, engine') /\ Joins(engine, engine', r0, Same(r0))
      BY <2>1, <3>1, <3>2, SessionEffect, Zenon
    <3> QED BY <3>3 DEF Keeps, Joins, FlushKept
  <2>4. CASE ProposeAlways /\ engine' # engine
    <3>1. /\ engine' = Lock(engine, "commit", Proposal(engine, r0, Same(r0)))
          /\ engine.writer = "none" /\ prompt.at = "always"
      BY <2>4, Zenon DEF ProposeAlways
    <3>2. r0 \in Requests
      BY <2>0, <3>1 DEF Deciding
    <3>3. /\ Proposal(engine, r0, Same(r0)) \in SUBSET Requests /\ "commit" \in Writers
          /\ "commit" \notin engine.wants
      BY <2>1, <3>2 DEF Proposal, EngineState, Writers
    <3>4. Locks(engine, engine', "commit", Proposal(engine, r0, Same(r0)))
      BY <2>1, <3>1, <3>3, LockEffect, Zenon
    <3> QED BY <3>1, <3>4 DEF Locks, FlushKept
  <2>5. CASE PublishAlways
    <3>1. /\ engine' = PublishRemembered(engine, r0, Same(r0), pending.ask[r0].lair)
          /\ engine.writer = "commit"
      BY <2>5, Zenon DEF PublishAlways
    <3>2. r0 \in Requests
      BY <2>0, <3>1 DEF WriterAgrees, Deciding
    <3>3. Publication(engine, engine', r0, Same(r0), pending.ask[r0].lair)
      BY <2>1, <3>1, <3>2, PublishEffect, Zenon
    <3> QED BY <3>1, <3>3 DEF Publication, Unlocks, FlushKept
  <2>6. CASE RevokeCommitted
    <3>1. \/ engine' = Want(Remove(engine, {r0}), "committer")
          \/ engine' = Remove(engine, {r0})
      BY <2>6, Zenon DEF RevokeCommitted
    <3>2. "committer" \in Waiters
      BY DEF Waiters, Writers
    <3>3. CASE engine' = Remove(engine, {r0})
      <4>1. Removes(engine, engine', {r0}) /\ engine'.wants = engine.wants
        BY <2>1, <3>3, RemoveEffect, Zenon
      <4> QED BY <4>1 DEF Removes, FlushKept
    <3>4. CASE engine' = Want(Remove(engine, {r0}), "committer")
      <4>1. Removes(engine, engine', {r0}) /\ Wanted(engine, engine', "committer")
        BY <2>1, <3>2, <3>4, RemoveAndWant, Zenon
      <4> QED BY <4>1 DEF Removes, Wanted, FlushKept
    <3> QED BY <3>1, <3>3, <3>4
  <2> QED BY <2>2, <2>3, <2>4, <2>5, <2>6, Zenon DEF CommitSteps, CheckCommit, PublishOnce,
             FinishGrant, FinishError, CommitterDone

(* Every other step's. *)
<1>Revocations.
    ASSUME Types, Registry, WriterAgrees, [Next]_vars
    PROVE NotRevocation \/ RevocationStep
  <2> USE <1>Revocations
  <2>1. engine \in EngineState
    BY Zenon DEF Types
  <2> SUFFICES ASSUME ~ RevocationStep PROVE NotRevocation
    OBVIOUS
  <2>2. CASE StoreSteps
    BY <2>2, <1>OtherWrites, Zenon
  <2> SUFFICES ASSUME ~ StoreSteps PROVE NotRevocation
    BY <2>2
  <2>3. revoker' = revoker /\ confirmed' = confirmed
    <3>1. RevokerOwners /\ ~ WriteFails /\ ~ SyncFails
      BY Ownership, Zenon DEF StoreSteps
    <3> QED BY <3>1, Zenon DEF RevokerOwners, RevocationStep, RevokerSteps, Rounds
  <2>4. CASE engine' = engine
    BY <2>3, <2>4 DEF NotRevocation, FlushKept
  <2>5. CASE CommitSteps
    BY <2>3, <2>5, <1>CommitIsOther, Zenon DEF NotRevocation
  <2>6. CASE engine' = Want(engine, "task")
    <3>1. "task" \in Waiters
      BY DEF Waiters, Writers
    <3>2. Keeps(engine, engine') /\ engine'.wants = engine.wants \cup {"task"}
      BY <2>1, <2>6, <3>1, WantEffect, Zenon
    <3> QED BY <2>3, <3>2 DEF Keeps, NotRevocation, FlushKept
  <2>7. CASE EndLairEngine
    <3> DEFINE gone == OfLair(ending.lair)
               removed == EndLair(engine, gone, ending.lair)
    <3>1. engine' = removed \/ engine' = Want(removed, "task")
      BY <2>7, Zenon DEF EndLairEngine
    <3>2. removed = EndLair(engine, gone, ending.lair) /\ ending.lair \in Lair \cup {NoLair}
      BY Zenon DEF Types
    <3> HIDE DEF gone, removed
    <3>3. Removes(engine, removed, gone) /\ Leaves(engine, removed, ending.lair)
      BY <2>1, <3>2, EndLairEffect, Zenon
    <3>4. removed \in EngineState /\ "task" \in Waiters
      BY <3>3 DEF Removes, Waiters, Writers
    <3>5. CASE engine' = removed
      BY <2>3, <3>3, <3>5 DEF Removes, Leaves, NotRevocation, FlushKept
    <3>6. CASE engine' = Want(removed, "task")
      <4>1. Keeps(removed, engine') /\ engine'.wants = removed.wants \cup {"task"}
        BY <3>4, <3>6, WantEffect, Zenon
      <4> QED BY <2>3, <3>3, <4>1 DEF Removes, Leaves, Keeps, NotRevocation, FlushKept
    <3> QED BY <3>1, <3>5, <3>6
  <2>8. CASE Elsewhere
    <3>1. \/ \E c \in Call : (\E a \in Asking[c] : CallEnter(c, a)) \/ CallReturns(c) \/ CallDropped(c)
          \/ \E r \in Requests : OnceExpires(r)
          \/ \E l \in Lair : LairLeaves(l)
          \/ EndLairOnce \/ EndLairEngine
          \/ FenceWaits \/ FenceRises \/ FlushAtFence \/ FenceLifts
          \/ UNCHANGED vars
      BY <2>8, Zenon DEF Elsewhere, RevocationStep, StoreSteps
    <3>2. engine' = engine \/ engine' = Want(engine, "task") \/ EndLairEngine
      BY <3>1, Zenon DEF CallEnter, CallReturns, CallDropped, OnceExpires, LairLeaves,
         EndLairOnce, FenceWaits, FenceRises, FlushAtFence, FenceLifts, vars
    <3> QED BY <2>4, <2>6, <2>7, <3>2
  <2>9. CASE Enders
    <3>1. engine' = engine \/ engine' = Want(engine, "task")
      BY <2>9, Zenon DEF Enders, EndRequest, RevokeAllPending, EndLairPending, FenceEndsPending,
         Shutdown
    <3> QED BY <2>4, <2>6, <3>1
  <2>10. CASE Showers
    <3>1. engine' = engine
      BY <2>10, Zenon DEF Showers, EnsurePrompter, TakePrompt, ShowPrompt, PromptCloses,
         PersonDenies, PersonGrants
    <3> QED BY <2>4, <3>1
  <2>11. CASE \E c \in Call : AdmitStep(c)
    <3>1. PICK c \in Call : AdmitStep(c)
      BY <2>11
    <3>2. PICK pinned \in BOOLEAN, denials \in SUBSET pending.denials,
               cooldowns \in SUBSET pending.cooldowns : CallAdmit(c, pinned, denials, cooldowns)
      BY <3>1, Zenon DEF AdmitStep
    <3>3. engine' = engine
      BY <3>2, Zenon DEF CallAdmit
    <3> QED BY <2>4, <3>3
  <2> QED BY <2>5, <2>8, <2>9, <2>10, <2>11, StepKinds, Zenon DEF StoreSteps, RevocationStep

(* A step that is none of the revocation's leaves it in order. *)
<1>RevocationRests.
    ASSUME Types, Registry, WriterAgrees, StoreIsOrdered, GrantsAreSpent, RevocationsHold,
           StoreStep, NotRevocation, ~ Restarts, ~ Resumes
    PROVE RevocationsHold'
  <2> USE <1>RevocationRests
  <2> USE DEF RevocationsHold, Flushing
  <2>0. /\ revoker' = revoker /\ confirmed' = confirmed
        /\ "revoker" \in engine'.wants <=> "revoker" \in engine.wants
        /\ engine'.writer = "revoker" => engine.writer = "revoker"
        /\ engine.writer = "revoker" /\ engine'.writer # "revoker" => Flushed
    BY Zenon DEF NotRevocation, FlushKept
  <2>1. engine.writer = "commit" => r0 \notin confirmed \cup revoker.removed
    BY WritingFacts
  <2>2. CASE Rests
    BY <2>0, <2>2 DEF Rests, Keeps
  <2>3. CASE Revokes
    BY <2>0, <2>3 DEF Revokes, Removes
  <2>4. CASE Proposes \/ Flushes
    <3>1. /\ engine.writer = "none" /\ engine'.writer # "revoker"
          /\ engine'.remembered = engine.remembered /\ engine'.removals = engine.removals
          /\ engine'.disk = engine.disk
      BY <2>0, <2>4 DEF Proposes, Flushes, Locks
    <3> QED BY <2>0, <3>1
  <2>5. CASE Fails
    <3>1. engine.writer # "revoker"
      BY <2>0, <2>5 DEF Fails, Flushed, Unlocks
    <3>2. /\ engine'.writer = "none" /\ engine'.remembered = engine.remembered
          /\ engine'.disk = engine.disk
          /\ \/ engine'.removals = engine.removals
             \/ engine.writer = "commit" /\ engine'.removals = engine.removals \cup {r0}
      BY <2>5 DEF Fails, Unlocks
    <3> QED BY <2>0, <2>1, <3>1, <3>2, Zenon
  <2>6. CASE Renames
    <3>1. /\ engine'.writer = engine.writer /\ engine'.remembered = engine.remembered
          /\ engine'.removals = engine.removals /\ engine'.proposal = engine.proposal
          /\ engine'.disk = engine.disk \cup {engine.proposal}
      BY <2>6, Zenon DEF Renames, Writes
    <3>2. (revoker.removed \cup confirmed) \cap engine.proposal \subseteq engine.removals
      BY <2>1 DEF StoreIsOrdered, Writing
    <3>3. UNION engine'.disk = (UNION engine.disk) \cup engine.proposal
      BY <3>1
    <3>4. (revoker.removed \cup confirmed) \cap (UNION engine'.disk) \subseteq engine.removals
      BY <3>2, <3>3
    <3> QED BY <2>0, <3>1, <3>4
  <2>7. CASE Syncs
    <3>1. /\ engine'.writer = engine.writer /\ engine'.remembered = engine.remembered
          /\ engine'.removals = engine.removals /\ engine'.proposal = engine.proposal
          /\ engine'.disk = {engine.file} /\ engine.file \in engine.disk
      BY <2>7, Zenon DEF Syncs, Writes, StoreIsOrdered
    <3>2. UNION engine'.disk \subseteq UNION engine.disk
      BY <3>1
    <3> QED BY <2>0, <3>1, <3>2
  <2>8. CASE Flushed \/ Publishes
    <3>1. /\ engine'.writer = "none" /\ engine'.disk = engine.disk /\ engine.writer # "none"
          /\ engine.disk = {engine.file} /\ engine.file = engine.proposal
      BY <2>8, Zenon DEF Flushed, Publishes, Publication, Unlocks, StoreIsOrdered, WriterAgrees
    <3>2. UNION engine'.disk = engine.proposal /\ UNION engine.disk = engine.proposal
      BY <3>1
    <3>3. CASE Flushed
      <4>1. /\ engine'.remembered = engine.remembered
            /\ engine'.removals = engine.removals \cap engine.proposal
        BY <3>3, Zenon DEF Flushed
      <4> QED BY <2>0, <3>1, <3>2, <4>1
    <3>4. CASE Publishes
      <4>1. /\ engine.writer = "commit"
            /\ engine'.remembered \subseteq engine.remembered \cup {r0}
            /\ engine.removals \cap engine.proposal \subseteq engine'.removals
            /\ engine'.removals \subseteq engine.removals \cup {r0}
        BY <3>4, Zenon DEF Publishes, Publication
      <4> QED BY <2>0, <2>1, <3>1, <3>2, <4>1
    <3> QED BY <2>8, <3>3, <3>4
  <2> QED BY <2>2, <2>3, <2>4, <2>5, <2>6, <2>7, <2>8, Zenon DEF StoreStep

(* A new round does not bring back what was reported gone. *)
<1>RevocationsReload.
    ASSUME Types, StoreIsOrdered, RevocationsHold, Restarts \/ Resumes, confirmed' = confirmed
    PROVE RevocationsHold'
  <2> USE <1>RevocationsReload
  <2> USE DEF RevocationsHold, Flushing
  <2>1. revoker'.at = "idle" /\ revoker'.removed = {}
    BY DEF Restarts, Resumes, RoundEnds, NotRevoking
  <2>2. PICK content, disk, carried :
          /\ Loads(engine', content, disk, Absent, carried)
          /\ confirmed \cap content = {} /\ confirmed \cap (UNION disk) = {}
    <3>1. confirmed \cap (UNION engine.disk) = {} /\ confirmed \cap engine.remembered = {}
      OBVIOUS
    <3>2. confirmed \cap engine.file = {}
      BY <3>1 DEF StoreIsOrdered
    <3>3. confirmed \cap (UNION {engine.remembered}) = {}
      BY <3>1
    <3>4. \A content \in engine.disk : confirmed \cap content = {} /\ confirmed \cap (UNION {content}) = {}
      BY <3>1
    <3> QED BY <3>1, <3>2, <3>3, <3>4, Zenon DEF Restarts, Resumes
  <2>3. /\ engine'.writer = "none" /\ engine'.wants = {} /\ engine'.disk = disk
        /\ engine'.remembered \subseteq content /\ engine'.removals \subseteq content
    BY <2>2 DEF Loads
  <2> QED BY <2>1, <2>2, <2>3

(* The revocation's own steps leave it in order. *)
<1>RevocationProceeds.
    ASSUME Types, Registry, WriterAgrees, StoreIsOrdered, GrantsAreSpent, RevocationsHold,
           RevocationStep
    PROVE RevocationsHold'
  <2> USE <1>RevocationProceeds
  <2> USE DEF RevocationsHold, Flushing
  <2>0. engine \in EngineState /\ "revoker" \in Waiters /\ "revoker" \in Writers
    BY DEF Types, Waiters, Writers
  <2>t. revoker \in [at : {"idle", "once", "engine", "check", "flush"},
                     removed : SUBSET Requests, from : Nat]
    BY Zenon DEF Types
  <2>1. CASE RevokeAllPending \/ RevokeAllOnce
    <3>1. /\ engine' = engine /\ confirmed' = confirmed /\ revoker.at \in {"idle", "once"}
          /\ revoker'.at \in {"once", "engine"} /\ revoker'.removed = {}
      BY <2>1, <2>t DEF RevokeAllPending, RevokeAllOnce, history
    <3> QED BY <3>1
  <2>2. CASE RevokeAllEngine
    <3>1. /\ revoker.at = "engine" /\ engine' = Remove(engine, Requests) /\ confirmed' = confirmed
          /\ revoker'.at = "check" /\ revoker'.removed = engine.remembered
      BY <2>2, <2>t DEF RevokeAllEngine
    <3>2. Removes(engine, engine', Requests) /\ engine'.wants = engine.wants
      BY <2>0, <3>1, RemoveEffect, Zenon
    <3>3. /\ engine'.remembered = engine.remembered \ Requests /\ engine'.disk = engine.disk
          /\ engine'.removals = engine.removals \cup (engine.remembered \cap Requests)
          /\ engine'.writer = engine.writer /\ engine'.proposal = engine.proposal
      BY <3>2, Zenon DEF Removes
    <3>4. engine.remembered \subseteq Requests
      BY <2>0 DEF EngineState
    <3> QED BY <3>1, <3>2, <3>3, <3>4
  <2>3. CASE RevokeAllChecks
    <3>1. /\ revoker.at = "check" /\ revoker'.at = "flush" /\ revoker'.removed = revoker.removed
          /\ confirmed' = confirmed
      BY <2>3, <2>t DEF RevokeAllChecks, history
    <3>2. CASE FlushNeeded(engine)
      <4>1. engine' = Want(engine, "revoker")
        BY <2>3, <3>2, Zenon DEF RevokeAllChecks
      <4>2. Keeps(engine, engine') /\ engine'.wants = engine.wants \cup {"revoker"}
        BY <2>0, <4>1, WantEffect, Zenon
      <4> QED BY <3>1, <4>2 DEF Keeps
    <3>3. CASE ~ FlushNeeded(engine)
      <4>1. engine' = engine /\ engine.removals = {}
        BY <2>3, <3>3, Zenon DEF RevokeAllChecks, FlushNeeded
      <4> QED BY <3>1, <4>1, Zenon
    <3> QED BY <3>2, <3>3
  <2>4. CASE RevokerDone
    <3>1. /\ revoker.at = "flush" /\ ~ Flushing(engine, "revoker") /\ engine' = engine
          /\ revoker'.at = "idle" /\ revoker'.removed = {}
          /\ confirmed' = confirmed \cup revoker.removed
      BY <2>4, Zenon DEF RevokerDone, NotRevoking
    <3> QED BY <3>1, Zenon
  <2>5. CASE \E r \in Requests : RevokeEntry(r)
    <3>1. PICK r \in Requests : RevokeEntry(r)
      BY <2>5
    <3>2. /\ revoker.at = "idle" /\ r \in engine.remembered /\ confirmed' = confirmed
          /\ engine' = Want(Remove(engine, {r}), "revoker")
          /\ revoker'.at = "flush" /\ revoker'.removed = {r}
      BY <3>1 DEF RevokeEntry, NotRevoking, history
    <3>3. Removes(engine, engine', {r}) /\ Wanted(engine, engine', "revoker")
      BY <2>0, <3>2, RemoveAndWant, Zenon
    <3>4. /\ engine'.remembered = engine.remembered \ {r} /\ engine'.disk = engine.disk
          /\ engine'.removals = engine.removals \cup (engine.remembered \cap {r})
          /\ engine'.writer = engine.writer /\ "revoker" \in engine'.wants
      BY <3>3 DEF Removes, Wanted
    <3>5. /\ ({r} \cup confirmed) \cap engine'.remembered = {}
          /\ confirmed \cap engine'.removals = {}
      BY <3>2, <3>4, Zenon
    <3>6. ({r} \cup confirmed) \cap (UNION engine'.disk) \subseteq engine'.removals
      BY <3>2, <3>4, Zenon
    <3> QED BY <3>2, <3>4, <3>5, <3>6, Zenon
  <2>6. CASE BeginFlush("revoker")
    <3>1. /\ "revoker" \in engine.wants /\ engine.writer = "none"
          /\ engine' = StartFlush(engine, "revoker") /\ revoker' = revoker /\ confirmed' = confirmed
      BY <2>6, Zenon DEF BeginFlush, world, history
    <3>2. \/ Locks(engine, engine', "revoker", engine.remembered)
          \/ Skips(engine, engine', "revoker")
      <4>1. engine' = StartFlush(engine, "revoker")
        BY <3>1
      <4> QED BY <2>0, <4>1, FlushEffect, Zenon
    <3>3. CASE Locks(engine, engine', "revoker", engine.remembered)
      BY <3>1, <3>3 DEF Locks
    <3>4. CASE Skips(engine, engine', "revoker")
      BY <3>1, <3>4 DEF Skips, Keeps
    <3> QED BY <3>2, <3>3, <3>4
  <2>7. CASE (WriteFails \/ SyncFails) /\ engine.writer = "revoker"
    <3>1. /\ engine' = Unlock(engine) /\ confirmed' = confirmed
          /\ revoker'.at = "idle" /\ revoker'.removed = {}
      BY <2>7 DEF WriteFails, SyncFails, WriteAbandoned, NotRevoking, history
    <3>2. /\ Unlocks(engine, engine') /\ engine'.remembered = engine.remembered
          /\ engine'.removals = engine.removals
      BY <2>0, <3>1, UnlockEffect, Zenon
    <3> QED BY <2>7, <3>1, <3>2 DEF Unlocks
  <2>8. CASE Restart \/ ResumeRound
    <3>1. confirmed' = confirmed
      BY <2>8, Zenon DEF Restart, ResumeRound, history
    <3> QED BY <2>8, <3>1, RestartLoads, ResumeLoads, <1>RevocationsReload, Zenon
  <2> QED BY <2>1, <2>2, <2>3, <2>4, <2>5, <2>6, <2>7, <2>8, Zenon DEF RevocationStep, RevokerSteps

<1> QED
  <2> SUFFICES ASSUME Types, Registry, WriterAgrees, StoreIsOrdered, GrantsAreSpent, RevocationsHold,
                      StoreStep, [Next]_vars
               PROVE RevocationsHold'
    BY Zenon
  <2>1. CASE RevocationStep
    BY <2>1, <1>RevocationProceeds, Zenon
  <2>2. CASE NotRevocation /\ (Restarts \/ Resumes)
    BY <2>2, <1>RevocationsReload, Zenon DEF NotRevocation
  <2>3. CASE NotRevocation /\ ~ Restarts /\ ~ Resumes
    BY <2>3, <1>RevocationRests, Zenon
  <2> QED BY <2>1, <2>2, <2>3, <1>Revocations, Zenon

-----------------------------------------------------------------------------
(* What survives a power failure.                                          *)

(* A file covers an entry it holds, or for whose program and workspace it  *)
(* holds another answer.                                                   *)
Covers(p, content, r) ==
  \/ r \in content
  \/ \E q \in content : /\ q \in Requests /\ q # r /\ p.phase[q] # "unused"
                        /\ Key(p, q) = Key(p, r)

AllCover(p, disk, r) == \A content \in disk : Covers(p, content, r)

Given(p, r) == p.outcome[r] = "granted"
Kept(p, old, r) == Given(p, r) \/ r \notin old

GrantsAreDurable ==
  /\ \A r \in (engine.remembered \cup engine.proposal) \ Writing :
       Kept(pending, restored, r) => AllCover(pending, engine.disk, r)
  /\ engine.writer # "none" =>
       \A r \in engine.remembered :
         Kept(pending, restored, r) => Covers(pending, engine.proposal, r)
  /\ \A r \in engine.file :
       Given(pending, r) \/ (r = r0 /\ prompt.at = "finish") => AllCover(pending, engine.disk, r)

(* Durable grants stay so. *)
LEMMA DurableStep ==
  /\ Types /\ Registry /\ WriterAgrees /\ StoreIsOrdered /\ GrantsAreSpent /\ GrantsAreDurable
  /\ StoreStep /\ (restored' = restored \/ Restarts) /\ Forward /\ Agrees(pending', prompt')
  => GrantsAreDurable'

(* Time does not undo it. *)
<1>CoversStays.
    ASSUME Forward, NEW r \in Requests, pending.phase[r] # "unused"
    PROVE /\ \A content : Covers(pending, content, r) => Covers(pending', content, r)
          /\ \A disk : AllCover(pending, disk, r) => AllCover(pending', disk, r)
  <2> USE <1>CoversStays
  <2>1. \A content : Covers(pending, content, r) => Covers(pending', content, r)
    <3> SUFFICES ASSUME NEW content, Covers(pending, content, r), r \notin content
                 PROVE Covers(pending', content, r)
      BY Zenon DEF Covers
    <3>1. PICK q \in content : /\ q \in Requests /\ q # r /\ pending.phase[q] # "unused"
                               /\ Key(pending, q) = Key(pending, r)
      BY Zenon DEF Covers
    <3>2. /\ pending'.phase[q] # "unused" /\ Key(pending', q) = Key(pending, q)
          /\ Key(pending', r) = Key(pending, r)
      BY <3>1, KeyStays, Zenon
    <3> QED BY <3>1, <3>2, Zenon DEF Covers
  <2> QED BY <2>1, Zenon DEF AllCover

(* A grant is given only while its commit finishes. *)
<1>GivenBefore.
    ASSUME Forward, NEW r \in Requests, Given(pending', r)
    PROVE Given(pending, r) \/ (r = r0 /\ prompt.at = "finish")
  <2> USE <1>GivenBefore
  <2>1. Moves(pending, prompt, pending', prompt', r)
    BY Zenon DEF Forward
  <2> QED BY <2>1, Zenon DEF Moves, Given, r0

(* An entry of the file whose commit is about to finish was in it before. *)
<1>FinishingBefore.
    ASSUME Forward, Registry, Agrees(pending', prompt'), NEW r \in Requests,
           Spent(pending, prompt, r), r = prompt'.req, prompt'.at = "finish"
    PROVE r = r0 /\ prompt.at = "finish"
  <2> USE <1>FinishingBefore
  <2>1. Moves(pending, prompt, pending', prompt', r)
    BY Zenon DEF Forward
  <2> QED BY <2>1, Zenon DEF Moves, r0

(* The store's entries were opened. *)
<1>EntriesOpened.
    ASSUME Types, Registry, WriterAgrees, StoreIsOrdered, GrantsAreSpent
    PROVE \A r \in engine.remembered \cup engine.proposal \cup engine.file :
            r \in Requests /\ pending.phase[r] # "unused"
  <2> USE <1>EntriesOpened
  <2> SUFFICES ASSUME NEW r \in engine.remembered \cup engine.proposal \cup engine.file
               PROVE r \in Requests /\ pending.phase[r] # "unused"
    BY Zenon
  <2>1. r \in Requests
    BY DEF Types, EngineState
  <2>2. Spent(pending, prompt, r) \/ r \in Writing
    <3>1. r \in engine.remembered \/ r \in (UNION engine.disk) \cup engine.proposal
      BY Zenon DEF StoreIsOrdered
    <3> QED BY <3>1, Zenon DEF GrantsAreSpent, Grants
  <2> QED BY <2>1, <2>2, SpentFacts, WritingFacts DEF Writing, Registry

(* A finished commit is not one of an earlier round. *)
<1>FinishIsNew.
    ASSUME Registry, GrantsAreSpent, prompt.at = "finish"
    PROVE r0 \notin restored
  BY <1>FinishIsNew DEF Registry, Agrees, GrantsAreSpent, r0

(* What is kept now was kept before. *)
<1>KeptBefore.
    ASSUME Forward, Registry, GrantsAreSpent, NEW r \in Requests, Kept(pending', restored, r)
    PROVE Kept(pending, restored, r)
  <2> USE <1>KeptBefore
  <2>1. Given(pending', r) => Given(pending, r) \/ (r = r0 /\ prompt.at = "finish")
    BY <1>GivenBefore, Zenon
  <2> QED BY <2>1, <1>FinishIsNew, Zenon DEF Kept

(* A file covers what it holds. *)
<1>CoverFacts.
    ASSUME NEW p
    PROVE /\ \A content : \A r \in content : Covers(p, content, r)
          /\ \A content, r : AllCover(p, {content}, r) <=> Covers(p, content, r)
          /\ \A disk, content, r : AllCover(p, disk \cup {content}, r)
                                    <=> AllCover(p, disk, r) /\ Covers(p, content, r)
  BY <1>CoverFacts, Zenon DEF AllCover, Covers

<1> QED
  <2> SUFFICES ASSUME Types, Registry, WriterAgrees, StoreIsOrdered, GrantsAreSpent, GrantsAreDurable,
                      StoreStep, restored' = restored \/ Restarts, Forward, Agrees(pending', prompt')
               PROVE GrantsAreDurable'
    BY Zenon
  <2> DEFINE P == pending'
  <2>0. \A r \in engine.remembered \cup engine.proposal \cup engine.file :
          /\ r \in Requests /\ pending.phase[r] # "unused"
          /\ \A content : Covers(pending, content, r) => Covers(P, content, r)
          /\ \A disk : AllCover(pending, disk, r) => AllCover(P, disk, r)
    BY <1>EntriesOpened, <1>CoversStays, Zenon
  <2>1. /\ \A content : \A r \in content : Covers(P, content, r)
        /\ \A content, r : AllCover(P, {content}, r) <=> Covers(P, content, r)
        /\ \A disk, content, r : AllCover(P, disk \cup {content}, r)
                                  <=> AllCover(P, disk, r) /\ Covers(P, content, r)
    BY <1>CoverFacts, Zenon
  <2>2. ASSUME restored' = restored
        PROVE /\ \A r \in (engine.remembered \cup engine.proposal) \ Writing :
                   Kept(P, restored', r) => AllCover(P, engine.disk, r)
              /\ engine.writer # "none" =>
                   \A r \in engine.remembered : Kept(P, restored', r) => Covers(P, engine.proposal, r)
    <3>1. \A r \in engine.remembered \cup engine.proposal :
            Kept(P, restored', r) => Kept(pending, restored, r)
      BY <2>0, <2>2, <1>KeptBefore, Zenon
    <3> QED BY <2>0, <3>1, Zenon DEF GrantsAreDurable
  <2>3. \A r \in engine.file : Given(P, r) => AllCover(P, engine.disk, r)
    <3>1. \A r \in engine.file : Given(P, r) => Given(pending, r) \/ (r = r0 /\ prompt.at = "finish")
      BY <2>0, <1>GivenBefore, Zenon
    <3> QED BY <2>0, <3>1, Zenon DEF GrantsAreDurable
  <2>4. engine.writer = "commit" => r0 \notin engine.remembered
    BY WritingFacts, Zenon
  <2> SUFFICES
        /\ \A r \in (engine'.remembered \cup engine'.proposal) \ Writing' :
             Kept(P, restored', r) => AllCover(P, engine'.disk, r)
        /\ engine'.writer # "none" =>
             \A r \in engine'.remembered : Kept(P, restored', r) => Covers(P, engine'.proposal, r)
        /\ \A r \in engine'.file :
             Given(P, r) \/ (r = prompt'.req /\ prompt'.at = "finish") => AllCover(P, engine'.disk, r)
    BY Zenon DEF GrantsAreDurable, r0
  <2>5. CASE Restarts
    <3>1. engine'.writer = "none" /\ prompt'.at = "off" /\ engine'.proposal = {}
      BY <2>5, RoundLeaves DEF Restarts, Loads
    <3>2. CASE Loads(engine', engine.file, engine.disk, Absent, {})
      <4>1. /\ engine'.remembered \subseteq engine.file /\ engine'.file = engine.file
            /\ engine'.disk = engine.disk /\ engine.file \subseteq restored'
        BY <2>5, <3>2 DEF Loads, Restarts, StoreIsOrdered
      <4>2. \A r \in engine'.remembered : Kept(P, restored', r) => Given(P, r)
        BY <4>1, Zenon DEF Kept
      <4> QED BY <2>3, <3>1, <4>1, <4>2, Zenon
    <3>3. CASE \E content \in engine.disk : Loads(engine', content, {content}, Absent, {})
      <4>1. PICK content \in engine.disk : Loads(engine', content, {content}, Absent, {})
        BY <3>3
      <4>2. engine'.remembered \subseteq content /\ engine'.file = content /\ engine'.disk = {content}
        BY <4>1 DEF Loads
      <4> QED BY <2>1, <3>1, <4>2, Zenon
    <3> QED BY <2>5, <3>2, <3>3, Zenon DEF Restarts
  <2> SUFFICES ASSUME restored' = restored, ~ Restarts
      PROVE
        /\ \A r \in (engine'.remembered \cup engine'.proposal) \ Writing' :
             Kept(P, restored', r) => AllCover(P, engine'.disk, r)
        /\ engine'.writer # "none" =>
             \A r \in engine'.remembered : Kept(P, restored', r) => Covers(P, engine'.proposal, r)
        /\ \A r \in engine'.file :
             Given(P, r) \/ (r = prompt'.req /\ prompt'.at = "finish") => AllCover(P, engine'.disk, r)
    BY <2>5, Zenon
  <2> HIDE DEF P
  <2>6. CASE Rests \/ Revokes
    <3>1. /\ engine'.remembered \subseteq engine.remembered /\ engine'.proposal = engine.proposal
          /\ engine'.file = engine.file /\ engine'.disk = engine.disk /\ engine'.writer = engine.writer
      BY <2>6 DEF Rests, Keeps, Revokes, Removes
    <3>2. engine.writer = "commit" => prompt' = prompt /\ prompt'.at = "write"
      BY <2>6, Zenon DEF Rests, Revokes, StaysPut, WriterAgrees
    <3>3. Writing' = Writing
      BY <3>1, <3>2 DEF Writing, r0
    <3>4. \A r \in engine.file : r = prompt'.req /\ prompt'.at = "finish" => AllCover(P, engine.disk, r)
      <4> SUFFICES ASSUME NEW r \in engine.file, r = prompt'.req, prompt'.at = "finish"
                   PROVE AllCover(P, engine.disk, r)
        BY Zenon
      <4>1. r \in UNION engine.disk /\ Writing = {}
        BY <3>2 DEF StoreIsOrdered, Writing
      <4>2. Spent(pending, prompt, r)
        BY <4>1 DEF GrantsAreSpent
      <4>3. r = r0 /\ prompt.at = "finish"
        BY <2>0, <4>2, <1>FinishingBefore, Zenon
      <4> QED BY <2>0, <4>3, Zenon DEF GrantsAreDurable
    <3> QED BY <2>2, <2>3, <3>1, <3>3, <3>4, Zenon
  <2>7. CASE Proposes
    <3>1. /\ engine.writer = "none" /\ engine'.writer = "commit" /\ prompt'.at = "write"
          /\ engine'.remembered = engine.remembered
          /\ engine'.proposal = (engine.remembered \ Same(r0)) \cup {r0}
          /\ engine'.file = engine.file /\ engine'.disk = engine.disk
          /\ prompt'.req = r0 /\ P = pending
      BY <2>7, Zenon DEF Proposes, Locks, Proposal, P
    <3>2. Writing' = {r0} /\ Writing = {}
      BY <3>1 DEF Writing, r0
    <3>3. r0 \in Requests /\ pending.phase[r0] # "unused" /\ r0 \notin engine.remembered
      <4>1. prompt.at = "always" /\ Agrees(pending, prompt)
        BY <2>7, Zenon DEF Proposes, Registry
      <4>2. r0 \in Requests /\ pending.phase[r0] = "committing" /\ ~ Spent(pending, prompt, r0)
        BY <4>1, SpentFacts DEF Deciding
      <4> QED BY <4>2 DEF GrantsAreSpent, Grants
    <3>4. \A r \in engine.remembered : Covers(P, engine'.proposal, r)
      <4> SUFFICES ASSUME NEW r \in engine.remembered PROVE Covers(P, engine'.proposal, r)
        BY Zenon
      <4>1. CASE r \in Same(r0)
        <5>1. Key(P, r0) = Key(P, r) /\ r0 \in engine'.proposal /\ r0 # r
          BY <3>1, <3>3, <4>1 DEF Same
        <5> QED BY <3>1, <3>3, <5>1, Zenon DEF Covers
      <4>2. CASE r \notin Same(r0)
        <5>1. r \in engine'.proposal
          BY <3>1, <4>2
        <5> QED BY <2>1, <5>1, Zenon
      <4> QED BY <4>1, <4>2
    <3>5. \A r \in (engine'.remembered \cup engine'.proposal) \ Writing' : r \in engine.remembered
      BY <3>1, <3>2
    <3> QED BY <2>2, <2>3, <3>1, <3>2, <3>4, <3>5, Zenon
  <2>8. CASE Flushes
    <3>1. /\ engine.writer = "none" /\ engine'.remembered = engine.remembered
          /\ engine'.proposal = engine.remembered /\ prompt' = prompt /\ P = pending
          /\ engine'.file = engine.file /\ engine'.disk = engine.disk
      BY <2>8, Zenon DEF Flushes, Locks, P
    <3>2. Writing = {}
      BY <3>1 DEF Writing
    <3>3. \A r \in engine.file : r = prompt'.req /\ prompt'.at = "finish" => AllCover(P, engine.disk, r)
      BY <3>1, Zenon DEF GrantsAreDurable, r0
    <3> QED BY <2>1, <2>2, <2>3, <3>1, <3>2, <3>3, Zenon
  <2>9. CASE Fails \/ Flushed
    <3>1. /\ engine'.writer = "none" /\ engine'.proposal = {} /\ P = pending
          /\ engine'.remembered = engine.remembered
          /\ engine'.file = engine.file /\ engine'.disk = engine.disk
          /\ prompt' = prompt \/ prompt'.at = "abort"
      BY <2>9, Zenon DEF Fails, Flushed, Unlocks, P
    <3>2. \A r \in engine.file : r = prompt'.req /\ prompt'.at = "finish" => AllCover(P, engine.disk, r)
      BY <3>1, Zenon DEF GrantsAreDurable, r0
    <3>3. \A r \in engine.remembered : r \notin Writing
      BY <2>4 DEF Writing
    <3> QED BY <2>2, <2>3, <3>1, <3>2, <3>3, Zenon
  <2>10. CASE Renames
    <3>1. /\ engine'.remembered = engine.remembered /\ engine'.proposal = engine.proposal
          /\ engine'.file = engine.proposal /\ engine'.disk = engine.disk \cup {engine.proposal}
          /\ engine'.writer = engine.writer /\ prompt' = prompt /\ P = pending
          /\ engine.writer # "none"
      BY <2>10 DEF Renames, Writes, P, WriterAgrees
    <3>2. Writing' = Writing
      BY <3>1, Zenon DEF Writing, r0
    <3>3. \A r \in engine.proposal : Given(P, r) \/ (r = r0 /\ prompt.at = "finish")
                                       => r \notin Writing /\ Kept(P, restored', r)
      <4>1. engine.writer = "commit" =>
              /\ r0 \in Requests /\ pending.phase[r0] = "committing" /\ prompt.at = "write"
              /\ ~ Given(pending, r0)
        <5> SUFFICES ASSUME engine.writer = "commit"
                     PROVE /\ r0 \in Requests /\ pending.phase[r0] = "committing" /\ prompt.at = "write"
                           /\ ~ Given(pending, r0)
          OBVIOUS
        <5>1. r0 \in Requests /\ pending.phase[r0] = "committing"
          BY WritingFacts, Zenon
        <5> QED BY <5>1 DEF Registry, Agrees, Given, WriterAgrees
      <4> QED BY <3>1, <4>1, <1>FinishIsNew DEF Writing, Kept
    <3>4. \A r \in engine.remembered \cup engine.proposal :
            Kept(P, restored', r) => Covers(P, engine.proposal, r)
      BY <2>1, <2>2, <3>1, Zenon
    <3>5. \A r \in (engine.remembered \cup engine.proposal) \ Writing :
            Kept(P, restored', r) => AllCover(P, engine.disk \cup {engine.proposal}, r)
      BY <2>1, <2>2, <3>4, Zenon
    <3> QED BY <3>1, <3>2, <3>3, <3>4, <3>5, Zenon DEF r0
  <2>11. CASE Syncs
    <3>1. /\ engine'.remembered = engine.remembered /\ engine'.proposal = engine.proposal
          /\ engine'.file = engine.proposal /\ engine'.disk = {engine.proposal}
          /\ engine'.writer = engine.writer /\ engine.writer # "none"
      BY <2>11 DEF Syncs, Writes, WriterAgrees, StoreIsOrdered
    <3>2. \A r \in engine.remembered \cup engine.proposal :
            Kept(P, restored', r) => Covers(P, engine.proposal, r)
      BY <2>1, <2>2, <3>1, Zenon
    <3> QED BY <2>1, <3>1, <3>2, Zenon
  <2>12. CASE Publishes
    <3>1. /\ engine'.remembered \subseteq engine.remembered \cup {r0} /\ r0 \in engine.proposal
          /\ engine'.proposal = {} /\ engine'.writer = "none" /\ engine.writer # "none"
          /\ engine'.file = engine.proposal /\ engine'.disk = {engine.proposal}
      BY <2>12 DEF Publishes, Publication, Unlocks, StoreIsOrdered
    <3>2. \A r \in engine.remembered \cup engine.proposal :
            Kept(P, restored', r) => Covers(P, engine.proposal, r)
      BY <2>1, <2>2, <3>1, Zenon
    <3>3. \A r \in engine'.remembered : r \in engine.remembered \cup engine.proposal
      BY <3>1
    <3> QED BY <2>1, <3>1, <3>2, <3>3, Zenon
  <2>13. CASE Resumes
    <3>1. /\ engine'.writer = "none" /\ prompt'.at = "off" /\ engine'.proposal = {}
          /\ Writing = {} /\ Writing' = {}
      BY <2>13, RoundLeaves, Zenon DEF Resumes, Loads, Writing
    <3>2. CASE Loads(engine', engine.file, engine.disk, Absent, engine.removals)
      <4>1. /\ engine'.remembered \subseteq engine.remembered /\ engine'.file = engine.file
            /\ engine'.disk = engine.disk
        BY <2>13, <3>2, Zenon DEF Resumes, Loads, StoreIsOrdered, WriterAgrees
      <4> QED BY <2>2, <2>3, <3>1, <4>1, Zenon
    <3>3. CASE Loads(engine', engine.remembered, {engine.remembered}, Absent, {})
      <4>1. /\ engine'.remembered \subseteq engine.remembered /\ engine'.file = engine.remembered
            /\ engine'.disk = {engine.remembered}
        BY <3>3 DEF Loads
      <4> QED BY <2>1, <3>1, <4>1, Zenon
    <3> QED BY <2>13, <3>2, <3>3, Zenon DEF Resumes
  <2> QED BY <2>5, <2>6, <2>7, <2>8, <2>9, <2>10, <2>11, <2>12, <2>13, Zenon DEF StoreStep

(* What a reader of AlwaysIsDurable wants of it. *)
LEMMA DurableGrants ==
  ASSUME Types, Registry, WriterAgrees, StoreIsOrdered, GrantsAreSpent, GrantsAreDurable
  PROVE AlwaysIsDurable
<1> SUFFICES ASSUME NEW r \in engine.remembered, NEW content \in engine.disk,
                    pending.outcome[r] = "granted" \/ r \notin restored
             PROVE r \in content \/ \E q \in Same(r) : q # r /\ q \in content
  BY Zenon DEF AlwaysIsDurable
<1>1. r \notin Writing /\ Kept(pending, restored, r)
  BY WritingFacts, Zenon DEF Writing, Kept, Given
<1>2. Covers(pending, content, r)
  BY <1>1 DEF GrantsAreDurable, AllCover
<1>3. \A q \in Requests : pending.phase[q] # "unused" => q \in Opened
  BY DEF Opened, InPhase
<1> QED BY <1>2, <1>3, Zenon DEF Covers, Same

-----------------------------------------------------------------------------
(* The fence.                                                              *)

(* Where the prompter may be while the fence is up. *)
Calm == prompt.at \in Committing => prompt.at \in {"commit", "abort"}

FenceIsClosed ==
  /\ Fenced => Admitted = {} /\ Calm
  /\ NothingPendsUnderFence

(* Who moves the prompter. *)
LEMMA PromptOwners ==
  ASSUME [Next]_vars
  PROVE \/ prompt' = prompt
        \/ \E c \in Call : EnsurePrompter(c)
        \/ TakePrompt \/ ShowPrompt \/ PromptCloses \/ PersonDenies \/ PersonGrants
        \/ CommitSteps \/ WriteFails \/ SyncFails \/ Rounds
<1>1. CASE \E c \in Call : (\E a \in Asking[c] : CallEnter(c, a)) \/ CallReturns(c) \/ CallDropped(c)
  BY <1>1, Zenon DEF CallEnter, CallReturns, CallDropped
<1>2. CASE \E c \in Call : AdmitStep(c)
  <2>1. PICK c \in Call : AdmitStep(c)
    BY <1>2
  <2>2. PICK pinned \in BOOLEAN, denials \in SUBSET pending.denials,
             cooldowns \in SUBSET pending.cooldowns : CallAdmit(c, pinned, denials, cooldowns)
    BY <2>1, Zenon DEF AdmitStep
  <2> QED BY <2>2, Zenon DEF CallAdmit
<1>3. CASE StoreSteps
  BY <1>3, Zenon DEF StoreSteps, BeginFlush, WriteRenames, WriteSyncs, FinishFlush
<1>4. CASE \E r \in Requests : EndRequest(r) \/ OnceExpires(r) \/ RevokeEntry(r)
  BY <1>4, Zenon DEF EndRequest, OnceExpires, RevokeEntry
<1>5. CASE RevokeAllPending \/ RevokerSteps
  BY <1>5, Zenon DEF RevokeAllPending, RevokerSteps, RevokeAllOnce, RevokeAllEngine,
     RevokeAllChecks, RevokerDone
<1>6. CASE (\E l \in Lair : LairLeaves(l)) \/ EndingSteps
  BY <1>6, Zenon DEF LairLeaves, EndingSteps, EndLairPending, EndLairOnce, EndLairEngine
<1>7. CASE FenceWaits \/ FenceSteps \/ Shutdown
  BY <1>7, Zenon DEF FenceWaits, FenceSteps, FenceRises, FenceEndsPending, FlushAtFence,
     FenceLifts, Shutdown
<1>8. CASE UNCHANGED vars
  BY <1>8, Zenon DEF vars
<1> QED BY <1>1, <1>2, <1>3, <1>4, <1>5, <1>6, <1>7, <1>8, Zenon
           DEF Next, CallSteps, PrompterSteps, Rounds

(* Every step leaves the fence closed. *)
LEMMA FenceStep ==
  /\ Types /\ Registry /\ WriterAgrees /\ FenceIsClosed /\ Forward /\ Agrees(pending', prompt')
  /\ (OpensNone(pending, pending') \/ \E c \in Call : AdmitStep(c)) /\ [Next]_vars
  => FenceIsClosed'

(* The fence stands from the moment it rises until it lifts. *)
<1>FenceOwners.
    ASSUME [Next]_vars, Fenced'
    PROVE ~ Rounds /\ (Fenced \/ FenceRises) /\ (fence' = "up" => fence = "up" \/ FenceEndsPending)
  <2> USE <1>FenceOwners
  <2>1. ~ Rounds
    BY RoundsEnd DEF RoundEnds, Fenced
  <2>2. fence' = fence \/ FenceWaits \/ FenceRises \/ FenceEndsPending \/ FenceLifts
    BY <2>1, Ownership, Zenon DEF Owners
  <2> QED BY <2>1, <2>2 DEF FenceWaits, FenceRises, FenceEndsPending, FenceLifts, Fenced

(* No call is admitted while it stands. *)
<1>NobodyEnters.
    ASSUME Types, FenceIsClosed, [Next]_vars, Fenced'
    PROVE Admitted' = {}
  <2> USE <1>NobodyEnters
  <2>1. CASE FenceRises
    BY <2>1 DEF FenceRises, AdmissionFree, Admitted
  <2>2. CASE Fenced
    <3>1. \A c \in Call : calls[c].at \notin {"asking", "opened"}
      BY <2>2 DEF FenceIsClosed, Admitted
    <3>2. CASE calls' = calls
      BY <3>1, <3>2 DEF Admitted
    <3>3. CASE \E c \in Call : CallReturns(c) \/ CallDropped(c)
      <4>1. PICK c \in Call : calls' = [calls EXCEPT ![c] = Idle]
        BY <3>3, Zenon DEF CallReturns, CallDropped
      <4> QED BY <3>1, <4>1 DEF Admitted, Idle, Types
    <3>4. ~ \E c \in Call : (\E a \in Asking[c] : CallEnter(c, a)) \/ AdmitStep(c) \/ EnsurePrompter(c)
      BY <2>2, <3>1 DEF CallEnter, AdmitStep, CallAdmit, EnsurePrompter
    <3>5. calls' = calls \/ Callers
      BY Ownership, Zenon DEF Owners
    <3> QED BY <3>2, <3>3, <3>4, <3>5, <1>FenceOwners, Zenon DEF Callers
  <2> QED BY <2>1, <2>2, <1>FenceOwners, Zenon

(* An answer given while it stands goes no further than the checks. *)
<1>StaysCalm.
    ASSUME Types, WriterAgrees, FenceIsClosed, [Next]_vars, Fenced'
    PROVE Calm'
  <2> USE <1>StaysCalm
  <2>1. prompt \in PromptState
    BY Zenon DEF Types
  <2>2. CASE FenceRises
    BY <2>2 DEF FenceRises, AdmissionFree, Calm
  <2>3. CASE Fenced
    <3>0. Calm /\ (prompt.at \in Committing => prompt.at \in {"commit", "abort"})
      BY <2>3, Zenon DEF FenceIsClosed, Calm
    <3>1. CASE prompt' = prompt
      BY <3>0, <3>1 DEF Calm
    <3>2. CASE \E c \in Call : EnsurePrompter(c)
      <4>1. prompt' = prompt \/ prompt' = [Off EXCEPT !.at = "next"]
        BY <3>2, Zenon DEF EnsurePrompter
      <4> QED BY <3>0, <4>1 DEF Off, Calm, Committing
    <3>3. CASE TakePrompt \/ ShowPrompt \/ PromptCloses \/ PersonDenies \/ PersonGrants
      <4>1. \/ prompt' = Off \/ prompt' = NextJob
            \/ \E r : prompt' = [prompt EXCEPT !.at = "looking", !.req = r]
            \/ prompt' = [prompt EXCEPT !.at = "shown"]
            \/ prompt' = [prompt EXCEPT !.at = "commit"]
        BY <3>3, Zenon DEF TakePrompt, ShowPrompt, PromptCloses, PersonDenies, PersonGrants
      <4>2. /\ \A r : [prompt EXCEPT !.at = "looking", !.req = r].at = "looking"
            /\ [prompt EXCEPT !.at = "shown"].at = "shown"
            /\ [prompt EXCEPT !.at = "commit"].at = "commit"
        BY <2>1, Zenon DEF PromptState
      <4>3. prompt'.at \in {"off", "next", "looking", "shown", "commit"}
        BY <4>1, <4>2, JobRecords, Zenon
      <4> QED BY <4>3 DEF Calm, Committing
    <3>4. CASE CheckCommit
      <4>1. prompt' = [prompt EXCEPT !.at = "abort"]
        BY <2>3, <3>4, Zenon DEF CheckCommit
      <4> QED BY <2>1, <4>1 DEF PromptState, Calm
    <3>5. CASE FinishError
      BY <3>5 DEF FinishError, NextJob, Off, Calm, Committing
    <3>6. ~ (\/ PublishOnce \/ PublishSession \/ ProposeAlways \/ PublishAlways \/ FinishGrant
             \/ RevokeCommitted \/ CommitterDone)
      BY <3>0 DEF PublishOnce, PublishSession, ProposeAlways, PublishAlways, FinishGrant,
         RevokeCommitted, CommitterDone, Committing, WriterAgrees
    <3>7. CASE WriteFails \/ SyncFails
      <4>1. prompt' = prompt \/ prompt' = [prompt EXCEPT !.at = "abort"]
        BY <3>7, Zenon DEF WriteFails, SyncFails, WriteAbandoned
      <4> QED BY <2>1, <3>0, <4>1 DEF PromptState, Calm
    <3> QED BY <3>1, <3>2, <3>3, <3>4, <3>5, <3>6, <3>7, PromptOwners, <1>FenceOwners, Zenon DEF CommitSteps
  <2> QED BY <2>2, <2>3, <1>FenceOwners, Zenon

<1> QED
  <2> SUFFICES ASSUME Types, Registry, WriterAgrees, FenceIsClosed, Forward, Agrees(pending', prompt'),
                      OpensNone(pending, pending') \/ \E c \in Call : AdmitStep(c), [Next]_vars
               PROVE FenceIsClosed'
    BY Zenon
  <2>1. Fenced' => Admitted' = {} /\ Calm'
    BY <1>NobodyEnters, <1>StaysCalm, Zenon
  <2> SUFFICES ASSUME fence' = "up", NEW r \in Requests,
                      pending'.phase[r] \in {"queued", "prompting", "committing", "published"}
               PROVE pending'.phase[r] = "committing" /\ pending'.ended[r]
    BY <2>1, Zenon DEF FenceIsClosed, NothingPendsUnderFence, Entries, InPhase
  <2>2. Fenced' /\ Calm'
    BY <2>1 DEF Fenced
  <2>3. pending'.phase[r] # "published"
    BY <2>2 DEF Calm, Committing, Agrees
  <2>4. CASE FenceEndsPending
    <3>1. pending' = EndWhere(pending, Requests) /\ pending \in PendingState
      BY <2>4, Zenon DEF FenceEndsPending, Types
    <3>2. AllEnded(pending', Requests)
      BY <3>1, EndWhereEffect, Zenon
    <3> QED BY <2>3, <3>2 DEF AllEnded
  <2>5. CASE fence = "up"
    <3>1. \A q \in Requests : /\ pending.phase[q] \notin {"queued", "prompting", "published"}
                              /\ pending.phase[q] = "committing" => pending.ended[q]
      BY <2>5, Zenon DEF FenceIsClosed, NothingPendsUnderFence, Entries, InPhase
    <3>2. ~ \E c \in Call : AdmitStep(c)
      BY <2>5 DEF FenceIsClosed, Fenced, Admitted, AdmitStep, CallAdmit
    <3>3. Moves(pending, prompt, pending', prompt', r)
      BY Zenon DEF Forward
    <3>4. pending.phase[r] = "unused" => pending'.phase[r] = "unused"
      BY <3>2, Zenon DEF OpensNone
    <3> QED BY <2>3, <3>1, <3>3, <3>4, Zenon DEF Moves
  <2> QED BY <2>2, <2>4, <2>5, <1>FenceOwners, Zenon

(* Under the fence nothing comes into force, and the file holds at most    *)
(* what it held or what memory held or owed.                               *)
LEMMA FencedStep ==
  ASSUME Types, WriterAgrees, StoreIsOrdered, FenceIsClosed, GrantStep, StoreStep, Fenced, Fenced'
  PROVE /\ InForce' \subseteq InForce
        /\ engine'.file \subseteq engine.file \cup engine.remembered \cup engine.removals
<1>1. prompt.at \notin {"once", "session", "write"} /\ Writing = {}
  BY DEF FenceIsClosed, Calm, Committing, Writing, WriterAgrees
<1>2. ~ RoundEnds
  BY DEF RoundEnds, Fenced
<1>3. once' \subseteq once /\ engine'.sessions \subseteq engine.sessions
  BY <1>1, <1>2 DEF GrantStep, Shrinks, GrantsOnce, GrantsSession, GrantsAlways, Reloads
<1>4. /\ engine'.remembered \ engine'.missing \subseteq engine.remembered \ engine.missing
      /\ engine'.file \subseteq engine.file \cup engine.remembered \cup engine.removals
  <2>1. CASE Rests \/ Revokes
    BY <2>1 DEF Rests, Keeps, Revokes, Removes
  <2>2. CASE Proposes \/ Flushes
    BY <2>2 DEF Proposes, Flushes, Locks
  <2>3. CASE Fails \/ Flushed
    BY <2>3 DEF Fails, Flushed, Unlocks
  <2>4. CASE Renames
    BY <1>1, <2>4 DEF Renames, Writes, StoreIsOrdered
  <2>5. CASE Syncs
    BY <2>5 DEF Syncs, Writes
  <2> QED BY <1>1, <1>2, <2>1, <2>2, <2>3, <2>4, <2>5, Zenon DEF StoreStep, Publishes, Restarts, Resumes
<1> QED BY <1>3, <1>4 DEF InForce, Sessions, Remembered

(* What was revoked stays revoked until the store is read back. *)
LEMMA RevokedStep ==
  ASSUME Types, Registry, WriterAgrees, StoreIsOrdered, GrantsAreSpent, GrantStep, upsets' = upsets
  PROVE engine.removals \cap engine'.remembered = {}
<1>1. ~ Reloads
  BY DEF Reloads, Upset, Types
<1>2. prompt.at = "write" => r0 \notin engine.removals
  BY WritingFacts DEF WriterAgrees
<1>3. \/ engine'.remembered \subseteq engine.remembered
      \/ prompt.at = "write" /\ engine'.remembered \subseteq engine.remembered \cup {r0}
  BY <1>1 DEF GrantStep, Shrinks, GrantsOnce, GrantsSession, GrantsAlways, Keeps
<1> QED BY <1>2, <1>3 DEF StoreIsOrdered

-----------------------------------------------------------------------------
(* The queue.                                                              *)

(* The prompter stops for want of work, or with the round. *)
LEMMA StoppedBy ==
  ASSUME Types, WriterAgrees, [Next]_vars, prompt.at # "off", prompt'.at = "off"
  PROVE Rounds \/ TakePrompt
<1>0. prompt \in PromptState
  BY Zenon DEF Types
<1>1. \A x : [prompt EXCEPT !.at = x].at = x
  BY <1>0, Zenon DEF PromptState
<1>2. ASSUME NEW d \in Durations PROVE [prompt EXCEPT !.at = d, !.duration = d].at = d /\ d # "off"
  BY <1>0 DEF PromptState, Durations
<1>3. [Off EXCEPT !.at = "next"].at = "next"
  BY DEF Off
<1>4. CASE \E c \in Call : EnsurePrompter(c)
  BY <1>3, <1>4, Zenon DEF EnsurePrompter
<1>5. CASE ShowPrompt \/ PromptCloses \/ PersonDenies \/ PersonGrants
  BY <1>1, <1>5, JobRecords, Zenon DEF ShowPrompt, PromptCloses, PersonDenies, PersonGrants
<1>6. CASE CheckCommit
  <2>1. CASE prompt' = [prompt EXCEPT !.at = "abort"]
    BY <1>1, <2>1, Zenon
  <2>2. CASE \E d \in Durations : prompt' = [prompt EXCEPT !.at = d, !.duration = d]
    BY <1>2, <2>2, Zenon
  <2> QED BY <1>6, <2>1, <2>2, Zenon DEF CheckCommit
<1>7. CASE PublishOnce \/ PublishSession \/ ProposeAlways \/ PublishAlways
  <2>1. \E x \in {"finish", "abort", "write"} : prompt' = [prompt EXCEPT !.at = x]
    BY <1>7, Zenon DEF PublishOnce, PublishSession, ProposeAlways, PublishAlways
  <2> QED BY <1>1, <2>1, Zenon
<1>8. CASE FinishGrant \/ FinishError \/ RevokeCommitted \/ CommitterDone
  BY <1>1, <1>8, JobRecords, Zenon DEF FinishGrant, FinishError, RevokeCommitted, CommitterDone
<1>9. CASE WriteFails \/ SyncFails
  BY <1>1, <1>9, Zenon DEF WriteFails, SyncFails, WriteAbandoned
<1> QED BY <1>4, <1>5, <1>6, <1>7, <1>8, <1>9, PromptOwners, Zenon DEF CommitSteps

(* A queued request keeps its prompter, or the call that will claim one. *)
LEMMA QueueStep ==
  /\ Types /\ Registry /\ WriterAgrees /\ QueueHasPrompter /\ Forward /\ [Next]_vars
  /\ (OpensNone(pending, pending') \/ \E c \in Call : AdmitStep(c))
  => QueueHasPrompter'

(* Whoever opens a request goes on to find it a prompter. *)
<1>AdmitOpens.
    ASSUME Types, NEW c \in Call, AdmitStep(c), ~ OpensNone(pending, pending')
    PROVE calls'[c].at = "opened"
  <2> USE <1>AdmitOpens
  <2>1. PICK pinned \in BOOLEAN, denials \in SUBSET pending.denials,
             cooldowns \in SUBSET pending.cooldowns : CallAdmit(c, pinned, denials, cooldowns)
    BY Zenon DEF AdmitStep
  <2> DEFINE a == calls[c].ask
             p == IF pending.closed THEN pending ELSE Prune(pending, denials, cooldowns)
             answer == Admission(p, a, pinned)
             unused == InPhase(p, {"unused"})
             x == CASE answer = "opened" -> [at |-> "opened", req |-> Min(unused), ask |-> a]
                    [] answer = "joined" -> [at |-> "waiting", req |-> Min(EntriesFor(p, a)), ask |-> a]
                    [] OTHER -> Idle
  <2>2. /\ pending' = CASE answer = "collected" -> Collect(p, a)
                        [] answer = "opened" -> Open(p, a, Min(unused))
                        [] OTHER -> p
        /\ calls' = [calls EXCEPT ![c] = x]
    BY <2>1, Zenon DEF CallAdmit
  <2>3. p.phase = pending.phase /\ Collect(p, a).phase = p.phase
    BY Zenon DEF Prune, Collect, Types, PendingState
  <2> HIDE DEF p, a
  <2>4. answer # "opened" => pending' = p \/ pending' = Collect(p, a)
    BY <2>2, Zenon
  <2>5. answer = "opened"
    BY <2>3, <2>4, Zenon DEF OpensNone
  <2>6. x.at = "opened"
    BY <2>5, Zenon
  <2> HIDE DEF x
  <2> QED BY <2>2, <2>6, Zenon DEF Types

(* The prompter stops only with nothing queued. *)
<1>PrompterStops.
    ASSUME Types, WriterAgrees, [Next]_vars, prompt.at # "off", prompt'.at = "off"
    PROVE \A r \in Requests : pending'.phase[r] # "queued"
  <2> USE <1>PrompterStops
  <2>1. prompt \in PromptState /\ pending \in PendingState
    BY Zenon DEF Types
  <2>2. CASE Rounds
    BY <2>2, RoundsEnd, RoundLeaves
  <2>3. CASE TakePrompt
    <3>1. InPhase(pending, {"queued"}) = {}
      <4>1. [prompt EXCEPT !.at = "looking", !.req = Min(InPhase(pending, {"queued"}))].at = "looking"
        BY <2>1, Zenon DEF PromptState
      <4> QED BY <2>3, <4>1, Zenon DEF TakePrompt
    <3>2. pending' = [pending EXCEPT !.prompter = FALSE]
      BY <2>3, <3>1, Zenon DEF TakePrompt, NextPrompt
    <3>3. pending'.phase = pending.phase
      BY <2>1, <3>2, Zenon DEF PendingState
    <3> QED BY <3>1, <3>3 DEF InPhase
  <2> QED BY <2>2, <2>3, StoppedBy, Zenon

<1> QED
  <2> SUFFICES ASSUME Types, Registry, WriterAgrees, QueueHasPrompter, Forward, [Next]_vars,
                      OpensNone(pending, pending') \/ \E c \in Call : AdmitStep(c)
               PROVE QueueHasPrompter'
    BY Zenon
  <2> SUFFICES ASSUME NEW r \in Requests, pending'.phase[r] = "queued", prompt'.at = "off"
               PROVE \E c \in Call : calls'[c].at = "opened"
    BY DEF QueueHasPrompter, InPhase
  <2>1. prompt.at = "off"
    BY <1>PrompterStops, Zenon
  <2>2. pending.phase[r] \in {"queued", "unused"}
    BY Zenon DEF Forward, Moves
  <2>3. CASE pending.phase[r] = "unused"
    <3>1. ~ OpensNone(pending, pending')
      BY <2>3 DEF OpensNone
    <3> QED BY <3>1, <1>AdmitOpens, Zenon
  <2>4. CASE pending.phase[r] = "queued"
    <3>1. PICK c \in Call : calls[c].at = "opened"
      BY <2>1, <2>4, Zenon DEF QueueHasPrompter, InPhase
    <3>2. ~ Rounds
      BY <2>4, RoundsEnd, RoundLeaves
    <3>3. ~ \E d \in Call : EnsurePrompter(d)
      BY <2>1, JobRecords, Zenon DEF EnsurePrompter, Registry, NextJob
    <3>4. ASSUME NEW d \in Call,
                 (\E a \in Asking[d] : CallEnter(d, a)) \/ AdmitStep(d) \/ CallReturns(d) \/ CallDropped(d)
          PROVE calls'[c].at = "opened"
      <4>1. calls[d].at # "opened" /\ \E x : calls' = [calls EXCEPT ![d] = x]
        <5>1. CASE AdmitStep(d)
          <6>1. PICK pinned \in BOOLEAN, denials \in SUBSET pending.denials,
                     cooldowns \in SUBSET pending.cooldowns : CallAdmit(d, pinned, denials, cooldowns)
            BY <5>1, Zenon DEF AdmitStep
          <6>2. calls[d].at = "asking" /\ \E x : calls' = [calls EXCEPT ![d] = x]
            BY <6>1, Zenon DEF CallAdmit
          <6> QED BY <6>2, Zenon
        <5>2. CASE CallReturns(d) \/ CallDropped(d)
          BY <5>2, Zenon DEF CallReturns, CallDropped
        <5>3. CASE \E a \in Asking[d] : CallEnter(d, a)
          BY <5>3, Zenon DEF CallEnter
        <5> QED BY <3>4, <5>1, <5>2, <5>3, Zenon
      <4>2. d # c
        BY <3>1, <4>1
      <4> QED BY <3>1, <4>1, <4>2 DEF Types
    <3>5. calls' = calls \/ Callers
      BY Ownership, Zenon DEF Owners
    <3> QED BY <3>1, <3>2, <3>3, <3>4, <3>5, Zenon DEF Callers
  <2> QED BY <2>2, <2>3, <2>4, Zenon

-----------------------------------------------------------------------------
(* Ends are final: requests.                                               *)

EndsHold ==
  /\ \A r \in Grants \ restored :
       pending.outcome[r] \in {"ended", "denied"} => Chased(pending, prompt, r)
  /\ \A r \in Requests : r <= through =>
       /\ Settled(pending, r) /\ r \notin once \cup engine.sessions
       /\ r \in engine.remembered \ restored => Chased(pending, prompt, r)
  /\ \A r \in Requests : r <= revoker.from /\ revoker.at \in {"once", "engine"} =>
       Settled(pending, r) /\ (revoker.at = "engine" => r \notin once)

(* Every step keeps it: a grant is chased while its request is marked, a   *)
(* revocation of everything has passed, or is about to.                    *)
LEMMA EndsStep ==
  /\ Types /\ Registry /\ WriterAgrees /\ StoreIsOrdered /\ FenceIsClosed /\ GrantsAreSpent
  /\ EndsHold /\ Counts /\ GrantStep /\ Forward /\ Agrees(pending', prompt')
  /\ pending' \in PendingState /\ Owners /\ RevokerOwners /\ [Next]_vars
  => EndsHold'

(* A committer that finds its request ended removes its grant. *)
<1>CommitterRevokes.
    ASSUME Types, WriterAgrees, [Next]_vars, prompt.at = "revoke", prompt'.at = "flush"
    PROVE r0 \notin Grants'
  <2> USE <1>CommitterRevokes
  <2>1. engine \in EngineState /\ prompt \in PromptState
    BY Zenon DEF Types
  <2>2. CASE RevokeCommitted
    <3>1. /\ once' = once \ {r0}
          /\ \/ engine' = Want(Remove(engine, {r0}), "committer")
             \/ engine' = Remove(engine, {r0})
      BY <2>2, Zenon DEF RevokeCommitted
    <3>2. "committer" \in Waiters
      BY DEF Waiters, Writers
    <3>3. Removes(engine, engine', {r0})
      BY <2>1, <3>1, <3>2, RemoveEffect, RemoveAndWant, Zenon
    <3> QED BY <3>1, <3>3 DEF Removes, Grants
  <2>3. CASE Rounds
    BY <2>3, RoundsEnd, RoundLeaves
  <2>4. CASE \E c \in Call : EnsurePrompter(c)
    BY <2>4, JobRecords, Zenon DEF EnsurePrompter, NextJob
  <2>5. CASE WriteFails \/ SyncFails
    <3>1. prompt' = prompt
      BY <2>5, Zenon DEF WriteFails, SyncFails, WriteAbandoned, WriterAgrees
    <3> QED BY <3>1
  <2>6. ~ \/ TakePrompt \/ ShowPrompt \/ PromptCloses \/ PersonDenies \/ PersonGrants
          \/ CheckCommit \/ PublishOnce \/ PublishSession \/ ProposeAlways \/ PublishAlways
          \/ FinishGrant \/ FinishError \/ CommitterDone
    BY Zenon DEF TakePrompt, ShowPrompt, PromptCloses, PersonDenies, PersonGrants, CheckCommit,
       PublishOnce, PublishSession, ProposeAlways, PublishAlways, FinishGrant, FinishError,
       CommitterDone, WriterAgrees
  <2>7. prompt' # prompt
    OBVIOUS
  <2> QED BY <2>2, <2>3, <2>4, <2>5, <2>6, <2>7, PromptOwners, Zenon DEF CommitSteps

(* A grant being chased is chased until it is gone or a restart may have   *)
(* brought it back.                                                        *)
<1>ChaseEnds.
    ASSUME Types, Registry, WriterAgrees, StoreIsOrdered, FenceIsClosed, Forward, [Next]_vars,
           NEW r \in Requests, Chased(pending, prompt, r)
    PROVE Chased(pending', prompt', r) \/ r \notin Grants' \/ r \in restored'
  <2> USE <1>ChaseEnds
  <2>1. \/ Chased(pending', prompt', r)
        \/ prompt.at = "revoke" /\ prompt'.at = "flush"
        \/ prompt'.at = "off"
    BY Zenon DEF Forward, Moves
  <2>2. r = r0 /\ prompt.at \in {"revoke", "finish"}
    BY DEF Chased, r0
  <2>3. CASE prompt.at = "revoke" /\ prompt'.at = "flush"
    BY <2>2, <2>3, <1>CommitterRevokes, Zenon
  <2>4. CASE prompt'.at = "off"
    <3>1. Rounds
      BY <2>2, <2>4, StoppedBy DEF TakePrompt
    <3>2. ~ ResumeRound
      BY <2>2 DEF ResumeRound, FenceIsClosed, Fenced, Calm, Committing
    <3>3. Restarts
      BY <3>1, <3>2, RestartLoads, Zenon DEF Rounds
    <3>4. Grants' \subseteq restored'
      BY <3>3 DEF Restarts, Loads, RoundEnds, Grants, StoreIsOrdered
    <3> QED BY <3>4
  <2> QED BY <2>1, <2>3, <2>4

(* What a settled request has no way back to. *)
<1>SettledStays.
    ASSUME Types, GrantStep, NEW r \in Requests, Settled(pending, r)
    PROVE /\ r \notin once => r \notin once'
          /\ r \notin engine.sessions => r \notin engine'.sessions
  <2> USE <1>SettledStays
  <2>1. Live(pending, r0) => r # r0
    BY DEF Settled, Live
  <2> QED BY <2>1 DEF GrantStep, Shrinks, GrantsOnce, GrantsSession, GrantsAlways, Reloads, RoundEnds

(* What a new grant of the store owes to its request. *)
<1>NewGrant.
    ASSUME Types, GrantStep, NEW r \in Grants' \ Grants, r \notin restored'
    PROVE /\ r = r0 /\ prompt'.at = "finish" /\ prompt'.req = r0
          /\ r \in engine'.remembered => prompt.at = "write" /\ pending' = pending
  <2> USE <1>NewGrant
  <2>1. ~ Reloads
    BY DEF Reloads, RoundEnds, Grants
  <2> QED BY <2>1 DEF GrantStep, Shrinks, GrantsOnce, GrantsSession, GrantsAlways, Keeps, Grants

(* An old one is kept through the step. *)
<1>OldGrant.
    ASSUME Types, GrantStep, NEW r \in Grants', r \notin restored'
    PROVE r \notin restored
  <2> USE <1>OldGrant
  <2>1. ~ Reloads
    BY DEF Reloads, RoundEnds, Grants
  <2> QED BY <2>1 DEF GrantStep, Shrinks

(* No grant of a request that ended, but for one being revoked. *)
<1>EndedStep.
    ASSUME Types, Registry, WriterAgrees, StoreIsOrdered, FenceIsClosed, GrantsAreSpent, EndsHold,
           GrantStep, Forward, Agrees(pending', prompt'), [Next]_vars,
           NEW r \in Grants' \ restored', pending'.outcome[r] \in {"ended", "denied"}
    PROVE Chased(pending', prompt', r)
  <2> USE <1>EndedStep
  <2>1. CASE r \notin Grants
    <3>1. prompt'.at = "finish" /\ prompt'.req = r
      BY <2>1, <1>NewGrant, Zenon
    <3> QED BY <3>1 DEF Agrees
  <2>2. CASE r \in Grants
    <3>1. r \in Requests /\ r \notin restored
      BY <2>2, <1>OldGrant, Zenon DEF Types, EngineState, Grants
    <3>2. Spent(pending, prompt, r) /\ ~ (r = prompt.req /\ prompt.at = "abort")
      BY <2>2, Zenon DEF GrantsAreSpent, r0
    <3>3. \/ pending'.outcome[r] = pending.outcome[r]
          \/ Chased(pending', prompt', r)
      BY <3>1, <3>2, Zenon DEF Forward, Moves
    <3>4. CASE pending'.outcome[r] = pending.outcome[r]
      <4>1. Chased(pending, prompt, r)
        BY <2>2, <3>1, <3>4, Zenon DEF EndsHold
      <4> QED BY <3>1, <4>1, <1>ChaseEnds, Zenon
    <3> QED BY <3>3, <3>4
  <2> QED BY <2>1, <2>2

(* None of a request that Revoke all access reached. *)
<1>ThroughStep.
    ASSUME Types, Registry, WriterAgrees, StoreIsOrdered, FenceIsClosed, GrantsAreSpent, EndsHold,
           GrantStep, Forward, Owners, [Next]_vars, NEW r \in Requests, r <= through'
    PROVE /\ Settled(pending', r) /\ r \notin once' \cup engine'.sessions
          /\ r \in engine'.remembered \ restored' => Chased(pending', prompt', r)
  <2> USE <1>ThroughStep
  <2>1. CASE through' = through
    <3>1. /\ Settled(pending, r) /\ r \notin once /\ r \notin engine.sessions
          /\ r \in engine.remembered \ restored => Chased(pending, prompt, r)
      BY <2>1 DEF EndsHold
    <3>2. Settled(pending', r)
      BY <3>1, Zenon DEF Forward, Moves
    <3>3. r \notin once' /\ r \notin engine'.sessions
      BY <3>1, <1>SettledStays, Zenon
    <3>4. ASSUME r \in engine'.remembered \ restored'
          PROVE Chased(pending', prompt', r)
      <4>0. r \in Grants' /\ r \notin restored
        <5>1. r \in Grants' /\ r \notin restored'
          BY <3>4 DEF Grants
        <5> QED BY <5>1, <1>OldGrant, Zenon
      <4>1. CASE r \in engine.remembered
        <5>1. Chased(pending, prompt, r)
          BY <3>1, <4>0, <4>1
        <5> QED BY <3>4, <4>0, <5>1, <1>ChaseEnds
      <4>2. CASE r \notin engine.remembered
        <5>1. r \notin Grants
          BY <3>1, <4>2 DEF Grants
        <5>2. r = r0 /\ prompt'.at = "finish" /\ prompt'.req = r0 /\ prompt.at = "write" /\ pending' = pending
          BY <3>4, <4>0, <5>1, <1>NewGrant
        <5>3. pending.phase[r] = "committing"
          BY <5>2 DEF Registry, Agrees, Deciding, r0
        <5> QED BY <3>1, <5>2, <5>3 DEF Settled, Chased
      <4> QED BY <4>1, <4>2
    <3> QED BY <3>2, <3>3, <3>4
  <2>2. CASE RevokeAllEngine
    <3>1. /\ revoker.at = "engine" /\ through' = revoker.from /\ once' = once /\ pending' = pending
          /\ engine' = Remove(engine, Requests)
      BY <2>2, Zenon DEF RevokeAllEngine
    <3>2. Removes(engine, engine', Requests)
      BY <3>1, RemoveEffect, Zenon DEF Types
    <3>3. Settled(pending, r) /\ r \notin once
      BY <3>1, Zenon DEF EndsHold
    <3> QED BY <3>1, <3>2, <3>3 DEF Removes
  <2> QED BY <2>1, <2>2, Zenon DEF Owners

(* A request up to the count has been opened. *)
<1>OpenedAlready.
    ASSUME Counts, NEW r \in Requests, r <= Cardinality(Opened)
    PROVE pending.phase[r] # "unused"
  <2> USE <1>OpenedAlready
  <2>1. Cardinality(Opened) \in Nat /\ (pending.phase[r] = "unused" => r > Cardinality(Opened))
    BY Zenon DEF Counts
  <2>2. r \in Nat
    BY PendingAssumption DEF Requests
  <2> QED BY <2>1, <2>2

(* Nor of one it is about to reach. *)
<1>FromStep.
    ASSUME Types, Counts, EndsHold, GrantStep, Forward, RevokerOwners, pending' \in PendingState,
           NEW r \in Requests, r <= revoker'.from, revoker'.at \in {"once", "engine"}
    PROVE Settled(pending', r) /\ (revoker'.at = "engine" => r \notin once')
  <2> USE <1>FromStep
  <2>0. Settled(pending, r) => Settled(pending', r)
    BY Zenon DEF Forward, Moves
  <2>1. CASE revoker' = revoker
    <3>1. Settled(pending, r) /\ (revoker.at = "engine" => r \notin once)
      BY <2>1 DEF EndsHold
    <3> QED BY <2>0, <2>1, <3>1, <1>SettledStays, Zenon
  <2>2. CASE RevokeAllPending
    <3>1. /\ pending' = EndWhere(pending, Requests) /\ pending \in PendingState
          /\ revoker' = [at |-> "once", removed |-> {}, from |-> Cardinality(Opened)]
      BY <2>2, Zenon DEF RevokeAllPending, EndPending, Types
    <3>2. AllEnded(pending', Requests)
      BY <3>1, EndWhereEffect, Zenon
    <3>3. revoker'.at = "once" /\ revoker'.from = Cardinality(Opened)
      BY <3>1, Zenon
    <3>4. pending.phase[r] # "unused"
      <4>1. r <= Cardinality(Opened)
        BY <3>3, Zenon
      <4> QED BY <4>1, <1>OpenedAlready, Zenon
    <3>5. pending'.phase[r] # "unused"
      BY <3>4, Zenon DEF Forward, Moves
    <3>6. pending'.phase[r] \in {"unused", "queued", "prompting", "committing", "published", "over"}
      BY Zenon DEF PendingState
    <3>7. Settled(pending', r)
      BY <3>2, <3>5, <3>6, Zenon DEF AllEnded, Settled
    <3> QED BY <3>3, <3>7
  <2>3. CASE RevokeAllOnce
    <3>1. revoker.at = "once" /\ revoker' = [revoker EXCEPT !.at = "engine"] /\ once' = {}
      BY <2>3, Zenon DEF RevokeAllOnce
    <3>2. revoker'.from = revoker.from
      BY <3>1, Zenon DEF Types
    <3> QED BY <2>0, <3>1, <3>2 DEF EndsHold
  <2>9. NotRevoking.at = "idle"
    BY DEF NotRevoking
  <2>4. ~ \/ RevokeAllEngine \/ RevokeAllChecks \/ RevokerDone \/ Rounds
          \/ \E q \in Requests : RevokeEntry(q)
    <3>1. ~ (RevokeAllEngine \/ RevokeAllChecks)
      BY Zenon DEF RevokeAllEngine, RevokeAllChecks, Types
    <3>2. ~ (RevokerDone \/ Rounds)
      BY <2>9, RoundsEnd DEF RevokerDone, RoundEnds
    <3>3. ~ \E q \in Requests : RevokeEntry(q)
      BY Zenon DEF RevokeEntry, NotRevoking
    <3> QED BY <3>1, <3>2, <3>3
  <2>5. CASE WriteFails \/ SyncFails
    <3>1. revoker' = revoker \/ revoker' = NotRevoking
      BY <2>5, Zenon DEF WriteFails, SyncFails, WriteAbandoned
    <3>2. revoker' # NotRevoking
      BY <2>9
    <3> QED BY <2>1, <3>1, <3>2
  <2> QED BY <2>1, <2>2, <2>3, <2>4, <2>5, Zenon DEF RevokerOwners, RevokerSteps

<1> QED
  <2> SUFFICES ASSUME Types, Registry, WriterAgrees, StoreIsOrdered, FenceIsClosed, GrantsAreSpent, EndsHold,
                      Counts, GrantStep, Forward, Agrees(pending', prompt'), pending' \in PendingState,
                      Owners, RevokerOwners, [Next]_vars
               PROVE EndsHold'
    BY Zenon
  <2> QED BY <1>EndedStep, <1>ThroughStep, <1>FromStep, Zenon DEF EndsHold

-----------------------------------------------------------------------------
(* Ends are final: workspaces.                                             *)

(* The workspace has left, and its end has reached the registry. *)
Gone(l) == l \in Lair \ lairs /\ ~ (ending.lair = l /\ ending.at = "pending")

Forgotten(r) ==
  LET l == pending.ask[r].lair
  IN /\ pending.phase[r] = "committing" => pending.ended[r]
     /\ pending.phase[r] = "prompting" => prompt.at = "looking"
     /\ ending.lair # l \/ ending.at = "engine" => r \notin once
     /\ ending.lair # l => r \notin engine.sessions \cup Remembered
     /\ ending.lair # l /\ pending.phase[r] = "committing" => l \in engine.ended_lairs

LairsHold ==
  \A r \in Requests :
    pending.phase[r] # "unused" /\ Gone(pending.ask[r].lair) => Forgotten(r)

(* Every step keeps the requests of a workspace that left forgotten: the   *)
(* old ones, those whose workspace leaves now, and the new ones.           *)
LEMMA LairsStep ==
  /\ Types /\ Registry /\ WriterAgrees /\ LairsHold /\ GrantStep /\ StoreStep /\ Owners
  /\ Forward /\ Agrees(pending', prompt') /\ Opens(pending, pending') /\ [Next]_vars
  /\ GrantsAreSpent'
  => LairsHold'

(* A prompt is shown only for a workspace of the topology. *)
<1>ShownInLair.
    ASSUME Types, WriterAgrees, [Next]_vars, prompt.at = "looking", prompt'.at = "shown"
    PROVE pending.ask[r0].lair \in lairs
  <2> USE <1>ShownInLair
  <2>1. CASE ShowPrompt
    BY <2>1, JobRecords, Zenon DEF ShowPrompt
  <2>2. CASE Rounds
    BY <2>2, RoundsEnd, RoundLeaves
  <2>3. CASE \E c \in Call : EnsurePrompter(c)
    BY <2>3, JobRecords, Zenon DEF EnsurePrompter, NextJob
  <2>4. CASE WriteFails \/ SyncFails
    <3>1. prompt' = prompt
      BY <2>4, Zenon DEF WriteFails, SyncFails, WriteAbandoned, WriterAgrees
    <3> QED BY <3>1
  <2>5. ~ \/ TakePrompt \/ PromptCloses \/ PersonDenies \/ PersonGrants
          \/ CheckCommit \/ PublishOnce \/ PublishSession \/ ProposeAlways \/ PublishAlways
          \/ FinishGrant \/ FinishError \/ RevokeCommitted \/ CommitterDone
    BY Zenon DEF TakePrompt, PromptCloses, PersonDenies, PersonGrants, CheckCommit,
       PublishOnce, PublishSession, ProposeAlways, PublishAlways, FinishGrant, FinishError,
       RevokeCommitted, CommitterDone, WriterAgrees
  <2>6. prompt' # prompt
    OBVIOUS
  <2> QED BY <2>1, <2>2, <2>3, <2>4, <2>5, <2>6, PromptOwners, Zenon DEF CommitSteps

(* What a step that is no restart does to the remembered grants. *)
<1>RememberStep.
    ASSUME Types, Registry, WriterAgrees, StoreStep, ~ Restarts, ~ Resumes
    PROVE /\ \A r \in Remembered' :
               \/ r \in Remembered
               \/ /\ r = r0 /\ pending.phase[r] = "committing"
                  /\ pending.ask[r].lair \notin engine.ended_lairs
          /\ engine.ended_lairs \subseteq engine'.ended_lairs
  <2> USE <1>RememberStep
  <2>1. CASE Rests
    BY <2>1 DEF Rests, Keeps, Remembered
  <2>2. CASE Revokes
    <3>1. Remembered' \subseteq Remembered
      BY <2>2 DEF Revokes, Removes, Remembered
    <3>2. CASE EndLairEngine
      <4> DEFINE removed == EndLair(engine, OfLair(ending.lair), ending.lair)
      <4>1. engine \in EngineState /\ ending.lair \in Lair \cup {NoLair} /\ "task" \in Waiters
        BY DEF Types, Waiters, Writers
      <4>2. removed = EndLair(engine, OfLair(ending.lair), ending.lair)
            /\ (engine' = removed \/ engine' = Want(removed, "task"))
        BY <3>2, Zenon DEF EndLairEngine
      <4> HIDE DEF removed
      <4>3. Removes(engine, removed, OfLair(ending.lair)) /\ Leaves(engine, removed, ending.lair)
        BY <4>1, <4>2, EndLairEffect, Zenon
      <4>4. removed \in EngineState /\ engine.ended_lairs \subseteq removed.ended_lairs
        BY <4>3, Zenon DEF Removes, Leaves
      <4>5. engine' = Want(removed, "task") => Keeps(removed, engine')
        BY <4>1, <4>4, WantEffect, Zenon
      <4> QED BY <3>1, <4>2, <4>4, <4>5 DEF Keeps
    <3>3. CASE engine'.ended_lairs = engine.ended_lairs
      BY <3>1, <3>3
    <3> QED BY <2>2, <3>2, <3>3, Zenon DEF Revokes
  <2>3. CASE Proposes \/ Flushes
    BY <2>3 DEF Proposes, Flushes, Locks, Remembered
  <2>4. CASE Fails \/ Flushed
    BY <2>4 DEF Fails, Flushed, Unlocks, Remembered
  <2>5. CASE Renames \/ Syncs
    BY <2>5, Zenon DEF Renames, Syncs, Writes, Remembered
  <2>6. CASE Publishes
    <3>1. /\ engine'.ended_lairs = engine.ended_lairs /\ engine'.missing = engine.missing
          /\ \/ engine'.remembered = engine.remembered
             \/ /\ pending.ask[r0].lair \notin engine.ended_lairs
                /\ engine'.remembered \subseteq engine.remembered \cup {r0}
      BY <2>6, Zenon DEF Publishes, Publication, Unlocks
    <3>2. pending.phase[r0] = "committing"
      BY <2>6, Zenon DEF Publishes, Registry, Agrees, Deciding, r0
    <3> QED BY <3>1, <3>2 DEF Remembered
  <2> QED BY <2>1, <2>2, <2>3, <2>4, <2>5, <2>6, Zenon DEF StoreStep

(* The start of a round forgets what it must. *)
<1>RoundForgets.
    ASSUME Types, Owners, Restarts \/ Resumes,
           NEW r \in Requests, pending.phase[r] # "unused", Gone(pending.ask[r].lair)'
    PROVE Forgotten(r)'
  <2> USE <1>RoundForgets
  <2>1. RoundEnds
    BY Zenon DEF Restarts, Resumes
  <2>2. /\ pending'.phase[r] = "over" /\ pending'.ask = pending.ask /\ once' = {}
    BY <2>1, RoundLeaves, Zenon
  <2>3. lairs' = lairs
    <3>1. ending'.at = "idle"
      BY <2>1 DEF RoundEnds
    <3> QED BY <3>1 DEF Owners, LairLeaves
  <2>4. r \in Absent
    BY <2>2, <2>3 DEF Absent, Opened, InPhase, Gone
  <2>5. r \notin engine'.sessions \cup Remembered'
    BY <2>4, Zenon DEF Restarts, Resumes, Loads, Remembered
  <2> QED BY <2>2, <2>5 DEF Forgotten

(* A request of a workspace that left stays without a way to a grant. *)
<1>GoneStays.
    ASSUME Types, Registry, WriterAgrees, GrantStep, StoreStep, Owners, ~ Restarts, ~ Resumes,
           Forward, Agrees(pending', prompt'), [Next]_vars,
           NEW r \in Requests, pending.phase[r] # "unused",
           Gone(pending.ask[r].lair), Gone(pending.ask[r].lair)', Forgotten(r)
    PROVE Forgotten(r)'
  <2> USE <1>GoneStays
  <2> DEFINE l == pending.ask[r].lair
  <2>0. pending'.ask[r].lair = l /\ l \in Lair /\ l \notin lairs /\ l # NoLair /\ ~ Rounds
    <3>1. pending'.ask[r] = pending.ask[r]
      BY Zenon DEF Forward, Moves
    <3>2. l \in Lair /\ l \notin lairs
      BY Zenon DEF Gone
    <3> QED BY <3>1, <3>2, PendingAssumption, RestartLoads, ResumeLoads, Zenon DEF NoLair, Rounds
  <2>1. /\ pending.phase[r] = "committing" => pending.ended[r]
        /\ pending.phase[r] = "prompting" => prompt.at = "looking"
        /\ ending.lair # l \/ ending.at = "engine" => r \notin once
        /\ ending.lair # l => r \notin engine.sessions /\ r \notin Remembered
        /\ ending.lair # l /\ pending.phase[r] = "committing" => l \in engine.ended_lairs
    BY Zenon DEF Forgotten
  <2>2. Moves(pending, prompt, pending', prompt', r)
    BY Zenon DEF Forward
  <2> HIDE DEF l
  <2>3. pending'.phase[r] = "committing" => pending.phase[r] = "committing" /\ pending'.ended[r]
    BY <2>1, <2>2, Zenon DEF Moves
  <2>4. pending'.phase[r] = "prompting" => prompt'.at = "looking"
    <3> SUFFICES ASSUME pending'.phase[r] = "prompting", prompt'.at # "looking" PROVE FALSE
      BY Zenon
    <3>1. pending.phase[r] = "prompting" /\ (prompt'.at = prompt.at \/ r = prompt.req)
      BY <2>2, Zenon DEF Moves
    <3>2. prompt.at = "looking" /\ r = r0
      BY <2>1, <3>1, Zenon DEF r0
    <3>3. prompt'.at = "shown"
      BY DEF Agrees, Showing
    <3>4. l \in lairs
      BY <3>2, <3>3, <1>ShownInLair, Zenon DEF l
    <3> QED BY <2>0, <3>4, Zenon
  <2>5. /\ r \notin once => r \notin once'
        /\ r \notin engine.sessions => r \notin engine'.sessions
    <3>1. Live(pending, r0) => r # r0
      BY <2>1, Zenon DEF Live
    <3> QED BY <3>1 DEF GrantStep, Shrinks, GrantsOnce, GrantsSession, GrantsAlways, Reloads, RoundEnds
  <2>6. /\ r \in Remembered' => r \in Remembered \/ (pending.phase[r] = "committing" /\ l \notin engine.ended_lairs)
        /\ engine.ended_lairs \subseteq engine'.ended_lairs
    BY <1>RememberStep, Zenon DEF l
  <2>7. CASE ending' = ending
    BY <2>0, <2>1, <2>3, <2>4, <2>5, <2>6, <2>7, Zenon DEF Forgotten
  <2>8. CASE EndLairOnce
    <3>1. /\ ending'.lair = ending.lair /\ ending.at = "once" /\ ending'.at = "engine"
          /\ once' = once \ OfLair(ending.lair)
      BY <2>8 DEF EndLairOnce, Types
    <3>2. ending.lair = l => r \notin once'
      BY <3>1, Zenon DEF OfLair, Opened, InPhase, l
    <3> QED BY <2>0, <2>1, <2>3, <2>4, <2>5, <2>6, <3>1, <3>2, Zenon DEF Forgotten
  <2>9. CASE EndLairEngine
    <3>1. ending.at = "engine" /\ ending'.at = "idle" /\ ending'.lair = NoLair
      BY <2>9, Zenon DEF EndLairEngine
    <3>2. Removes(engine, engine', OfLair(ending.lair)) /\ ending.lair \in engine'.ended_lairs
      BY <2>9, LairEngineEnds, Zenon
    <3>3. ending.lair = l => r \notin engine'.sessions /\ r \notin Remembered'
      BY <3>2, Zenon DEF Removes, OfLair, Opened, InPhase, l, Remembered
    <3> QED BY <2>0, <2>1, <2>3, <2>4, <2>5, <2>6, <3>1, <3>2, <3>3, Zenon DEF Forgotten
  <2>10. CASE EndLairPending \/ \E k \in Lair : LairLeaves(k)
    <3>1. ending.lair # l
      BY <2>0, <2>10 DEF EndLairPending, LairLeaves, Types, Gone, l
    <3> QED BY <2>0, <2>1, <2>3, <2>4, <2>5, <2>6, <3>1, Zenon DEF Forgotten
  <2> QED BY <2>0, <2>7, <2>8, <2>9, <2>10, Zenon DEF Owners, EndingSteps

<1> QED
  <2> SUFFICES ASSUME Types, Registry, WriterAgrees, LairsHold, GrantStep, StoreStep, Owners,
                      Forward, Agrees(pending', prompt'), Opens(pending, pending'), [Next]_vars, GrantsAreSpent'
               PROVE LairsHold'
    BY Zenon
  <2> SUFFICES ASSUME NEW r \in Requests, pending'.phase[r] # "unused", Gone(pending.ask[r].lair)'
               PROVE Forgotten(r)'
    BY Zenon DEF LairsHold
  <2>1. CASE pending.phase[r] = "unused"
    <3>1. pending'.phase[r] = "queued"
      BY <2>1, Zenon DEF Opens, OpensNone
    <3>2. ~ Spent(pending', prompt', r)
      BY <3>1, Zenon DEF Spent, Agrees, Deciding
    <3>3. r \notin Grants'
      BY <3>2, Zenon DEF GrantsAreSpent
    <3> QED BY <3>1, <3>3, Zenon DEF Forgotten, Grants, Remembered
  <2>2. CASE pending.phase[r] # "unused" /\ (Restarts \/ Resumes)
    BY <2>2, <1>RoundForgets, Zenon
  <2>3. CASE pending.phase[r] # "unused" /\ ~ Restarts /\ ~ Resumes
    <3> DEFINE l == pending.ask[r].lair
    <3>1. pending'.ask[r] = pending.ask[r]
      BY <2>3, Zenon DEF Forward, Moves
    <3>2. Gone(l)'
      BY <3>1, Zenon
    <3>3. CASE Gone(l)
      <4>1. Forgotten(r)
        BY <2>3, <3>3, Zenon DEF LairsHold
      <4> QED BY <2>3, <3>2, <3>3, <4>1, <1>GoneStays, Zenon
    <3>4. CASE ~ Gone(l)
      <4>0. ~ Rounds
        BY <2>3, RestartLoads, ResumeLoads, Zenon DEF Rounds
      <4>1. ~ \E k \in Lair : LairLeaves(k)
        <5> SUFFICES ASSUME NEW k \in Lair, LairLeaves(k) PROVE FALSE
          BY Zenon
        <5>1. /\ ending'.lair = k /\ ending'.at = "pending" /\ ending.at = "idle"
              /\ lairs' = lairs \ {k}
          BY Zenon DEF LairLeaves
        <5>2. l \in Lair \ lairs' /\ l # k
          BY <3>1, <3>2, <5>1, Zenon DEF Gone
        <5>3. l \notin lairs
          BY <5>1, <5>2
        <5> QED BY <3>4, <5>1, <5>2, <5>3, Zenon DEF Gone
      <4>2. lairs' = lairs
        BY <4>1, Zenon DEF Owners
      <4>3. ending.lair = l /\ ending.at = "pending" /\ ending' # ending
        BY <3>1, <3>2, <3>4, <4>2, Zenon DEF Gone
      <4>4. EndLairPending
        BY <4>0, <4>1, <4>3 DEF Owners, EndingSteps, EndLairOnce, EndLairEngine
      <4>5. /\ pending' = EndWhere(pending, OfLair(ending.lair)) /\ pending \in PendingState
            /\ ending' = [ending EXCEPT !.at = "once"]
        BY <4>4, Zenon DEF EndLairPending, Types
      <4>6. AllEnded(pending', OfLair(ending.lair))
        BY <4>5, EndWhereEffect, Zenon
      <4>7. r \in OfLair(ending.lair)
        BY <2>3, <4>3 DEF OfLair, Opened, InPhase
      <4>8. ending'.lair = l /\ ending'.at = "once"
        BY <4>3, <4>5, Zenon DEF Types
      <4> QED BY <3>1, <4>6, <4>7, <4>8, Zenon DEF AllEnded, Forgotten
    <3> QED BY <3>3, <3>4, Zenon
  <2> QED BY <2>1, <2>2, <2>3, Zenon

(* What follows for the grants. *)
LEMMA EndsFinal ==
  ASSUME Types, EndsHold, LairsHold
  PROVE EndsAreFinal
<1>1. InForce \subseteq Grants /\ Grants \subseteq Requests
  BY DEF InForce, Sessions, Remembered, Grants, Types, EngineState
<1>2. \A r : Chased(pending, prompt, r) => InCommit(r)
  BY DEF Chased, InCommit, Committing, r0
<1>3. EndedWins
  BY <1>1, <1>2 DEF EndedWins, EndsHold
<1>4. RevokeAllIsFinal
  BY <1>1, <1>2 DEF RevokeAllIsFinal, EndsHold, InForce, Sessions, Remembered
<1>5. LairEndIsFinal
  <2> SUFFICES ASSUME NEW l \in Lair \ lairs, ending.lair # l, NEW r \in OfLair(l) \cap InForce
               PROVE FALSE
    BY DEF LairEndIsFinal
  <2>1. r \in Requests /\ pending.phase[r] # "unused" /\ pending.ask[r].lair = l
    BY DEF OfLair, Opened, InPhase
  <2>2. Gone(pending.ask[r].lair)
    BY <2>1 DEF Gone
  <2>3. Forgotten(r)
    BY <2>1, <2>2, Zenon DEF LairsHold
  <2> QED BY <2>1, <2>3 DEF Forgotten, InForce, Sessions
<1> QED BY <1>3, <1>4, <1>5, Zenon DEF EndsAreFinal

-----------------------------------------------------------------------------
(* The whole.                                                              *)

Inv ==
  /\ Types /\ Registry /\ WriterAgrees
  /\ StoreIsOrdered /\ GrantsAreSpent /\ RevocationsHold /\ GrantsAreDurable
  /\ FenceIsClosed /\ QueueHasPrompter /\ EndsHold /\ LairsHold

(* The requests that were opened are the first so many. *)
LEMMA OpenedCount ==
  ASSUME NumberFacts, Types, Registry
  PROVE Counts
<1>1. PICK k \in 0..MaxRequests : \A r \in Requests : pending.phase[r] = "unused" <=> r > k
  BY Zenon DEF Registry, InOrder
<1>2. k \in Nat /\ MaxRequests \in Nat
  BY PendingAssumption
<1>3. Opened = 1..k
  BY <1>1, <1>2 DEF Opened, InPhase, Requests
<1>4. Cardinality(1..k) = k
  BY <1>2, Zenon DEF NumberFacts
<1> QED BY <1>1, <1>2, <1>3, <1>4 DEF Counts

(* It holds at the start. *)
LEMMA InitInv ==
  ASSUME Init
  PROVE Inv
<1>0. /\ pending = NoRequests /\ engine = NoDefinitions /\ once = {} /\ prompt = Off
      /\ calls = [c \in Call |-> Idle] /\ lairs = Lair
      /\ ending = [at |-> "idle", lair |-> NoLair] /\ revoker = NotRevoking /\ fence = "idle"
      /\ through = 0 /\ confirmed = {} /\ restored = {} /\ upsets = 0
  BY Zenon DEF Init
<1>1. pending \in PendingState
  <2>1. NoAsk \in Asks
    BY DEF Asks
  <2> QED BY <1>0, <2>1, Zenon DEF NoRequests, PendingState
<1>2. engine \in EngineState
  BY <1>0, Zenon DEF NoDefinitions, EngineState, Writers
<1>3. calls \in [Call -> [at : {"idle", "asking", "opened", "waiting"},
                          req : 0..MaxRequests, ask : Asks]]
  <2>1. 0 \in 0..MaxRequests
    BY PendingAssumption
  <2>2. Idle \in [at : {"idle", "asking", "opened", "waiting"}, req : 0..MaxRequests, ask : Asks]
    BY <2>1, Zenon DEF Idle, Asks
  <2> QED BY <1>0, <2>2, Zenon
<1>4. /\ prompt \in PromptState /\ prompt.at = "off"
      /\ revoker \in [at : {"idle", "once", "engine", "check", "flush"},
                      removed : SUBSET Requests, from : Nat]
      /\ revoker.at = "idle" /\ revoker.removed = {}
  BY <1>0, JobRecords DEF NotRevoking
<1>5. Types
  BY <1>0, <1>1, <1>2, <1>3, <1>4 DEF Types
<1>6. /\ pending.prompter = FALSE
      /\ \A r \in Requests : /\ pending.phase[r] = "unused" /\ pending.ended[r] = FALSE
                             /\ pending.outcome[r] = "none"
  BY <1>0 DEF NoRequests
<1>7. Registry
  <2>1. Agrees(pending, prompt)
    BY <1>4, <1>6, Zenon DEF Agrees, Showing, Deciding
  <2>2. InOrder(pending)
    <3>1. 0 \in 0..MaxRequests /\ \A r \in Requests : pending.phase[r] = "unused" <=> r > 0
      BY <1>6, PendingAssumption DEF Requests
    <3> QED BY <3>1, Zenon DEF InOrder
  <2> QED BY <1>4, <1>6, <2>1, <2>2 DEF Registry
<1>8. /\ engine.writer = "none" /\ engine.stage = "idle" /\ engine.proposal = {}
      /\ engine.remembered = {} /\ engine.removals = {} /\ engine.file = {} /\ engine.disk = {{}}
      /\ engine.sessions = {} /\ engine.missing = {} /\ engine.wants = {}
  BY <1>0, Zenon DEF NoDefinitions
<1>9. WriterAgrees /\ StoreIsOrdered
  BY <1>4, <1>8, Zenon DEF WriterAgrees, StoreIsOrdered, Writing
<1>10. GrantsAreSpent
  BY <1>0, <1>4, <1>8, Zenon DEF GrantsAreSpent, Grants
<1>11. RevocationsHold
  BY <1>0, <1>4, <1>8, Zenon DEF RevocationsHold, Flushing
<1>12. GrantsAreDurable
  BY <1>8, Zenon DEF GrantsAreDurable
<1>13. FenceIsClosed /\ QueueHasPrompter
  BY <1>0, <1>6, Zenon DEF FenceIsClosed, Fenced, NothingPendsUnderFence, QueueHasPrompter, InPhase
<1>14. EndsHold
  <2>1. Grants = {} /\ revoker.at \notin {"once", "engine"}
    BY <1>0, <1>4, <1>8 DEF Grants
  <2>2. \A r \in Requests : ~ (r <= through)
    BY <1>0, PendingAssumption DEF Requests
  <2> QED BY <2>1, <2>2, Zenon DEF EndsHold
<1>15. LairsHold
  BY <1>6, Zenon DEF LairsHold
<1> QED BY <1>5, <1>7, <1>9, <1>10, <1>11, <1>12, <1>13, <1>14, <1>15, Zenon DEF Inv

(* Every step keeps it. *)
LEMMA NextInv ==
  ASSUME NumberFacts, Inv, [Next]_vars
  PROVE Inv'
<1>1. /\ Types /\ Registry /\ WriterAgrees
      /\ StoreIsOrdered /\ GrantsAreSpent /\ RevocationsHold /\ GrantsAreDurable
      /\ FenceIsClosed /\ QueueHasPrompter /\ EndsHold /\ LairsHold
  BY Zenon DEF Inv
<1>2. Counts
  BY <1>1, OpenedCount, Zenon
<1>3. /\ RegistryAdmits /\ Registry'
      /\ OpensNone(pending, pending') \/ \E c \in Call : AdmitStep(c)
  BY <1>1, RegistryStep, Zenon
<1>4. /\ pending' \in PendingState /\ Agrees(pending', prompt') /\ Opens(pending, pending') /\ Forward
  BY <1>3, Zenon DEF RegistryAdmits, Admits, Forward
<1>5. GrantStep /\ StoreStep /\ (restored' = restored \/ Restarts)
  BY <1>1, GrantSteppers, Zenon
<1>6. Owners /\ RevokerOwners
  BY Ownership, Zenon
<1>7. Types' /\ WriterAgrees'
  BY <1>1, <1>2, <1>5, TypesStep, WriterStep, Zenon
<1>8. GrantsAreSpent'
  BY <1>1, <1>4, <1>5, <1>6, SpentStep, Zenon
<1>9. StoreIsOrdered'
  BY <1>1, <1>4, <1>5, OrderedStep, Zenon
<1>10. RevocationsHold'
  BY <1>1, <1>4, <1>5, <1>6, RevocationsStep, Zenon
<1>11. GrantsAreDurable'
  BY <1>1, <1>4, <1>5, DurableStep, Zenon
<1>12. FenceIsClosed'
  BY <1>1, <1>3, <1>4, FenceStep, Zenon
<1>13. QueueHasPrompter'
  BY <1>1, <1>3, <1>4, QueueStep, Zenon
<1>14. EndsHold'
  BY <1>1, <1>2, <1>4, <1>5, <1>6, EndsStep, Zenon
<1>15. LairsHold'
  BY <1>1, <1>4, <1>5, <1>6, <1>8, LairsStep, Zenon
<1> QED BY <1>3, <1>7, <1>8, <1>9, <1>10, <1>11, <1>12, <1>13, <1>14, <1>15, Zenon DEF Inv

(* It is what the theorems say of a state. *)
LEMMA InvStates ==
  ASSUME Inv
  PROVE EndsAreFinal /\ StoreKeepsItsWord /\ QueueHasPrompter /\ NothingPendsUnderFence
<1>1. Types /\ Registry /\ WriterAgrees /\ StoreIsOrdered /\ GrantsAreSpent
  BY Zenon DEF Inv
<1>2. RevocationsHold /\ GrantsAreDurable
  BY Zenon DEF Inv
<1>3. EndsAreFinal
  BY EndsFinal, Zenon DEF Inv
<1>4. ConfirmedIsDurable
  BY <1>2 DEF RevocationsHold, ConfirmedIsDurable
<1>5. StoreIsAccountedFor
  <2>1. engine.stage \in {"idle", "write", "sync", "publish"}
    BY <1>1 DEF Types, EngineState
  <2> QED BY <1>1, <2>1, Zenon DEF StoreIsOrdered, StoreIsAccountedFor
<1>6. AlwaysIsDurable
  BY <1>1, <1>2, DurableGrants, Zenon
<1>7. QueueHasPrompter /\ NothingPendsUnderFence
  BY Zenon DEF Inv, FenceIsClosed
<1> QED BY <1>3, <1>4, <1>5, <1>6, <1>7, Zenon DEF StoreKeepsItsWord

(* And what they say of a step. *)
LEMMA InvSteps ==
  ASSUME Inv, [Next]_vars
  PROVE /\ Fenced /\ Fenced' =>
             /\ InForce' \subseteq InForce
             /\ engine'.file \subseteq engine.file \cup engine.remembered \cup engine.removals
        /\ upsets' = upsets => engine.removals \cap engine'.remembered = {}
<1>1. Types /\ Registry /\ WriterAgrees /\ StoreIsOrdered /\ GrantsAreSpent /\ FenceIsClosed
  BY Zenon DEF Inv
<1>2. GrantStep /\ StoreStep
  BY <1>1, GrantSteppers, Zenon
<1>3. ASSUME Fenced, Fenced'
      PROVE /\ InForce' \subseteq InForce
            /\ engine'.file \subseteq engine.file \cup engine.remembered \cup engine.removals
  BY <1>1, <1>2, <1>3, FencedStep
<1>4. ASSUME upsets' = upsets PROVE engine.removals \cap engine'.remembered = {}
  BY <1>1, <1>2, <1>4, RevokedStep, Zenon
<1> QED BY <1>3, <1>4, Zenon

-----------------------------------------------------------------------------
(* The facts about numbers, from the library.                              *)

INSTANCE FiniteSetTheorems

(* Both hold. *)
LEMMA NumberFactsHold == NumberFacts
<1>1. ASSUME NEW R \in SUBSET Nat, R # {}
      PROVE Min(R) \in R /\ \A q \in R : Min(R) <= q
  <2> DEFINE less == OpToRel(<, Nat)
  <2>1. IsWellFoundedOn(less, Nat)
    BY NatLessThanWellFounded, Zenon
  <2>2. \A x, y \in Nat : <<y, x>> \in less <=> y < x
    BY DEF OpToRel
  <2> HIDE DEF less
  <2>3. PICK x \in R : \A y \in R : ~ (<<y, x>> \in less)
    BY <1>1, <2>1, WFMin, Zenon
  <2>4. \A y \in R : ~ (y < x)
    BY <2>2, <2>3, Zenon
  <2>5. \A y \in R : x <= y
    BY <2>4
  <2> QED BY <2>5, Zenon DEF Min
<1>2. ASSUME NEW k \in Nat PROVE Cardinality(1..k) = k
  <2>1. Cardinality(1..k) = IF 1 > k THEN 0 ELSE k - 1 + 1
    BY FS_Interval
  <2> QED BY <2>1
<1> QED BY <1>1, <1>2, Zenon DEF NumberFacts

-----------------------------------------------------------------------------
(* The theorems.                                                           *)

(* The invariant holds throughout. *)
THEOREM ConsentInvariant == Spec => []Inv
<1>1. Init => Inv
  BY InitInv, Zenon
<1>2. Inv /\ [Next]_vars => Inv'
  BY NextInv, NumberFactsHold, Zenon
<1> QED BY <1>1, <1>2, PTL DEF Spec

(* "An end that arrives during the commit wins" (settle_lair_prompt): what *)
(* was cancelled, denied, fenced or revoked with everything else, or asked *)
(* for a workspace that has left, is not in force, whatever was being      *)
(* shown, committed or written meanwhile.                                  *)
THEOREM AnEndWins == Spec => []EndsAreFinal
<1>1. Inv => EndsAreFinal
  BY InvStates, Zenon
<1> QED BY <1>1, ConsentInvariant, PTL

(* A removal the daemon confirmed and a remembered grant it gave survive a *)
(* power failure at any step of a write, and a failed write leaves no      *)
(* entry behind unnoticed (DurableFile::write, commit_remembered, flush).  *)
THEOREM StoreIsHonest == Spec => []StoreKeepsItsWord
<1>1. Inv => StoreKeepsItsWord
  BY InvStates, Zenon
<1> QED BY <1>1, ConsentInvariant, PTL

(* A queued request always has a prompter to show it, or the call that     *)
(* queued it is about to claim the role (ensure_consent_prompter).         *)
THEOREM QueueIsServed == Spec => []QueueHasPrompter
<1>1. Inv => QueueHasPrompter
  BY InvStates, Zenon
<1> QED BY <1>1, ConsentInvariant, PTL

(* Under the handoff fence no request is pending, no grant comes into      *)
(* force and no answer reaches the store (ADR 0014).                       *)
THEOREM FenceIsKept == Spec => FenceHolds
<1>1. Inv => NothingPendsUnderFence
  BY InvStates, Zenon
<1>2. Inv /\ [Next]_vars =>
        [Fenced /\ Fenced' =>
           /\ InForce' \subseteq InForce
           /\ engine'.file \subseteq engine.file \cup engine.remembered \cup engine.removals]_vars
  BY InvSteps, Zenon
<1> QED BY <1>1, <1>2, ConsentInvariant, PTL DEF Spec, FenceHolds

(* What this process revoked stays revoked in it, resumed rounds included, *)
(* also while the removal from the file is still owed.                     *)
THEOREM RevocationIsKept == Spec => RevokedStaysRevoked
<1>1. Inv /\ [Next]_vars => [upsets' = upsets => engine.removals \cap engine'.remembered = {}]_vars
  BY InvSteps, Zenon
<1> QED BY <1>1, ConsentInvariant, PTL DEF Spec, RevokedStaysRevoked

=============================================================================

---------------------------- MODULE PendingAccess ----------------------------
(***************************************************************************)
(* The registry of pending workspace access requests (PendingAccess,       *)
(* crates/splinterd/src/pending_access.rs).                                *)
(*                                                                         *)
(* The registry is one record behind one mutex, so each method is one      *)
(* step, written as an operator from a registry to a registry.  Requests   *)
(* are numbered in arrival order, so the prompt queue is the order of the  *)
(* numbers and a request is named by its number for good.  Clocks are left *)
(* out: a lifetime or a cooldown may run out whenever the code looks.      *)
(* Every error that is not a deny is "ended".  Requests of a process that  *)
(* cannot be identified are left out: they are refused at once.            *)
(***************************************************************************)
EXTENDS Naturals, FiniteSets

CONSTANTS Process,       \* requesting processes (ProcessKey)
          Identity,      \* Identity[p]: the executable identity of process p
          Lair,          \* workspaces
          Scopes,        \* sets of access scopes a request may ask for
          MaxRequests,   \* requests this model opens
          MaxPending,    \* MAX_PENDING_TOTAL
          MaxDenials     \* MAX_UNCOLLECTED_DENIALS

ASSUME PendingAssumption ==
  /\ MaxRequests \in Nat
  /\ MaxPending \in Nat \ {0}
  /\ MaxDenials \in Nat \ {0}
  /\ "none" \notin Lair

Requests == 1 .. MaxRequests

NoAsk == [process |-> "none", lair |-> "none", scopes |-> {}]
\* A request is unused, queued, prompting, committing, published, then over;
\* its outcome is granted, denied or ended.
NoRequests ==
  [phase |-> [r \in Requests |-> "unused"],
   ended |-> [r \in Requests |-> FALSE],       \* Phase::Committing { ended }
   ask |-> [r \in Requests |-> NoAsk],
   outcome |-> [r \in Requests |-> "none"],    \* the watch channel of the request
   denials |-> {},                             \* uncollected denials
   cooldowns |-> {},                           \* denied requests still cooling down
   prompter |-> FALSE,                         \* prompter_running
   closed |-> FALSE]

-----------------------------------------------------------------------------
InPhase(p, phases) == {r \in Requests : p.phase[r] \in phases}

\* Inner.entries.
Entries(p) == InPhase(p, {"queued", "prompting", "committing", "published"})

EntriesFor(p, a) ==
  {r \in Entries(p) : p.ask[r].process = a.process /\ p.ask[r].lair = a.lair}

\* The executable identity and workspace a grant or a cooldown binds.
Key(p, r) == <<Identity[p.ask[r].process], p.ask[r].lair>>

\* Entry::deliver: the entry leaves with an outcome, and its prompt closes.
Deliver(p, R, result) ==
  [p EXCEPT !.phase = [r \in Requests |-> IF r \in R THEN "over" ELSE p.phase[r]],
            !.ended = [r \in Requests |-> p.ended[r] /\ r \notin R],
            !.outcome = [r \in Requests |-> IF r \in R THEN result ELSE p.outcome[r]]]

\* The prompt of an ended request is closed (PromptCancel).
PromptClosed(p, r) == p.phase[r] = "over"

Min(R) == CHOOSE r \in R : \A q \in R : r <= q

-----------------------------------------------------------------------------
(* Inner::prune: what the clock has let go by the time of the next call. *)
Prune(p, denials, cooldowns) ==
  [p EXCEPT !.denials = denials, !.cooldowns = cooldowns]

(* admit, in the order of its checks.  Only the last answer opens an entry. *)
Admission(p, a, pinned) ==
  CASE p.closed -> "refused"
    [] \E d \in p.denials : p.ask[d] = a -> "collected"
    [] EntriesFor(p, a) # {} ->
         IF \E r \in EntriesFor(p, a) : p.ask[r] = a THEN "joined" ELSE "refused"
    [] \E d \in p.cooldowns : Key(p, d) = <<Identity[a.process], a.lair>> -> "refused"
    [] Cardinality(Entries(p)) >= MaxPending -> "refused"
    [] ~pinned -> "refused"
    [] OTHER -> "opened"

Collect(p, a) == [p EXCEPT !.denials = @ \ {Min({d \in p.denials : p.ask[d] = a})}]

Open(p, a, r) == [p EXCEPT !.phase[r] = "queued", !.ask[r] = a]

\* claim_prompter.
ClaimPrompter(p) == [p EXCEPT !.prompter = TRUE]

\* Mutant: the prompter keeps its role when it stops.
NextPromptKeepsRole(p) ==
  LET queued == InPhase(p, {"queued"})
  IN IF queued = {} THEN p ELSE [p EXCEPT !.phase[Min(queued)] = "prompting"]

(* next_prompt: the oldest queued request is shown, or the role is given   *)
(* back, under the same lock.                                              *)
NextPrompt(p) ==
  LET queued == InPhase(p, {"queued"})
  IN IF queued = {} THEN [p EXCEPT !.prompter = FALSE]
                    ELSE [p EXCEPT !.phase[Min(queued)] = "prompting"]

-----------------------------------------------------------------------------
(* end_where: queued and prompting requests leave at once; committing ones *)
(* are marked for the committer; a published grant is already out.         *)
EndWhere(p, R) ==
  [Deliver(p, R \cap InPhase(p, {"queued", "prompting"}), "ended") EXCEPT
     !.ended = [r \in Requests |-> p.ended[r] \/ (r \in R /\ p.phase[r] = "committing")]]

\* close.
Close(p) == [EndWhere(p, Requests) EXCEPT !.closed = TRUE]

\* A deny no call is waiting for is kept for its requester, within the bound.
KeepDenial(p, r, heard) ==
  IF heard THEN p.denials
  ELSE (IF Cardinality(p.denials) = MaxDenials THEN p.denials \ {Min(p.denials)} ELSE p.denials)
         \cup {r}

(* deny: `heard` says whether a call still holds the watch channel. *)
Deny(p, r, heard) ==
  [Deliver(p, {r}, "denied") EXCEPT
     !.cooldowns = p.cooldowns \cup {r},
     !.denials = KeepDenial(p, r, heard)]

-----------------------------------------------------------------------------
BeginCommit(p, r) == [p EXCEPT !.phase[r] = "committing"]

\* publish_if_live: may this committing request's grant become visible?
Live(p, r) == p.phase[r] = "committing" /\ ~p.ended[r]

Publish(p, r) == [p EXCEPT !.phase[r] = "published"]

(* finish_commit: an end recorded meanwhile takes the place of the grant. *)
FinishCommit(p, r, result) == Deliver(p, {r}, IF p.ended[r] THEN "ended" ELSE result)

=============================================================================

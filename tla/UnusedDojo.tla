------------------------------ MODULE UnusedDojo ------------------------------
(***************************************************************************)
(* Closing a Dojo only if nobody has used it (Request::CloseUnusedDojo),   *)
(* against everything that may use it meanwhile: client input and focus    *)
(* reports, Windows attaching and detaching, the capture of the terminal   *)
(* for a daemon handoff, and renames or splits.  One Dojo, with the one    *)
(* Splint it was created with.                                             *)
(*                                                                         *)
(* Closers and organizers hold the topology transaction.  Input takes no   *)
(* lock: it is ordered by the compare-and-swap of the use latch.  A Window *)
(* is counted, and the latch claimed, under the attachment registry's      *)
(* lock, so each of those is one step.                                     *)
(***************************************************************************)

CONSTANTS Closer,   \* connections that ask for the close
          Typist,   \* connections that send input
          Window    \* connections that attach to the terminal

VARIABLES latch,      \* UseLatch
          attached,   \* the Windows AttachmentRegistry counts
          dojo,       \* is the Dojo in the topology?
          organized,  \* has it been renamed or split?
          holder,     \* who holds the topology transaction; {} if nobody
          closing,    \* where each close is
          typing,     \* has an input of this Typist been accepted? else, the last answer
          attaching,  \* where each attach is
          capture     \* where the actor is in capturing the terminal

vars == <<latch, attached, dojo, organized, holder, closing, typing, attaching, capture>>

Init ==
  /\ latch = "unused" /\ attached = {} /\ dojo = TRUE /\ organized = FALSE /\ holder = {}
  /\ closing = [c \in Closer |-> "idle"]
  /\ typing = [t \in Typist |-> "idle"]
  /\ attaching = [w \in Window |-> "away"]
  /\ capture = "none"

-----------------------------------------------------------------------------
(* UseLatch::record_input(true), a compare-and-swap. *)
RecordUse == latch' = IF latch = "unused" THEN "used" ELSE latch

(* LiveSplintHandle::input: accepted unless a close has claimed the latch. *)
Input(t) ==
  /\ RecordUse
  /\ typing' = [typing EXCEPT ![t] = IF latch' = "used" THEN "accepted" ELSE "refused"]
  /\ UNCHANGED <<attached, dojo, organized, holder, closing, attaching, capture>>

(* LiveSplintHandle::focus_report: refused by a claim, but not a use. *)
FocusReport(t) ==
  /\ typing[t] # "accepted"
  /\ typing' = [typing EXCEPT ![t] = IF latch = "retiring" THEN "refused" ELSE "reported"]
  /\ UNCHANGED <<latch, attached, dojo, organized, holder, closing, attaching, capture>>

(* Request::Attach has found the live runtime and made the subscription. *)
BeginAttach(w) ==
  /\ dojo /\ attaching[w] = "away"
  /\ attaching' = [attaching EXCEPT ![w] = "pending"]
  /\ UNCHANGED <<latch, attached, dojo, organized, holder, closing, typing, capture>>

(* AttachmentRegistry::try_attach. *)
TryAttach(w) ==
  attached' = IF latch = "retiring" THEN attached ELSE attached \cup {w}

(* register_attachment: counted before the Window is told, or refused. *)
RegisterAttachment(w) ==
  /\ attaching[w] = "pending"
  /\ TryAttach(w)
  /\ attaching' = [attaching EXCEPT ![w] = IF w \in attached' THEN "told" ELSE "away"]
  /\ UNCHANGED <<latch, dojo, organized, holder, closing, typing, capture>>

(* AttachmentGuard::drop, on a detach or a disconnect. *)
Detach(w) ==
  /\ attaching[w] = "told"
  /\ attached' = attached \ {w}
  /\ attaching' = [attaching EXCEPT ![w] = "away"]
  /\ UNCHANGED <<latch, dojo, organized, holder, closing, typing, capture>>

(* A rename or a split commits under the topology transaction. *)
Organize ==
  /\ holder = {} /\ dojo
  /\ organized' = TRUE
  /\ UNCHANGED <<latch, attached, dojo, holder, closing, typing, attaching, capture>>

(* The actor starts to capture the terminal, unless it is claimed already; *)
(* sealing the checkpoint takes a while.                                   *)
BeginCapture ==
  /\ capture = "none" /\ latch # "retiring"
  /\ capture' = "sealing"
  /\ UNCHANGED <<latch, attached, dojo, organized, holder, closing, typing, attaching>>

(* Before the PTY is handed out the capture counts as a use; a claim that  *)
(* came first abandons it.                                                 *)
EndCapture ==
  /\ capture = "sealing"
  /\ RecordUse
  /\ capture' = IF latch' = "used" THEN "captured" ELSE "none"
  /\ UNCHANGED <<attached, dojo, organized, holder, closing, typing, attaching>>

-----------------------------------------------------------------------------
At(c, from, to) == closing[c] = from /\ closing' = [closing EXCEPT ![c] = to]

(* The first half of claim_unused_dojo: everything it checks before it     *)
(* waits for the state of the foreground process group.                    *)
BeginClose(c) ==
  /\ holder = {} /\ closing[c] = "idle"
  /\ LET unused == dojo /\ ~organized /\ latch # "used" /\ attached = {}
     IN  /\ closing' = [closing EXCEPT ![c] = IF unused THEN "looking" ELSE "idle"]
         /\ holder' = IF unused THEN {c} ELSE {}
  /\ UNCHANGED <<latch, attached, dojo, organized, typing, attaching, capture>>

(* The answer "used": the shell does not hold the foreground, or the claim *)
(* fails because a Window or an input came first.                          *)
AnswerUsed(c) ==
  /\ At(c, "looking", "idle")
  /\ holder' = {}
  /\ UNCHANGED <<latch, attached, dojo, organized, typing, attaching, capture>>

\* Mutant: the attachments seen before the wait are trusted.
ClaimUnattachedStale == latch = "unused" /\ latch' = "retiring"

(* AttachmentRegistry::claim_unattached and UseLatch::claim_unused. *)
ClaimUnattached ==
  /\ attached = {} /\ latch = "unused"
  /\ latch' = "retiring"

(* The second half of claim_unused_dojo. *)
Claim(c) ==
  /\ At(c, "looking", "claimed")
  /\ ClaimUnattached
  /\ UNCHANGED <<attached, dojo, organized, holder, typing, attaching, capture>>

(* UnusedClaim::drop, armed. *)
ReleaseClaim == latch' = IF latch = "retiring" THEN "unused" ELSE latch

\* Mutant: an abandoned close keeps the permit.
AbandonKeepingPermit(c) ==
  /\ At(c, "claimed", "idle")
  /\ ReleaseClaim
  /\ UNCHANGED <<attached, dojo, organized, holder, typing, attaching, capture>>

(* durable_topology_candidate fails, or the request is dropped while it    *)
(* waits: the claim and the transaction are released.                      *)
AbandonClose(c) ==
  /\ At(c, "claimed", "idle")
  /\ ReleaseClaim
  /\ holder' = {}
  /\ UNCHANGED <<attached, dojo, organized, typing, attaching, capture>>

(* The candidate is durable: it becomes the topology, the runtime leaves   *)
(* the registry, and the claim is disarmed.                                *)
InstallClose(c) ==
  /\ At(c, "claimed", "closed")
  /\ dojo' = FALSE
  /\ holder' = {}
  /\ UNCHANGED <<latch, attached, organized, typing, attaching, capture>>

Close(c) == BeginClose(c) \/ AnswerUsed(c) \/ Claim(c) \/ AbandonClose(c) \/ InstallClose(c)

Next == \/ \E t \in Typist : Input(t) \/ FocusReport(t)
        \/ \E w \in Window : BeginAttach(w) \/ RegisterAttachment(w) \/ Detach(w)
        \/ Organize \/ BeginCapture \/ EndCapture
        \/ \E c \in Closer : Close(c)

Spec == Init /\ [][Next]_vars

(* A close that has the transaction runs on: its awaits (the foreground    *)
(* read, the save) end.                                                    *)
FairSpec ==
  Spec /\ \A c \in Closer : WF_vars(AnswerUsed(c) \/ Claim(c) \/ AbandonClose(c) \/ InstallClose(c))

-----------------------------------------------------------------------------
(* Every variable has the shape the code gives it. *)
TypeOK ==
  /\ latch \in {"unused", "used", "retiring"}
  /\ attached \subseteq Window
  /\ dojo \in BOOLEAN /\ organized \in BOOLEAN
  /\ holder \in {{}} \cup {{c} : c \in Closer}
  /\ closing \in [Closer -> {"idle", "looking", "claimed", "closed"}]
  /\ typing \in [Typist -> {"idle", "accepted", "reported", "refused"}]
  /\ attaching \in [Window -> {"away", "pending", "told"}]
  /\ capture \in {"none", "sealing", "captured"}

(* UseLatch, "Either the input or the claim wins, never both", and         *)
(* AttachmentRegistry, "A Window is never told it attached to a Dojo that  *)
(* a close is already removing": while a claim is held and after the Dojo  *)
(* is closed, no input has been accepted, no Window believes it is         *)
(* attached, no handoff has the terminal, and nobody organized the Dojo.   *)
ClosedOnlyUnused ==
  latch = "retiring" \/ ~dojo =>
    /\ \A t \in Typist : typing[t] # "accepted"
    /\ \A w \in Window : attaching[w] # "told"
    /\ capture # "captured"
    /\ ~organized

(* UnusedClaim: an error or a dropped request "never leaves the Splint     *)
(* refusing input": while the Dojo exists, the latch is retiring only      *)
(* because a close that holds the transaction has claimed it, and after it *)
(* is closed it refuses input for good.                                    *)
ClaimHasHolder ==
  latch = "retiring" <=>
    (~dojo \/ \E c \in Closer : holder = {c} /\ closing[c] = "claimed")

(* A claimed Splint does not refuse input for ever without being closed,   *)
(* and the topology transaction is given back.                             *)
ClaimEnds ==
  /\ latch = "retiring" ~> (latch # "retiring" \/ ~dojo)
  /\ holder # {} ~> holder = {}
=============================================================================

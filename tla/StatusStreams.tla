--------------------------- MODULE StatusStreams ---------------------------
(***************************************************************************)
(* What one subscriber of the daemon holds: its entry in the topology hub  *)
(* (TopologyHub, spawn_topology_subscription) and its stream of control    *)
(* notices (ControlStream, spawn_control_subscription).                    *)
(*                                                                         *)
(* A topology event is [revision, phase]: a change carries its revision    *)
(* and the phase "change", a handoff status carries its phase.  A control  *)
(* notice is [serial, phase]: serial 0 stands for the notices that are not *)
(* about a handoff.  Frame contents and sequence numbers are left out.     *)
(***************************************************************************)
EXTENDS Naturals, Sequences

CONSTANTS TopologyQueue,   \* TOPOLOGY_QUEUE, 16 in the code
          ControlQueue     \* CONTROL_EVENT_QUEUE

ASSUME StreamsAssumption == {TopologyQueue, ControlQueue} \subseteq Nat \ {0}

Phases == {"Preparing", "Fenced", "Cancelled"}

-----------------------------------------------------------------------------
(* The topology hub.                                                       *)

(* "live": the task streams.  "cut": the hub dropped its senders.  After a *)
(* resynchronization the task has ended; the closed entry it leaves in the *)
(* hub hears nothing and goes with the next broadcast.                     *)
NoSubscriber == [at |-> "none", queue |-> <<>>, resync |-> FALSE,
                 slipped |-> FALSE, revision |-> 0, generation |-> 0]

(* The snapshot's revision, and the policy generation that authorized it.  *)
Subscribe(revision, generation) ==
  [at |-> "live", queue |-> <<>>, resync |-> FALSE, slipped |-> FALSE,
   revision |-> revision, generation |-> generation]

Remove(s) ==
  IF s.at = "live" THEN [s EXCEPT !.at = "cut"] ELSE s

(* try_send: a full queue asks the subscriber to resynchronize instead.    *)
Broadcast(s, event) ==
  IF s.at # "live" THEN s
  ELSE IF Len(s.queue) < TopologyQueue
       THEN [s EXCEPT !.queue = Append(@, event)]
       ELSE [s EXCEPT !.resync = TRUE]

(* The biased select of the subscription's task: what the hub tells it out *)
(* of band comes before what is queued, and ends it.  One queued event may *)
(* slip through when the word comes between the two polls of a turn.       *)
TaskEnds(s) == s.at = "cut" \/ (s.at = "live" /\ s.resync)

MayStream(s) == s.at = "live" /\ ~ s.slipped /\ s.queue # <<>>

Stream(s) ==
  [s EXCEPT !.queue = Tail(@),
            !.slipped = s.resync,
            !.revision = IF Head(s.queue).phase = "change"
                           THEN Head(s.queue).revision ELSE @]

-----------------------------------------------------------------------------
(* Control notices.                                                        *)

(* last_status: the phase broadcast last and its serial; "none" before the *)
(* first.                                                                  *)
NoStatus == [serial |-> 0, phase |-> "none"]

(* A pause the gate no longer holds is neither seeded nor replayed.        *)
Replayable(last, gate) ==
  [last EXCEPT !.phase = IF gate = "Idle" /\ @ # "Cancelled" THEN "none" ELSE @]

(* heard is what the client knows: the phase it was told last.             *)
NoStream == [at |-> "none", notices |-> <<>>, lagged |-> FALSE, floor |-> 0,
             pending |-> "none", heard |-> "none"]

(* subscribe_control: the notices start, and the seed is read, under the   *)
(* lock that every broadcast takes.                                        *)
SubscribeControl(last, gate) ==
  LET seed == Replayable(last, gate)
  IN  [NoStream EXCEPT !.at = "live", !.floor = seed.serial,
         !.pending = IF seed.phase = "Cancelled" THEN "none" ELSE seed.phase]

(* A broadcast channel keeps the latest ControlQueue notices; a receiver   *)
(* that misses one is told that it lagged.                                 *)
Notify(c, notice) ==
  IF c.at # "live" THEN c
  ELSE LET all == Append(c.notices, notice)
       IN  IF Len(all) <= ControlQueue
             THEN [c EXCEPT !.notices = all]
             ELSE [c EXCEPT !.notices = Tail(all), !.lagged = TRUE]

MayHear(c) == c.at = "live" /\ (c.pending # "none" \/ c.lagged \/ c.notices # <<>>)

\* Mutant: nothing replaces what was lost.
LagForgotten(c, last, gate) == [c EXCEPT !.lagged = FALSE]

(* Lagged: the latest phase stands for the ones that were lost.            *)
Lag(c, last, gate) ==
  LET latest == Replayable(last, gate)
  IN  IF latest.serial > c.floor
        THEN [c EXCEPT !.lagged = FALSE, !.floor = latest.serial, !.pending = latest.phase]
        ELSE [c EXCEPT !.lagged = FALSE]

HearNotice(c, notice) ==
  IF notice.serial > c.floor
    THEN [c EXCEPT !.notices = Tail(@), !.floor = notice.serial, !.heard = notice.phase]
    ELSE [c EXCEPT !.notices = Tail(@)]

(* One turn of the subscription's loop.                                    *)
Hear(c, last, gate) ==
  IF c.pending # "none" THEN [c EXCEPT !.pending = "none", !.heard = c.pending]
  ELSE IF c.lagged THEN Lag(c, last, gate)
  ELSE HearNotice(c, Head(c.notices))

=============================================================================

------------------------------ MODULE FairQueue ------------------------------
(***************************************************************************)
(* The bounded queue that shares one physical output among logical         *)
(* channels, round robin (crates/splinterm-graphical-relay/fair_queue.rs). *)
(*                                                                         *)
(* A queue is a record, and each method an operator from queue to queue.   *)
(* Every reservation is for one frame of the largest size, so budgets are  *)
(* counted in frames; a reservation is taken with the read it is for.  The *)
(* frame under physical write is the last one on the wire.                 *)
(***************************************************************************)
EXTENDS Naturals, Sequences, FiniteSetsExt

CONSTANTS Channel,        \* logical channel identities
          ChannelFrames,  \* MAX_CHANNEL_QUEUED_BYTES / MAX_DATA_BYTES
          SessionFrames   \* MAX_SESSION_QUEUED_BYTES / MAX_DATA_BYTES

ASSUME FairQueueAssumption ==
  ChannelFrames \in Nat \ {0} /\ SessionFrames \in Nat \ {0}

EmptyQueue ==
  [channels |-> [c \in Channel |-> <<>>],   \* queued frames
   ready |-> <<>>]                          \* the channels to serve, in turn

(* reserve: the channel's permits and then the session's. *)
CanReserve(q, c) ==
  /\ Len(q.channels[c]) < ChannelFrames
  /\ MapThenSumSet(LAMBDA d : Len(q.channels[d]), Channel) < SessionFrames

\* FairDataPermit::send: the channel's first frame gets it its turn.
Send(q, c, data) ==
  [q EXCEPT !.channels[c] = Append(@, data),
            !.ready = IF q.channels[c] = <<>> THEN Append(@, c) ELSE @]

\* drain: every earlier frame has been written.
Drained(q, c) == q.channels[c] = <<>>

\* Mutant: the channel keeps its turn.
DiscardKeepingTurn(q, c) == [q EXCEPT !.channels[c] = <<>>]

(* discard: the queued frames go. *)
Discard(q, c) ==
  [q EXCEPT !.channels[c] = <<>>, !.ready = SelectSeq(@, LAMBDA d : d # c)]

CanRecv(q) == q.ready # <<>>

NextFrame(q) == [channel |-> Head(q.ready), data |-> Head(q.channels[Head(q.ready)])]

\* recv: a channel with more to send goes to the end of the round.
Recv(q) ==
  LET c == Head(q.ready)
      rest == Tail(q.channels[c])
  IN [q EXCEPT !.channels[c] = rest,
               !.ready = IF rest = <<>> THEN Tail(@) ELSE Append(Tail(@), c)]

=============================================================================

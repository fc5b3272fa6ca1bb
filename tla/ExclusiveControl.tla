-------------------------- MODULE ExclusiveControl --------------------------
(***************************************************************************)
(* What the daemon promises about control of Splints, without leases, IDs  *)
(* or indexes: a Splint has at most one owner, a connection owns at most   *)
(* one Splint, and ownership passes directly from one connection to        *)
(* another only when the owner that was asked agrees, or by force.         *)
(***************************************************************************)
CONSTANTS Connection, Splint, Incarnation, None

VARIABLES
  owner,   \* owner[s]: None, or who controls which incarnation of s
  asked    \* asked[s]: None, or the pending request to hand over s

vars == <<owner, asked>>

Owner == [connection : Connection, incarnation : Incarnation]
Request == [from : Connection, by : Connection, incarnation : Incarnation]

Owns(k) == \E s \in Splint : owner[s] # None /\ owner[s].connection = k

Init ==
  /\ owner = [s \in Splint |-> None]
  /\ asked = [s \in Splint |-> None]

Take(s, k, inc) ==
  /\ owner[s] = None
  /\ ~Owns(k)
  /\ owner' = [owner EXCEPT ![s] = [connection |-> k, incarnation |-> inc]]
  /\ UNCHANGED asked

Ask(s, k) ==
  /\ owner[s] # None
  /\ asked[s] = None
  /\ ~Owns(k)
  /\ asked' = [asked EXCEPT ![s] =
       [from |-> owner[s].connection, by |-> k,
        incarnation |-> owner[s].incarnation]]
  /\ UNCHANGED owner

\* The owner that was asked still owns that incarnation, and agrees.
Agree(s) ==
  /\ asked[s] # None
  /\ owner[s] = [connection |-> asked[s].from,
                 incarnation |-> asked[s].incarnation]
  /\ ~Owns(asked[s].by)
  /\ owner' = [owner EXCEPT ![s].connection = asked[s].by]
  /\ asked' = [asked EXCEPT ![s] = None]

Seize(s, k) ==
  /\ owner[s] # None
  /\ ~Owns(k)
  /\ owner' = [owner EXCEPT ![s].connection = k]
  /\ UNCHANGED asked

\* Some Splints lose their owner, and some requests are dropped.
Give(splints, requests) ==
  /\ owner' = [s \in Splint |-> IF s \in splints THEN None ELSE owner[s]]
  /\ asked' = [s \in Splint |-> IF s \in requests THEN None ELSE asked[s]]

Next ==
  \/ \E s \in Splint, k \in Connection, inc \in Incarnation : Take(s, k, inc)
  \/ \E s \in Splint, k \in Connection : Ask(s, k) \/ Seize(s, k)
  \/ \E s \in Splint : Agree(s)
  \/ \E splints, requests \in SUBSET Splint : Give(splints, requests)

Spec == Init /\ [][Next]_vars

=============================================================================

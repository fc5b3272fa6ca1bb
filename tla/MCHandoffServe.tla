--------------------------- MODULE MCHandoffServe ---------------------------
(***************************************************************************)
(* An automation client that subscribes to the topology, and a window that *)
(* changes it, subscribes to control and answers a prompt.  Each scenario  *)
(* bounds what the outside does in one behaviour:                          *)
(*  - two handoffs, the second begun while the first is being released,    *)
(*    with subscriptions that overflow and lag;                            *)
(*  - the same around a prompt, with a termination;                        *)
(*  - changes that overflow the hub's queue around a handoff;              *)
(*  - reload signals around a handoff, a reload and subscriptions;         *)
(*  - a termination that races a handoff, a reload and a transaction.      *)
(***************************************************************************)
EXTENDS HandoffServe, TLC

CONSTANTS agent, window

Budget(subscribes, window_asks, attempts, edits, notices, terminations) ==
  [asks |-> agent :> [topology |-> subscribes] @@ window :> window_asks,
   attempts |-> attempts, edits |-> edits, notices |-> notices,
   terminations |-> terminations]

MCBudgets ==
  {Budget(1, [control |-> 1, change |-> 1], 2, 0, 1, 0),
   Budget(0, [control |-> 1, prompt |-> 1], 2, 0, 2, 1),
   Budget(2, [change |-> 3], 1, 0, 0, 0),
   Budget(2, [change |-> 1], 1, 2, 0, 0),
   Budget(1, [change |-> 1, control |-> 1], 1, 1, 0, 1)}

=============================================================================

------------------------- MODULE ControlRefinement --------------------------
(***************************************************************************)
(* The registry of ControllerState seen as ExclusiveControl: the owner of  *)
(* a Splint is the lease its index points to, and the request on it is the *)
(* transfer its index points to.                                           *)
(***************************************************************************)
EXTENDS ControllerState

CONSTANT None

OwnerOf(c) ==
  [s \in Splint |->
     IF c.by_splint[s] = NoId THEN None
     ELSE [connection |-> c.by_id[c.by_splint[s]].connection_id,
           incarnation |-> c.by_id[c.by_splint[s]].incarnation]]

AskedOf(c) ==
  [s \in Splint |->
     IF c.transfer_by_splint[s] = NoId THEN None
     ELSE [from |-> c.transfers[c.transfer_by_splint[s]].owner_connection_id,
           by |-> c.transfers[c.transfer_by_splint[s]].requester_connection_id,
           incarnation |-> c.transfers[c.transfer_by_splint[s]].incarnation]]

Abstract == INSTANCE ExclusiveControl WITH
  owner <- OwnerOf(controllers), asked <- AskedOf(controllers)

ASSUME NoneAssumption == None \notin Abstract!Owner \cup Abstract!Request

\* The registry with its three indexes behaves as exclusive control does: no
\* step of it passes a Splint on except by agreement or by force.
ImplementsExclusiveControl == Abstract!Spec

=============================================================================

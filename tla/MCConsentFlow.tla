---------------------------- MODULE MCConsentFlow ----------------------------
(***************************************************************************)
(* Two processes of one program ask for one workspace, the second for more *)
(* than the first.  One handler carries their calls in turn: it gives up   *)
(* waiting, or loses its connection, and comes back for the other process  *)
(* while the first request still pends.                                    *)
(***************************************************************************)
EXTENDS ConsentFlow

CONSTANTS p1, p2, l1

MCIdentity == [p \in Process |-> "program"]
View == {"view"}
Drive == {"view", "input"}
MCScopes == {View, Drive}

MCAsking ==
  [c \in Call |-> {[process |-> p1, lair |-> l1, scopes |-> View],
                   [process |-> p2, lair |-> l1, scopes |-> Drive]}]

=============================================================================

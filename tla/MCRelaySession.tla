--------------------------- MODULE MCRelaySession ---------------------------
(***************************************************************************)
(* Two channels.  The first does everything, with one frame up and two     *)
(* down; the second is its sibling, which is opened and dropped.  Every    *)
(* queue is short enough to fill.                                          *)
(***************************************************************************)
EXTENDS RelaySession

MCUp == <<1, 0>>
MCDown == <<2, 0>>
MCMay == <<{"shut", "drop", "eof"}, {"drop"}>>

=============================================================================

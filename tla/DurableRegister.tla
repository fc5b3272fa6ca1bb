--------------------------- MODULE DurableRegister ---------------------------
(***************************************************************************)
(* What the daemon expects of its metadata store: a register that survives *)
(* crashes.  A document whose save was acknowledged is the one the next    *)
(* start recovers, unless a save that overlapped it or came after it has   *)
(* been begun; nothing older ever comes back.                              *)
(***************************************************************************)
CONSTANTS Doc,      \* documents that can be saved
          Empty,    \* nothing was ever saved
          Down      \* no daemon is running

VARIABLES value,      \* the document the running daemon works from, or Down
          candidates, \* the documents a start may recover
          writing     \* the saves in progress: [doc, rivals]

vars == <<value, candidates, writing>>

InFlight == {w.doc : w \in writing}

Init == /\ value = Down
        /\ candidates \in {{d} : d \in Doc \cup {Empty}}
        /\ writing = {}

(* A save begins: from now on a crash may leave either document behind. *)
Begin(d) ==
  /\ d \notin InFlight
  /\ candidates' = candidates \cup {d}
  /\ writing' = {[w EXCEPT !.rivals = @ \cup {d}] : w \in writing}
                  \cup {[doc |-> d, rivals |-> InFlight]}
  /\ UNCHANGED value

(* The save is acknowledged: only it and its rivals are left, and the     *)
(* daemon goes on with the saved document, unless it is on its way out.    *)
Commit(w) ==
  /\ candidates' = {w.doc} \cup w.rivals
  /\ writing' = writing \ {w}
  /\ value' \in {value, w.doc}

(* The save failed: its document may be on the disk all the same.  A save  *)
(* that fails before the daemon has started makes it start empty.          *)
Abort(w) ==
  /\ writing' = writing \ {w}
  /\ value' = IF value = Down THEN Empty ELSE value
  /\ UNCHANGED candidates

(* The daemon starts from a recoverable document. *)
Adopt ==
  /\ value = Down
  /\ value' \in candidates
  /\ UNCHANGED <<candidates, writing>>

(* The daemon exits or dies, and its saves with it. *)
Crash ==
  /\ value' = Down
  /\ writing' = {}
  /\ UNCHANGED candidates

Next == \/ \E d \in Doc : Begin(d)
        \/ \E w \in writing : Commit(w) \/ Abort(w)
        \/ Adopt
        \/ Crash

Spec == Init /\ [][Next]_vars
=============================================================================

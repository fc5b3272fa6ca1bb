----------------------------- MODULE AgentAccess -----------------------------
(***************************************************************************)
(* "While this workspace is open" and remembered grants, and the durable   *)
(* store of the remembered ones (AgentAccess,                              *)
(* crates/splinterd/src/agent_access.rs).                                  *)
(*                                                                         *)
(* A definition is named by the request whose answer made it.  Memory is   *)
(* behind one mutex; the file is behind another, its writer's, which is    *)
(* held from the proposal until memory matches the file.  A write renames  *)
(* a synced temporary over the store and then syncs the directory: until   *)
(* that sync, a power failure may leave either file.                       *)
(*                                                                         *)
(* Last-used times are left out: they only cause more rewrites of what     *)
(* memory holds.  So are files damaged or changed from outside, which make *)
(* the remembered source deny.                                             *)
(***************************************************************************)
EXTENDS PendingAccess

Writers == {"commit", "committer", "revoker", "task"}

NoDefinitions ==
  [sessions |-> {}, remembered |-> {},
   missing |-> {},       \* workspace_missing
   removals |-> {},      \* pending_removals
   ended_lairs |-> {},
   file |-> {},          \* what the store holds now
   disk |-> {{}},        \* what a power failure may leave
   writer |-> "none",    \* who holds the writer lock
   stage |-> "idle",     \* then write, sync and publish
   proposal |-> {},
   wants |-> {}]         \* flushes waiting for the writer lock

\* Mutant: a resumed round forgets the removals the last one still owed.
LoadForgetting(content, disk, absent, carried) ==
  [NoDefinitions EXCEPT
     !.remembered = content, !.missing = content \cap absent,
     !.file = content, !.disk = disk]

(* load: every stored entry comes back, but one whose workspace is gone    *)
(* authorizes nothing, and one whose removal this process still owes stays *)
(* revoked.                                                                *)
Load(content, disk, absent, carried) ==
  [NoDefinitions EXCEPT
     !.remembered = content \ carried, !.missing = (content \cap absent) \ carried,
     !.removals = content \cap carried,
     !.file = content, !.disk = disk]

-----------------------------------------------------------------------------
(* commit_session_gated, once its gate agreed. *)
CommitSession(e, r, same) == [e EXCEPT !.sessions = (@ \ same) \cup {r}]

-----------------------------------------------------------------------------
(* DurableFile::write *)

Lock(e, w, proposal) ==
  [e EXCEPT !.writer = w, !.stage = "write", !.proposal = proposal]

Unlock(e) == [e EXCEPT !.writer = "none", !.stage = "idle", !.proposal = {}]

\* Mutant: the directory is not synced.
RenameUnsynced(e) == [e EXCEPT !.file = e.proposal, !.disk = @ \cup {e.proposal}, !.stage = "publish"]

Rename(e) == [e EXCEPT !.file = e.proposal, !.disk = @ \cup {e.proposal}, !.stage = "sync"]

Sync(e) == [e EXCEPT !.disk = {e.file}, !.stage = "publish"]

\* Memory::written: the owed removals that are absent from the file are done.
Written(e) == [e EXCEPT !.removals = @ \cap e.proposal]

-----------------------------------------------------------------------------
(* commit_remembered *)

Proposal(e, r, same) == (e.remembered \ same) \cup {r}

(* The directory sync failed: the file may hold the entry, and its removal *)
(* is owed.                                                                *)
NotDurable(e, r) == Unlock([e EXCEPT !.removals = @ \cup {r}])

(* After the durable write.  A workspace that ended while it ran gets no   *)
(* definition, and the entry leaves the file at the next write.            *)
PublishRemembered(e, r, same, l) ==
  IF l \in e.ended_lairs
    THEN Unlock([Written(e) EXCEPT !.removals = @ \cup {r}])
    ELSE Unlock([Written(e) EXCEPT !.remembered = (@ \ same) \cup {r}])

-----------------------------------------------------------------------------
(* Revocation: in memory at once, durably by the next write. *)

Remove(e, R) ==
  [e EXCEPT !.sessions = @ \ R,
            !.remembered = @ \ R,
            !.missing = @ \ R,
            !.removals = @ \cup (e.remembered \cap R)]

EndLair(e, R, l) == [Remove(e, R) EXCEPT !.ended_lairs = @ \cup {l}]

FlushNeeded(e) == e.removals # {}

Want(e, w) == [e EXCEPT !.wants = @ \cup {w}]

(* flush, once it holds the writer lock: nothing owed means nothing to do. *)
StartFlush(e, w) ==
  IF FlushNeeded(e) THEN Lock([e EXCEPT !.wants = @ \ {w}], w, e.remembered)
                    ELSE [e EXCEPT !.wants = @ \ {w}]

\* A flush of this asker is waiting or running.
Flushing(e, w) == w \in e.wants \/ e.writer = w

=============================================================================

---------------------------- MODULE MetadataStore ----------------------------
(***************************************************************************)
(* The durable topology metadata of splinterd (persistence.rs): a primary  *)
(* file and its previous generation, written by temp-file, rotate, rename, *)
(* directory fsync; loaded with fallbacks, quarantine and migration of the *)
(* legacy files.  A save runs on a blocking thread that nobody can cancel: *)
(* the request waiting for it is aborted at shutdown, the save is not.     *)
(*                                                                         *)
(* The file system keeps renames in order but makes them durable only at a *)
(* directory fsync, and file bytes only at a file fsync: a power loss      *)
(* exposes any directory since the last fsync, with unflushed bytes lost.  *)
(***************************************************************************)
EXTENDS Naturals

CONSTANTS MaxDocs,      \* documents the daemon may submit (bounds the model)
          MaxDamage,    \* external damage events: damaged files, read errors
          Absent,       \* no file of that name
          Invalid,      \* a file whose bytes do not decode
          Unsafe,       \* a file with the wrong type, owner or mode
          Empty,        \* no document: an empty Topology
          Down          \* no daemon

ASSUME StoreAssumption ==
  /\ MaxDocs \in Nat /\ MaxDamage \in Nat
  /\ {Absent, Invalid, Unsafe, Empty, Down} \cap Nat = {}
  /\ Absent \notin {Invalid, Unsafe, Empty, Down} /\ Invalid \notin {Unsafe, Empty, Down}
  /\ Unsafe \notin {Empty, Down} /\ Empty # Down

VARIABLES dir,        \* the directory as processes see it
          durable,    \* the directories a power loss may leave
          unflushed,  \* documents whose bytes were written and not yet synced
          writer,     \* the save each thread is running
          daemon,     \* where the daemon is in its life
          reading,    \* the file load looks at next
          topology,   \* the document the running daemon works from
          next,       \* the next document
          candidates, \* ghost: what DurableRegister says may be recovered
          acks,       \* ghost: acknowledged saves that overlapped no other, up to two
          damage,     \* ghost: damage events so far
          failures    \* ghost: did a save step fail, or the daemon die?

vars == <<dir, durable, unflushed, writer, daemon, reading, topology, next,
          candidates, acks, damage, failures>>

disk   == <<dir, durable, unflushed>>
life   == <<daemon, reading, topology>>
ghosts == <<candidates, acks, damage, failures>>

File == {"primary", "backup", "legacy_primary", "legacy_backup"}

(* Documents are numbered as they are submitted; the legacy files hold the *)
(* two documents an older release may have left.                           *)
LegacyPrimary == MaxDocs + 1
LegacyBackup  == MaxDocs + 2
Doc == 1 .. LegacyBackup

Content == Doc \cup {Absent, Invalid, Unsafe}

(* The thread of a request's save, and the one of startup and shutdown. *)
Writer == {"handler", "main"}

Busy == {"write", "flush", "check", "rotate", "quarantine", "commit", "sync"}

NoSave == [pc |-> "idle", doc |-> Empty, rivals |-> {}]

InFlight == {writer[w].doc : w \in {x \in Writer : writer[x].pc \in Busy}}

-----------------------------------------------------------------------------
(* What load returns for a directory, when every read and every quarantine *)
(* succeeds: an invalid backup is an error, hence an empty Topology.       *)
Recovered(d) ==
  IF d["primary"] \in Doc THEN d["primary"]
  ELSE IF d["backup"] # Absent
    THEN IF d["backup"] \in Doc THEN d["backup"] ELSE Empty
  ELSE IF d["legacy_primary"] \in Doc THEN d["legacy_primary"]
  ELSE IF d["legacy_backup"] \in Doc THEN d["legacy_backup"]
  ELSE Empty

(* A directory after a power loss: bytes this store wrote and did not flush *)
(* are gone.                                                               *)
Surviving(d) == [f \in File |-> IF f \in {"primary", "backup"} /\ d[f] \in unflushed
                                THEN Invalid ELSE d[f]]

-----------------------------------------------------------------------------
Init ==
  /\ dir \in {d \in [File -> Content] :
                /\ d["primary"] = Absent /\ d["backup"] = Absent
                /\ d["legacy_primary"] \in {Absent, LegacyPrimary}
                /\ d["legacy_backup"] \in {Absent, LegacyBackup}}
  /\ durable = {dir}
  /\ unflushed = {}
  /\ writer = [w \in Writer |-> NoSave]
  /\ daemon = "down" /\ reading = "primary" /\ topology = Empty
  /\ next = 1
  /\ candidates = {Recovered(dir)}
  /\ acks = 0 /\ damage = 0 /\ failures = FALSE

(* save is called: prepare_directory, encode, and a fresh temp name. *)
BeginSave(w, d) ==
  /\ writer[w].pc = "idle"
  /\ writer' = [x \in Writer |->
       IF x = w THEN [pc |-> "write", doc |-> d, rivals |-> InFlight]
       ELSE [writer[x] EXCEPT !.rivals = IF writer[x].pc \in Busy THEN @ \cup {d} ELSE @]]
  /\ candidates' = candidates \cup {d}
  /\ UNCHANGED <<disk, acks, damage, failures>>

Goto(w, pc) == writer' = [writer EXCEPT ![w].pc = pc]

(* create_new and write_all of the temp file. *)
WriteTemp(w) ==
  /\ writer[w].pc = "write"
  /\ unflushed' = unflushed \cup {writer[w].doc}
  /\ Goto(w, "flush")
  /\ UNCHANGED <<dir, durable, life, next, ghosts>>

\* Mutant: the temporary's bytes are never synced.
FlushTempNever(w) ==
  /\ writer[w].pc = "flush"
  /\ Goto(w, "check")
  /\ UNCHANGED <<disk, life, next, ghosts>>

(* file.sync_all. *)
FlushTemp(w) ==
  /\ writer[w].pc = "flush"
  /\ unflushed' = unflushed \ {writer[w].doc}
  /\ Goto(w, "check")
  /\ UNCHANGED <<dir, durable, life, next, ghosts>>

(* Is there a primary, and is it an owner-only file?  Its bytes are not    *)
(* looked at.                                                              *)
CheckPrimary(w) ==
  /\ writer[w].pc = "check"
  /\ Goto(w, CASE dir["primary"] = Absent -> "commit"
               [] dir["primary"] = Unsafe -> "quarantine"
               [] OTHER -> "rotate")
  /\ UNCHANGED <<disk, life, next, ghosts>>

Rename(d) == dir' = d /\ durable' = durable \cup {d}

\* Mutant: the previous generation is not kept.
RotateNever(w) ==
  /\ writer[w].pc = "rotate"
  /\ Goto(w, "commit")
  /\ UNCHANGED <<disk, life, next, ghosts>>

(* rename(primary, backup): another save may have taken the primary away. *)
Rotate(w) ==
  /\ writer[w].pc = "rotate"
  /\ IF dir["primary"] = Absent
     THEN Goto(w, "err") /\ UNCHANGED <<dir, durable>>
     ELSE /\ Rename([dir EXCEPT !["primary"] = Absent, !["backup"] = dir["primary"]])
          /\ Goto(w, "commit")
  /\ UNCHANGED <<unflushed, life, next, ghosts>>

(* quarantine(primary): moved aside, directory synced; fine if it is gone. *)
QuarantinePrimary(w) ==
  /\ writer[w].pc = "quarantine"
  /\ dir' = [dir EXCEPT !["primary"] = Absent]
  /\ durable' = IF dir["primary"] = Absent THEN durable ELSE {dir'}
  /\ Goto(w, "commit")
  /\ UNCHANGED <<unflushed, life, next, ghosts>>

(* rename(temp, primary). *)
CommitTemp(w) ==
  /\ writer[w].pc = "commit"
  /\ Rename([dir EXCEPT !["primary"] = writer[w].doc])
  /\ Goto(w, "sync")
  /\ UNCHANGED <<unflushed, life, next, ghosts>>

Acknowledged(w) ==
  /\ candidates' = {writer[w].doc} \cup writer[w].rivals
  /\ acks' = IF acks = 2 \/ writer[w].rivals # {} THEN acks ELSE acks + 1
  /\ UNCHANGED <<damage, failures>>

(* The directory is synced and save returns Ok. *)
SyncDirectory(w) ==
  /\ writer[w].pc = "sync"
  /\ durable' = {dir}
  /\ Goto(w, "ok")
  /\ Acknowledged(w)
  /\ UNCHANGED <<dir, unflushed, life, next>>

(* Mutant: an error is logged and swallowed. *)
FailSaveUnnoticed(w) ==
  /\ writer[w].pc \in Busy
  /\ unflushed' = IF writer[w].pc = "flush" THEN unflushed \ {writer[w].doc} ELSE unflushed
  /\ Goto(w, "ok")
  /\ failures' = TRUE
  /\ UNCHANGED <<dir, durable, life, next, candidates, acks, damage>>

(* Any call of the save may fail; the temp file is removed.  A failed     *)
(* directory fsync leaves the new document in place.                       *)
FailSave(w) ==
  /\ writer[w].pc \in Busy
  /\ unflushed' = IF writer[w].pc = "flush" THEN unflushed \ {writer[w].doc} ELSE unflushed
  /\ Goto(w, "err")
  /\ failures' = TRUE
  /\ UNCHANGED <<dir, durable, life, next, candidates, acks, damage>>

SaveStep(w) == \/ WriteTemp(w) \/ FlushTemp(w) \/ CheckPrimary(w) \/ Rotate(w)
               \/ QuarantinePrimary(w) \/ CommitTemp(w) \/ SyncDirectory(w)
               \/ FailSave(w)

-----------------------------------------------------------------------------
(* Startup. *)
Start ==
  /\ daemon \in {"down", "exited"}
  /\ daemon' = "loading" /\ reading' = "primary"
  /\ UNCHANGED <<disk, writer, topology, next, ghosts>>

(* restore_topology: what load returned, or an empty Topology. *)
Serve(d) == daemon' = "running" /\ topology' = d /\ UNCHANGED reading

NextFile == [primary |-> "backup", backup |-> "legacy_primary",
             legacy_primary |-> "legacy_backup", legacy_backup |-> "none"]

(* Nothing usable in this file: the next one, and after the last one an    *)
(* empty Topology.                                                         *)
Skip == IF NextFile[reading] = "none"
        THEN Serve(Empty)
        ELSE reading' = NextFile[reading] /\ UNCHANGED <<daemon, topology>>

(* The file decodes.  A legacy document is saved in the current form first. *)
ReadDocument ==
  /\ daemon = "loading" /\ reading # "migrating" /\ dir[reading] \in Doc
  /\ IF reading \in {"primary", "backup"}
     THEN Serve(dir[reading]) /\ UNCHANGED <<disk, writer, ghosts>>
     ELSE /\ BeginSave("main", dir[reading])
          /\ reading' = "migrating"
          /\ UNCHANGED <<daemon, topology>>
  /\ UNCHANGED next

ReadAbsent ==
  /\ daemon = "loading" /\ reading # "migrating" /\ dir[reading] = Absent
  /\ Skip
  /\ UNCHANGED <<disk, writer, next, ghosts>>

(* The file is moved aside and the directory synced.  An invalid backup   *)
(* is an error all the same.                                               *)
QuarantineAndGoOn ==
  /\ dir' = [dir EXCEPT ![reading] = Absent]
  /\ durable' = {dir'}
  /\ IF reading = "backup" THEN Serve(Empty) ELSE Skip
  /\ UNCHANGED <<unflushed, writer, next, candidates, acks, failures>>

ReadInvalid ==
  /\ daemon = "loading" /\ reading # "migrating" /\ dir[reading] \in {Invalid, Unsafe}
  /\ QuarantineAndGoOn
  /\ UNCHANGED damage

Damaging == damage < MaxDamage /\ damage' = damage + 1

(* A read error of a good file is treated as an invalid file. *)
ReadError ==
  /\ daemon = "loading" /\ reading # "migrating" /\ dir[reading] \in Doc
  /\ Damaging
  /\ QuarantineAndGoOn

(* prepare_directory or the rename of a quarantine failed: an empty        *)
(* Topology, and the files stay as they are.                               *)
LoadFails ==
  /\ daemon = "loading" /\ reading # "migrating"
  /\ reading = "primary" \/ dir[reading] \in {Invalid, Unsafe}
  /\ Damaging
  /\ Serve(Empty)
  /\ UNCHANGED <<disk, writer, next, candidates, acks, failures>>

(* The migrating save ended; the legacy file stays either way. *)
Migrated ==
  /\ daemon = "loading" /\ reading = "migrating" /\ writer["main"].pc \in {"ok", "err"}
  /\ Serve(IF writer["main"].pc = "ok" THEN writer["main"].doc ELSE Empty)
  /\ writer' = [writer EXCEPT !["main"] = NoSave]
  /\ UNCHANGED <<disk, next, ghosts>>

-----------------------------------------------------------------------------
(* A request prepares a candidate and saves it, under the transaction      *)
(* permit, before installing it.                                           *)
Persist ==
  /\ daemon = "running" /\ next <= MaxDocs
  /\ BeginSave("handler", next)
  /\ next' = next + 1
  /\ UNCHANGED life

\* Mutant: a failed save is answered like a good one.
ReplyIgnoringErrors ==
  /\ daemon = "running" /\ writer["handler"].pc \in {"ok", "err"}
  /\ topology' = writer["handler"].doc
  /\ writer' = [writer EXCEPT !["handler"] = NoSave]
  /\ UNCHANGED <<disk, daemon, reading, next, ghosts>>

(* The request resumes: it installs what was saved, or reports the error. *)
Reply ==
  /\ daemon = "running" /\ writer["handler"].pc \in {"ok", "err"}
  /\ topology' = IF writer["handler"].pc = "ok" THEN writer["handler"].doc ELSE topology
  /\ writer' = [writer EXCEPT !["handler"] = NoSave]
  /\ UNCHANGED <<disk, daemon, reading, next, ghosts>>

(* A termination signal: connection tasks are aborted, their saves go on. *)
Terminate ==
  /\ daemon = "running"
  /\ daemon' = "stopping"
  /\ UNCHANGED <<disk, writer, reading, topology, next, ghosts>>

(* ordered_shutdown saves the final Topology once processes are drained. *)
FinalSave ==
  /\ daemon = "stopping" /\ next <= MaxDocs
  /\ BeginSave("main", next)
  /\ next' = next + 1
  /\ daemon' = "final"
  /\ UNCHANGED <<reading, topology>>

(* The runtime is dropped, which waits for the saves still running; the   *)
(* daemon has exited cleanly if the final save succeeded.                  *)
Exit ==
  /\ daemon = "final" /\ \A w \in Writer : writer[w].pc \notin Busy
  /\ IF writer["main"].pc = "ok"
     THEN daemon' = "exited" /\ topology' = writer["main"].doc
     ELSE daemon' = "down" /\ UNCHANGED topology
  /\ writer' = [w \in Writer |-> NoSave]
  /\ UNCHANGED <<disk, reading, next, ghosts>>

-----------------------------------------------------------------------------
(* The daemon is killed: the directory stays as processes see it. *)
Kill ==
  /\ daemon \notin {"down", "exited"}
  /\ daemon' = "down" /\ writer' = [w \in Writer |-> NoSave]
  /\ failures' = TRUE
  /\ UNCHANGED <<disk, reading, topology, next, candidates, acks, damage>>

(* The machine loses power: one of the possible directories is left. *)
PowerLoss ==
  /\ \E d \in durable : dir' = Surviving(d)
  /\ durable' = {dir'}
  /\ unflushed' = {}
  /\ daemon' = "down" /\ writer' = [w \in Writer |-> NoSave]
  /\ failures' = TRUE
  /\ UNCHANGED <<reading, topology, next, candidates, acks, damage>>

(* A file is damaged from outside while nothing is being written. *)
Damage(f) ==
  /\ \A w \in Writer : writer[w].pc \notin Busy
  /\ durable = {dir} /\ dir[f] \in Doc
  /\ Damaging
  /\ \E c \in {Invalid, Unsafe} : dir' = [dir EXCEPT ![f] = c]
  /\ durable' = {dir'}
  /\ UNCHANGED <<unflushed, writer, life, next, candidates, acks, failures>>

Next == \/ \E w \in Writer : SaveStep(w)
        \/ Start \/ ReadDocument \/ ReadAbsent \/ ReadInvalid \/ ReadError
        \/ LoadFails \/ Migrated
        \/ Persist \/ Reply \/ Terminate \/ FinalSave \/ Exit
        \/ Kill \/ PowerLoss \/ \E f \in File : Damage(f)

Spec == Init /\ [][Next]_vars

-----------------------------------------------------------------------------
(* save and load of persistence.rs: with no external damage, whatever step *)
(* fails and whenever the daemon or the machine stops, the next start      *)
(* recovers the last acknowledged document or one whose save began later   *)
(* or overlapped it; it never recovers an older one, or nothing.           *)
AcknowledgedSurvives ==
  damage = 0 =>
    /\ Recovered(dir) \in candidates
    /\ \A d \in durable : Recovered(Surviving(d)) \in candidates

(* The "atomic previous-generation backup": once two saves that overlapped *)
(* no other have been acknowledged, one damaged file or one failed read,   *)
(* with no other failure, never leaves the daemon without a document to    *)
(* start from.                                                             *)
PreviousGenerationSurvives ==
  acks = 2 /\ ~failures /\ damage <= 1 /\ InFlight = {} => Recovered(dir) # Empty

(* ordered_shutdown persists the final Topology: when it is about to exit  *)
(* with that save acknowledged, the next start recovers the final document *)
(* or that of a save an aborted request had left running when the final    *)
(* one began.                                                              *)
FinalUnlessOvertaken ==
  daemon = "final" /\ writer["main"].pc = "ok" /\ InFlight = {} /\ damage = 0 =>
    Recovered(dir) \in {writer["main"].doc} \cup (writer["main"].rivals \cap {writer["handler"].doc})

(* Metadata saves behave like a register that survives crashes: what the  *)
(* daemon works from, and the saves in progress.                           *)
Value ==
  IF daemon \in {"running", "stopping", "final"}
    THEN IF writer["handler"].pc = "ok" THEN writer["handler"].doc ELSE topology
  ELSE IF daemon = "loading" /\ reading = "migrating" /\ writer["main"].pc = "err"
    THEN Empty ELSE Down

SaveOf(w) == [doc |-> writer[w].doc, rivals |-> writer[w].rivals]

Saving == {SaveOf(w) : w \in {x \in Writer : writer[x].pc \in Busy}}

Register == INSTANCE DurableRegister WITH value <- Value, writing <- Saving

(* persistence.rs as the daemon uses it implements DurableRegister, until  *)
(* a file is damaged from outside.                                         *)
ImplementsRegister ==
  Register!Init /\ [][damage' = 0 => [Register!Next]_(Register!vars)]_vars
=============================================================================

-------------------------- MODULE MetadataStoreProofs --------------------------
(***************************************************************************)
(* The metadata store keeps what it acknowledged, for any number of        *)
(* documents, saves, failures, kills and power losses.                     *)
(***************************************************************************)
EXTENDS MetadataStore, TLAPS

(* No file is Unsafe while nothing was damaged, so none is quarantined.    *)
Saves == [pc : (Busy \ {"quarantine"}) \cup {"idle", "ok", "err"},
          doc : Doc \cup {Empty}, rivals : SUBSET Doc]

Types ==
  /\ dir \in durable /\ durable \subseteq [File -> Doc \cup {Absent}]
  /\ unflushed \subseteq Doc
  /\ writer \in [Writer -> Saves]
  /\ daemon \in {"down", "loading", "running", "stopping", "final", "exited"}
  /\ daemon = "loading" => reading \in File \cup {"migrating"}
  /\ next \in Nat \ {0}

Running(w) == writer[w].pc \in Busy

(* When each save may run, and that two running ones know of each other.   *)
SavesOverlap ==
  /\ daemon \in {"down", "loading", "exited"} => ~ Running("handler")
  /\ daemon \in {"down", "running", "stopping", "exited"} => ~ Running("main")
  /\ daemon = "loading" /\ Running("main") => reading = "migrating"
  /\ \A w \in Writer : Running(w) => writer[w].doc \in Doc \cap candidates
  /\ Running("handler") /\ Running("main") =>
       /\ writer["handler"].doc # writer["main"].doc
       /\ writer["handler"].doc \in writer["main"].rivals
       /\ writer["main"].doc \in writer["handler"].rivals

(* A document is in use once it was submitted or came with the legacy      *)
(* files; the legacy files keep theirs.                                    *)
InUse(d) == d < next \/ d > MaxDocs

DocsInUse ==
  /\ \A w \in Writer : Running(w) => InUse(writer[w].doc)
  /\ \A d \in durable : \A f \in File : d[f] # Absent => InUse(d[f])
  /\ \A d \in durable : \A f \in {"legacy_primary", "legacy_backup"} :
       d[f] # Absent => d[f] > MaxDocs

(* A document becomes visible only after its bytes are flushed.            *)
VisibleIsFlushed ==
  /\ \A d \in durable : \A f \in {"primary", "backup"} : d[f] \notin unflushed
  /\ \A w \in Writer :
       /\ writer[w].pc \in {"write", "flush"} =>
            \A d \in durable : \A f \in {"primary", "backup"} : d[f] # writer[w].doc
       /\ writer[w].pc \in {"check", "rotate", "quarantine", "commit", "sync"} =>
            writer[w].doc \notin unflushed

(* load comes to a legacy file only when no save was ever committed.       *)
LegacyIsLast ==
  /\ dir["primary"] = Absent /\ dir["backup"] = Absent =>
       \A d \in durable : d["primary"] = Absent /\ d["backup"] = Absent
  /\ daemon = "loading" /\ reading \in {"backup", "legacy_primary", "legacy_backup"} =>
       dir["primary"] = Absent
  /\ daemon = "loading" /\ reading \in {"legacy_primary", "legacy_backup"} =>
       dir["backup"] = Absent
  /\ daemon = "loading" /\ reading = "legacy_backup" => dir["legacy_primary"] = Absent

(* What a start may recover, and what a save about to be acknowledged will *)
(* leave recoverable.                                                      *)
Recoverable ==
  /\ \A d \in durable : Recovered(d) \in candidates
  /\ \A w \in Writer : writer[w].pc = "sync" =>
       Recovered(dir) \in {writer[w].doc} \cup writer[w].rivals

(* What the daemon works from: a request's save belongs to a running       *)
(* daemon, and a migrated document is recoverable before it is served.     *)
LifeAgrees ==
  /\ topology \in Doc \cup {Empty}
  /\ daemon \in {"down", "loading", "exited"} => writer["handler"].pc = "idle"
  /\ daemon = "loading" /\ reading = "migrating" /\ writer["main"].pc = "ok" =>
       writer["main"].doc \in Doc \cap candidates

Core == Types /\ SavesOverlap /\ DocsInUse /\ VisibleIsFlushed /\ LegacyIsLast /\ Recoverable
          /\ LifeAgrees

IInv == damage \in Nat /\ (damage = 0 => Core)

-----------------------------------------------------------------------------
(* The invariant holds before the daemon first starts. *)
LEMMA InitHolds == Init => IInv
<1> SUFFICES ASSUME Init PROVE IInv
  OBVIOUS
<1> USE StoreAssumption DEF Init, Doc, LegacyPrimary, LegacyBackup
<1>1. Types
  BY DEF Types, Saves, NoSave, Busy, Content, File, Writer
<1>2. SavesOverlap /\ VisibleIsFlushed /\ LegacyIsLast
  BY DEF SavesOverlap, VisibleIsFlushed, LegacyIsLast, Running, NoSave, Busy, Writer
<1>3. LifeAgrees
  BY DEF LifeAgrees, NoSave, Writer
<1>4. DocsInUse /\ Recoverable
  BY DEF DocsInUse, InUse, Recoverable, Running, NoSave, Busy, Writer, File
<1> QED BY <1>1, <1>2, <1>3, <1>4 DEF IInv, Core

(* A document is none of the marks. *)
LEMMA DocsApart == Doc \subseteq Nat /\ {Absent, Invalid, Unsafe, Empty, Down} \cap Doc = {}
BY StoreAssumption DEF Doc

(* A save begins with a document nobody has seen: the other save learns    *)
(* of it, and it of the other.                                             *)
LEMMA Begun ==
  ASSUME Types, NEW w \in Writer, NEW o \in Writer, o # w, NEW d \in Doc, BeginSave(w, d),
         Running(o) => writer[o].doc \in Doc
  PROVE  /\ writer' \in [Writer -> Saves]
         /\ ~ Running(w)
         /\ writer'[w].pc = "write" /\ writer'[w].doc = d
         /\ writer'[o].pc = writer[o].pc /\ writer'[o].doc = writer[o].doc
         /\ writer[o].rivals \subseteq writer'[o].rivals
         /\ Running(o) => d \in writer'[o].rivals /\ writer[o].doc \in writer'[w].rivals
         /\ candidates' = candidates \cup {d} /\ UNCHANGED disk
<1>2. InFlight \subseteq Doc /\ (Running(o) => writer[o].doc \in InFlight)
  <2>1. writer[w].pc = "idle" /\ Writer = {w, o}
    BY DEF BeginSave, Writer
  <2> QED BY <2>1 DEF InFlight, Running, Busy
<1>4. writer[w] \in Saves /\ writer[o] \in Saves /\ writer[w].pc = "idle"
  BY DEF Types, BeginSave
<1>5. writer'[w] = [pc |-> "write", doc |-> d, rivals |-> InFlight]
  BY DEF BeginSave
<1>6. writer'[o] = [writer[o] EXCEPT !.rivals = IF Running(o) THEN @ \cup {d} ELSE @]
  BY DEF BeginSave, Running
<1>7. writer'[w] \in Saves
  BY <1>2, <1>5 DEF Saves, Busy
<1>8. /\ writer'[o] \in Saves /\ writer'[o].pc = writer[o].pc /\ writer'[o].doc = writer[o].doc
      /\ writer[o].rivals \subseteq writer'[o].rivals
      /\ Running(o) => d \in writer'[o].rivals
  BY <1>4, <1>6 DEF Saves
<1>9. writer' \in [Writer -> Saves]
  BY <1>7, <1>8, Zenon DEF BeginSave, Writer
<1> QED BY <1>2, <1>4, <1>5, <1>8, <1>9 DEF BeginSave, Running, Busy

(* Such a save disturbs neither the directories nor the other save. *)
LEMMA BeginKeeps ==
  ASSUME Core, NEW w \in Writer, NEW o \in Writer, o # w, NEW d \in Doc, BeginSave(w, d),
         next' \in Nat, next <= next', d < next' \/ d > MaxDocs,
         \A e \in durable : \A f \in {"primary", "backup"} : e[f] # d
  PROVE  DocsInUse' /\ VisibleIsFlushed' /\ Recoverable'
<1> USE StoreAssumption DEF Core
<1>1. Running(o) => writer[o].doc \in Doc
  BY DEF SavesOverlap
<1>2. Writer = {w, o}
  BY DEF Writer
<1> DEFINE Result == /\ writer' \in [Writer -> Saves]
         /\ ~ Running(w)
         /\ writer'[w].pc = "write" /\ writer'[w].doc = d
         /\ writer'[o].pc = writer[o].pc /\ writer'[o].doc = writer[o].doc
         /\ writer[o].rivals \subseteq writer'[o].rivals
         /\ candidates' = candidates \cup {d} /\ UNCHANGED disk
<1>3. Result
  BY <1>1, Begun
<1>4. DocsInUse'
  <2>1. Doc \subseteq Nat
    BY DEF Doc
  <2>2. \A x \in Doc : InUse(x) => InUse(x)'
    BY <2>1 DEF InUse, Types
  <2> QED BY <1>1, <1>2, <1>3, <2>2 DEF DocsInUse, InUse, Running, disk, Types, Busy
<1>5. VisibleIsFlushed'
  BY <1>2, <1>3 DEF VisibleIsFlushed, disk
<1>6. Recoverable'
  BY <1>2, <1>3 DEF Recoverable, disk, Recovered
<1> QED BY <1>4, <1>5, <1>6

(* Rotating the primary away leaves what a start recovers. *)
LEMMA RotateRecovers ==
  ASSUME Core, NEW w \in Writer, Rotate(w), dir["primary"] \in Doc
  PROVE  Recoverable'
<1> DEFINE new == [dir EXCEPT !["primary"] = Absent, !["backup"] = dir["primary"]]
<1>1. dir \in durable /\ dir \in [File -> Doc \cup {Absent}] /\ writer \in [Writer -> Saves]
  BY DEF Core, Types
<1>2. dir' = new /\ durable' = durable \cup {new} /\ candidates' = candidates
  BY DocsApart DEF Rotate, Rename, ghosts
<1>3. new["primary"] = Absent /\ new["backup"] = dir["primary"]
  BY <1>1 DEF File
<1>4. Recovered(new) = Recovered(dir)
  BY <1>3, DocsApart DEF Recovered
<1> HIDE DEF new
<1>5. \A e \in durable' : Recovered(e) \in candidates
  BY <1>1, <1>2, <1>4 DEF Core, Recoverable
<1>6. writer' = [writer EXCEPT ![w].pc = "commit"]
  BY DocsApart DEF Rotate, Goto
<1>7. ASSUME NEW x \in Writer, writer'[x].pc = "sync"
      PROVE  Recovered(new) \in {writer'[x].doc} \cup writer'[x].rivals
  <2>1. writer'[x] = writer[x]
    BY <1>1, <1>6, <1>7 DEF Saves
  <2> QED BY <1>4, <1>7, <2>1 DEF Core, Recoverable
<1> QED BY <1>2, <1>5, <1>7 DEF Recoverable, Recovered

(* A step of a save keeps the invariant. *)
LEMMA SavesKeep ==
  ASSUME NEW w \in Writer, damage = 0, Core,
    \/ WriteTemp(w)
    \/ FlushTemp(w)
    \/ CheckPrimary(w)
    \/ Rotate(w)
    \/ CommitTemp(w)
    \/ SyncDirectory(w)
    \/ FailSave(w)
  PROVE Core'
<1> USE StoreAssumption DEF Core, Types, Saves, Busy, File, Writer, Running, disk, life, ghosts
<1>1. CASE WriteTemp(w)
  <2>1. Types'
    BY <1>1 DEF WriteTemp, Goto, SavesOverlap, VisibleIsFlushed, InUse, Types
  <2>2. SavesOverlap'
    BY <1>1 DEF WriteTemp, Goto, SavesOverlap, VisibleIsFlushed, InUse, SavesOverlap
  <2>3. DocsInUse'
    BY <1>1 DEF WriteTemp, Goto, SavesOverlap, VisibleIsFlushed, InUse, DocsInUse
  <2>4. VisibleIsFlushed'
    BY <1>1 DEF WriteTemp, Goto, SavesOverlap, VisibleIsFlushed, InUse, VisibleIsFlushed
  <2>5. LegacyIsLast'
    BY <1>1 DEF WriteTemp, Goto, SavesOverlap, VisibleIsFlushed, InUse, LegacyIsLast
  <2>6. Recoverable'
    BY <1>1 DEF WriteTemp, Goto, SavesOverlap, VisibleIsFlushed, InUse, Recoverable
  <2>7. LifeAgrees'
    BY <1>1 DEF WriteTemp, Goto, SavesOverlap, VisibleIsFlushed, InUse, LifeAgrees
  <2> QED BY <2>1, <2>2, <2>3, <2>4, <2>5, <2>6, <2>7
<1>2. CASE FlushTemp(w)
  <2>1. Types'
    BY <1>2 DEF FlushTemp, Goto, SavesOverlap, VisibleIsFlushed, InUse, Types
  <2>2. SavesOverlap'
    BY <1>2 DEF FlushTemp, Goto, SavesOverlap, VisibleIsFlushed, InUse, SavesOverlap
  <2>3. DocsInUse'
    BY <1>2 DEF FlushTemp, Goto, SavesOverlap, VisibleIsFlushed, InUse, DocsInUse
  <2>4. VisibleIsFlushed'
    BY <1>2 DEF FlushTemp, Goto, SavesOverlap, VisibleIsFlushed, InUse, VisibleIsFlushed
  <2>5. LegacyIsLast'
    BY <1>2 DEF FlushTemp, Goto, SavesOverlap, VisibleIsFlushed, InUse, LegacyIsLast
  <2>6. Recoverable'
    BY <1>2 DEF FlushTemp, Goto, SavesOverlap, VisibleIsFlushed, InUse, Recoverable
  <2>7. LifeAgrees'
    BY <1>2 DEF FlushTemp, Goto, SavesOverlap, VisibleIsFlushed, InUse, LifeAgrees
  <2> QED BY <2>1, <2>2, <2>3, <2>4, <2>5, <2>6, <2>7
<1>3. CASE CheckPrimary(w)
  <2>1. Types'
    BY <1>3, DocsApart DEF CheckPrimary, Goto, VisibleIsFlushed, InUse, Types
  <2>2. SavesOverlap'
    BY <1>3, DocsApart DEF CheckPrimary, Goto, VisibleIsFlushed, InUse, SavesOverlap
  <2>3. DocsInUse'
    BY <1>3, DocsApart DEF CheckPrimary, Goto, VisibleIsFlushed, InUse, DocsInUse
  <2>4. VisibleIsFlushed'
    BY <1>3, DocsApart DEF CheckPrimary, Goto, VisibleIsFlushed, InUse, VisibleIsFlushed
  <2>5. LegacyIsLast'
    BY <1>3, DocsApart DEF CheckPrimary, Goto, VisibleIsFlushed, InUse, LegacyIsLast
  <2>6. Recoverable'
    BY <1>3, DocsApart DEF CheckPrimary, Goto, VisibleIsFlushed, InUse, Recoverable
  <2>7. LifeAgrees'
    BY <1>3, DocsApart DEF CheckPrimary, Goto, VisibleIsFlushed, InUse, LifeAgrees
  <2> QED BY <2>1, <2>2, <2>3, <2>4, <2>5, <2>6, <2>7
<1>4. CASE Rotate(w)
  <2>1. Types'
    BY <1>4, DocsApart DEF Rotate, Rename, Goto, VisibleIsFlushed, Recovered, InUse, Types
  <2>2. SavesOverlap'
    BY <1>4, DocsApart DEF Rotate, Rename, Goto, VisibleIsFlushed, Recovered, InUse, SavesOverlap
  <2>3. DocsInUse'
    BY <1>4, DocsApart DEF Rotate, Rename, Goto, VisibleIsFlushed, Recovered, InUse, DocsInUse
  <2>4. VisibleIsFlushed'
    <3>1. CASE dir["primary"] = Absent
      BY <1>4, <3>1 DEF Rotate, Goto, VisibleIsFlushed
    <3>2. CASE dir["primary"] # Absent
      <4> DEFINE new == [dir EXCEPT !["primary"] = Absent, !["backup"] = dir["primary"]]
      <4>1. dir' = new /\ durable' = durable \cup {new} /\ unflushed' = unflushed
        BY <1>4, <3>2 DEF Rotate, Rename
      <4>2. new["primary"] = Absent /\ new["backup"] = dir["primary"] /\ dir["primary"] \in Doc
        BY <3>2
      <4> QED BY <1>4, <3>2, <4>1, <4>2, DocsApart DEF Rotate, Goto, VisibleIsFlushed
    <3> QED BY <3>1, <3>2
  <2>5. LegacyIsLast'
    BY <1>4, DocsApart DEF Rotate, Rename, Goto, VisibleIsFlushed, Recovered, InUse, LegacyIsLast
  <2>6. Recoverable'
    <3>1. CASE dir["primary"] = Absent
      BY <1>4, <3>1 DEF Rotate, Goto, Recoverable
    <3>2. CASE dir["primary"] # Absent
      <4> DEFINE new == [dir EXCEPT !["primary"] = Absent, !["backup"] = dir["primary"]]
      <4>1. dir' = new /\ durable' = durable \cup {new} /\ unflushed' = unflushed
        BY <1>4, <3>2 DEF Rotate, Rename
      <4>2. new["primary"] = Absent /\ new["backup"] = dir["primary"] /\ dir["primary"] \in Doc
        BY <3>2
      <4> QED BY <1>4, <4>1, <4>2, RotateRecovers
    <3> QED BY <3>1, <3>2
  <2>7. LifeAgrees'
    BY <1>4, DocsApart DEF Rotate, Rename, Goto, VisibleIsFlushed, Recovered, InUse, LifeAgrees
  <2> QED BY <2>1, <2>2, <2>3, <2>4, <2>5, <2>6, <2>7
<1>5. CASE CommitTemp(w)
  <2>1. Types'
    BY <1>5, DocsApart DEF CommitTemp, Rename, Goto, SavesOverlap, VisibleIsFlushed, Recovered, InUse, Types
  <2>2. SavesOverlap'
    BY <1>5, DocsApart DEF CommitTemp, Rename, Goto, SavesOverlap, VisibleIsFlushed, Recovered, InUse, SavesOverlap
  <2>3. DocsInUse'
    BY <1>5, DocsApart DEF CommitTemp, Rename, Goto, SavesOverlap, VisibleIsFlushed, Recovered, InUse, DocsInUse
  <2>4. VisibleIsFlushed'
    BY <1>5, DocsApart DEF CommitTemp, Rename, Goto, SavesOverlap, VisibleIsFlushed, Recovered, InUse, VisibleIsFlushed
  <2>5. LegacyIsLast'
    BY <1>5, DocsApart DEF CommitTemp, Rename, Goto, SavesOverlap, VisibleIsFlushed, Recovered, InUse, LegacyIsLast
  <2>6. Recoverable'
    BY <1>5, DocsApart DEF CommitTemp, Rename, Goto, SavesOverlap, VisibleIsFlushed, Recovered, InUse, Recoverable
  <2>7. LifeAgrees'
    BY <1>5, DocsApart DEF CommitTemp, Rename, Goto, SavesOverlap, VisibleIsFlushed, Recovered, InUse, LifeAgrees
  <2> QED BY <2>1, <2>2, <2>3, <2>4, <2>5, <2>6, <2>7
<1>6. CASE SyncDirectory(w)
  <2>1. Types'
    BY <1>6 DEF SyncDirectory, Goto, Acknowledged, SavesOverlap, VisibleIsFlushed, InUse, Types
  <2>2. SavesOverlap'
    BY <1>6 DEF SyncDirectory, Goto, Acknowledged, SavesOverlap, VisibleIsFlushed, InUse, SavesOverlap
  <2>3. DocsInUse'
    BY <1>6 DEF SyncDirectory, Goto, Acknowledged, SavesOverlap, VisibleIsFlushed, InUse, DocsInUse
  <2>4. VisibleIsFlushed'
    BY <1>6 DEF SyncDirectory, Goto, Acknowledged, SavesOverlap, VisibleIsFlushed, InUse, VisibleIsFlushed
  <2>5. LegacyIsLast'
    BY <1>6 DEF SyncDirectory, Goto, Acknowledged, SavesOverlap, VisibleIsFlushed, InUse, LegacyIsLast
  <2>6. Recoverable'
    BY <1>6 DEF SyncDirectory, Goto, Acknowledged, SavesOverlap, VisibleIsFlushed, InUse, Recoverable
  <2>7. LifeAgrees'
    BY <1>6 DEF SyncDirectory, Goto, Acknowledged, SavesOverlap, VisibleIsFlushed, InUse, LifeAgrees
  <2> QED BY <2>1, <2>2, <2>3, <2>4, <2>5, <2>6, <2>7
<1>7. CASE FailSave(w)
  <2>1. Types'
    BY <1>7 DEF FailSave, Goto, VisibleIsFlushed, InUse, Types
  <2>2. SavesOverlap'
    BY <1>7 DEF FailSave, Goto, VisibleIsFlushed, InUse, SavesOverlap
  <2>3. DocsInUse'
    BY <1>7 DEF FailSave, Goto, VisibleIsFlushed, InUse, DocsInUse
  <2>4. VisibleIsFlushed'
    BY <1>7 DEF FailSave, Goto, VisibleIsFlushed, InUse, VisibleIsFlushed
  <2>5. LegacyIsLast'
    BY <1>7 DEF FailSave, Goto, VisibleIsFlushed, InUse, LegacyIsLast
  <2>6. Recoverable'
    BY <1>7 DEF FailSave, Goto, VisibleIsFlushed, InUse, Recoverable
  <2>7. LifeAgrees'
    BY <1>7 DEF FailSave, Goto, VisibleIsFlushed, InUse, LifeAgrees
  <2> QED BY <2>1, <2>2, <2>3, <2>4, <2>5, <2>6, <2>7
<1> QED BY <1>1, <1>2, <1>3, <1>4, <1>5, <1>6, <1>7

(* A step of load keeps the invariant. *)
LEMMA StartsKeep ==
  ASSUME damage = 0, Core,
    \/ Start
    \/ ReadAbsent
    \/ Migrated
  PROVE Core'
<1> USE StoreAssumption DEF Core, Types, Saves, Busy, File, Writer, Running, disk, life, ghosts
<1>1. CASE Start
  <2>1. Types'
    BY <1>1 DEF Start, InUse, Types
  <2>2. SavesOverlap'
    BY <1>1 DEF Start, InUse, SavesOverlap
  <2>3. DocsInUse'
    BY <1>1 DEF Start, InUse, DocsInUse
  <2>4. VisibleIsFlushed'
    BY <1>1 DEF Start, InUse, VisibleIsFlushed
  <2>5. LegacyIsLast'
    BY <1>1 DEF Start, InUse, LegacyIsLast
  <2>6. Recoverable'
    BY <1>1 DEF Start, InUse, Recoverable
  <2>7. LifeAgrees'
    BY <1>1 DEF Start, InUse, LifeAgrees
  <2> QED BY <2>1, <2>2, <2>3, <2>4, <2>5, <2>6, <2>7
<1>2. CASE ReadAbsent
  <2>1. Types'
    BY <1>2 DEF ReadAbsent, Skip, Serve, NextFile, InUse, Types
  <2>2. SavesOverlap'
    BY <1>2 DEF ReadAbsent, Skip, Serve, NextFile, InUse, SavesOverlap
  <2>3. DocsInUse'
    BY <1>2 DEF ReadAbsent, Skip, Serve, NextFile, InUse, DocsInUse
  <2>4. VisibleIsFlushed'
    BY <1>2 DEF ReadAbsent, Skip, Serve, NextFile, InUse, VisibleIsFlushed
  <2>5. LegacyIsLast'
    BY <1>2 DEF ReadAbsent, Skip, Serve, NextFile, InUse, LegacyIsLast
  <2>6. Recoverable'
    BY <1>2 DEF ReadAbsent, Skip, Serve, NextFile, InUse, Recoverable
  <2>7. LifeAgrees'
    BY <1>2 DEF ReadAbsent, Skip, Serve, NextFile, InUse, LifeAgrees
  <2> QED BY <2>1, <2>2, <2>3, <2>4, <2>5, <2>6, <2>7
<1>3. CASE Migrated
  <2>1. Types'
    BY <1>3 DEF Migrated, Serve, NoSave, InUse, Types
  <2>2. SavesOverlap'
    BY <1>3 DEF Migrated, Serve, NoSave, InUse, SavesOverlap
  <2>3. DocsInUse'
    BY <1>3 DEF Migrated, Serve, NoSave, InUse, DocsInUse
  <2>4. VisibleIsFlushed'
    BY <1>3 DEF Migrated, Serve, NoSave, InUse, VisibleIsFlushed
  <2>5. LegacyIsLast'
    BY <1>3 DEF Migrated, Serve, NoSave, InUse, LegacyIsLast
  <2>6. Recoverable'
    BY <1>3 DEF Migrated, Serve, NoSave, InUse, Recoverable
  <2>7. LifeAgrees'
    BY <1>3 DEF Migrated, Serve, NoSave, InUse, LifeAgrees
  <2> QED BY <2>1, <2>2, <2>3, <2>4, <2>5, <2>6, <2>7
<1> QED BY <1>1, <1>2, <1>3

(* A step of the daemon's life keeps the invariant. *)
LEMMA DaemonKeeps ==
  ASSUME damage = 0, Core,
    \/ Reply
    \/ Terminate
    \/ Exit
    \/ Kill
    \/ PowerLoss
  PROVE Core'
<1> USE StoreAssumption DEF Core, Types, Saves, Busy, File, Writer, Running, disk, life, ghosts
<1>1. CASE Reply
  <2>1. Types'
    BY <1>1 DEF Reply, NoSave, InUse, Types
  <2>2. SavesOverlap'
    BY <1>1 DEF Reply, NoSave, InUse, SavesOverlap
  <2>3. DocsInUse'
    BY <1>1 DEF Reply, NoSave, InUse, DocsInUse
  <2>4. VisibleIsFlushed'
    BY <1>1 DEF Reply, NoSave, InUse, VisibleIsFlushed
  <2>5. LegacyIsLast'
    BY <1>1 DEF Reply, NoSave, InUse, LegacyIsLast
  <2>6. Recoverable'
    BY <1>1 DEF Reply, NoSave, InUse, Recoverable
  <2>7. LifeAgrees'
    BY <1>1 DEF Reply, NoSave, InUse, LifeAgrees
  <2> QED BY <2>1, <2>2, <2>3, <2>4, <2>5, <2>6, <2>7
<1>2. CASE Terminate
  <2>1. Types'
    BY <1>2 DEF Terminate, InUse, Types
  <2>2. SavesOverlap'
    BY <1>2 DEF Terminate, InUse, SavesOverlap
  <2>3. DocsInUse'
    BY <1>2 DEF Terminate, InUse, DocsInUse
  <2>4. VisibleIsFlushed'
    BY <1>2 DEF Terminate, InUse, VisibleIsFlushed
  <2>5. LegacyIsLast'
    BY <1>2 DEF Terminate, InUse, LegacyIsLast
  <2>6. Recoverable'
    BY <1>2 DEF Terminate, InUse, Recoverable
  <2>7. LifeAgrees'
    BY <1>2 DEF Terminate, InUse, LifeAgrees
  <2> QED BY <2>1, <2>2, <2>3, <2>4, <2>5, <2>6, <2>7
<1>3. CASE Exit
  <2>1. Types'
    BY <1>3 DEF Exit, NoSave, InUse, Types
  <2>2. SavesOverlap'
    BY <1>3 DEF Exit, NoSave, InUse, SavesOverlap
  <2>3. DocsInUse'
    BY <1>3 DEF Exit, NoSave, InUse, DocsInUse
  <2>4. VisibleIsFlushed'
    BY <1>3 DEF Exit, NoSave, InUse, VisibleIsFlushed
  <2>5. LegacyIsLast'
    BY <1>3 DEF Exit, NoSave, InUse, LegacyIsLast
  <2>6. Recoverable'
    BY <1>3 DEF Exit, NoSave, InUse, Recoverable
  <2>7. LifeAgrees'
    BY <1>3 DEF Exit, NoSave, InUse, LifeAgrees
  <2> QED BY <2>1, <2>2, <2>3, <2>4, <2>5, <2>6, <2>7
<1>4. CASE Kill
  <2>1. Types'
    BY <1>4 DEF Kill, NoSave, InUse, Types
  <2>2. SavesOverlap'
    BY <1>4 DEF Kill, NoSave, InUse, SavesOverlap
  <2>3. DocsInUse'
    BY <1>4 DEF Kill, NoSave, InUse, DocsInUse
  <2>4. VisibleIsFlushed'
    BY <1>4 DEF Kill, NoSave, InUse, VisibleIsFlushed
  <2>5. LegacyIsLast'
    BY <1>4 DEF Kill, NoSave, InUse, LegacyIsLast
  <2>6. Recoverable'
    BY <1>4 DEF Kill, NoSave, InUse, Recoverable
  <2>7. LifeAgrees'
    BY <1>4 DEF Kill, NoSave, InUse, LifeAgrees
  <2> QED BY <2>1, <2>2, <2>3, <2>4, <2>5, <2>6, <2>7
<1>5. CASE PowerLoss
  <2>1. Types'
    BY <1>5 DEF PowerLoss, NoSave, Surviving, VisibleIsFlushed, InUse, Types
  <2>2. SavesOverlap'
    BY <1>5 DEF PowerLoss, NoSave, Surviving, VisibleIsFlushed, InUse, SavesOverlap
  <2>3. DocsInUse'
    BY <1>5 DEF PowerLoss, NoSave, Surviving, VisibleIsFlushed, InUse, DocsInUse
  <2>4. VisibleIsFlushed'
    BY <1>5 DEF PowerLoss, NoSave, Surviving, VisibleIsFlushed, InUse, VisibleIsFlushed
  <2>5. LegacyIsLast'
    BY <1>5 DEF PowerLoss, NoSave, Surviving, VisibleIsFlushed, InUse, LegacyIsLast
  <2>6. Recoverable'
    BY <1>5 DEF PowerLoss, NoSave, Surviving, VisibleIsFlushed, InUse, Recoverable
  <2>7. LifeAgrees'
    BY <1>5 DEF PowerLoss, NoSave, Surviving, VisibleIsFlushed, InUse, LifeAgrees
  <2> QED BY <2>1, <2>2, <2>3, <2>4, <2>5, <2>6, <2>7
<1> QED BY <1>1, <1>2, <1>3, <1>4, <1>5

(* The documents the daemon submits are numbered apart from the legacy     *)
(* ones, and the two writers are two. *)
LEMMA FreshDoc ==
  ASSUME Core, next <= MaxDocs
  PROVE  /\ next \in Doc
         /\ \A e \in durable : \A f \in File : e[f] # next
         /\ \A w \in Writer : Running(w) => writer[w].doc # next
BY StoreAssumption, DocsApart DEF Core, Types, DocsInUse, InUse, SavesOverlap, Doc, LegacyBackup, LegacyPrimary

(* A request's save, or the final one, begins. *)
LEMMA SubmitKeeps == ASSUME Core, Persist \/ FinalSave PROVE Core'
<1>0. PICK w \in Writer, o \in Writer :
        /\ o # w /\ BeginSave(w, next) /\ next' = next + 1 /\ next <= MaxDocs
        /\ Persist => w = "handler"
        /\ FinalSave => w = "main"
  BY DEF Persist, FinalSave, Writer
<1>1. /\ next \in Doc
      /\ \A e \in durable : \A f \in File : e[f] # next
      /\ \A x \in Writer : Running(x) => writer[x].doc # next
  BY <1>0, FreshDoc
<1>2. next \in Nat /\ next' \in Nat \ {0} /\ next <= next' /\ next < next'
  BY <1>0 DEF Core, Types
<1>3. DocsInUse' /\ VisibleIsFlushed' /\ Recoverable'
  BY <1>0, <1>1, <1>2, BeginKeeps DEF File
<1>4. Running(o) => writer[o].doc \in Doc
  BY DEF Core, SavesOverlap
<1>5. /\ writer' \in [Writer -> Saves]
      /\ ~ Running(w)
      /\ writer'[w].pc = "write" /\ writer'[w].doc = next
      /\ writer'[o].pc = writer[o].pc /\ writer'[o].doc = writer[o].doc
      /\ Running(o) => next \in writer'[o].rivals /\ writer[o].doc \in writer'[w].rivals
      /\ candidates' = candidates \cup {next} /\ UNCHANGED disk
  BY <1>0, <1>1, <1>4, Begun DEF Core
<1>6. Types'
  BY <1>0, <1>2, <1>5 DEF Persist, FinalSave, Core, Types, disk, life
<1>7. SavesOverlap'
  BY <1>0, <1>1, <1>4, <1>5 DEF Persist, FinalSave, Core, SavesOverlap, Running, Busy, Writer, life
<1>8. LegacyIsLast'
  BY <1>5 DEF Persist, FinalSave, Core, LegacyIsLast, disk, life
<1>9. LifeAgrees'
  BY <1>0, <1>5 DEF Persist, FinalSave, Core, LifeAgrees, life
<1> QED BY <1>3, <1>6, <1>7, <1>8, <1>9 DEF Core

(* load finds a document, and saves it first if it is a legacy one. *)
LEMMA ReadKeeps == ASSUME Core, ReadDocument PROVE Core'
<1> USE DEF Core
<1>1. CASE reading \in {"primary", "backup"}
  BY <1>1 DEF ReadDocument, Serve, Types, SavesOverlap, DocsInUse, InUse, VisibleIsFlushed,
    LegacyIsLast, Recoverable, LifeAgrees, Running, disk, ghosts, Saves
<1>2. CASE reading \notin {"primary", "backup"}
  <2> DEFINE d == dir[reading]
  <2>0. /\ daemon = "loading" /\ d \in Doc /\ BeginSave("main", d)
        /\ reading' = "migrating" /\ UNCHANGED <<daemon, topology, next>>
    BY <1>2 DEF ReadDocument
  <2>1. reading \in {"legacy_primary", "legacy_backup"}
    BY <1>2, <2>0 DEF ReadDocument, Types, File
  <2>2. d > MaxDocs
    BY <2>0, <2>1, DocsApart DEF Types, DocsInUse
  <2>3. \A e \in durable : \A f \in {"primary", "backup"} : e[f] # d
    BY <2>0, <2>1, DocsApart DEF LegacyIsLast
  <2>4. "main" \in Writer /\ "handler" \in Writer /\ ~ Running("handler")
    BY <2>0 DEF Writer, SavesOverlap
  <2>5. next \in Nat /\ next' = next
    BY <2>0 DEF Types
  <2> HIDE DEF d
  <2>6. DocsInUse' /\ VisibleIsFlushed' /\ Recoverable'
    BY <2>0, <2>2, <2>3, <2>4, <2>5, BeginKeeps
  <2>7. /\ writer' \in [Writer -> Saves]
        /\ writer'["main"].pc = "write" /\ writer'["main"].doc = d
        /\ writer'["handler"].pc = writer["handler"].pc
        /\ candidates' = candidates \cup {d} /\ UNCHANGED disk
    BY <2>0, <2>4, Begun
  <2>8. Types'
    BY <2>0, <2>5, <2>7 DEF Types, disk
  <2>9. SavesOverlap'
    BY <2>0, <2>4, <2>7 DEF SavesOverlap, Running, Busy, Writer
  <2>10. LegacyIsLast'
    BY <2>0, <2>7 DEF LegacyIsLast, disk
  <2>11. LifeAgrees'
    BY <2>0, <2>7 DEF LifeAgrees
  <2> QED BY <2>6, <2>8, <2>9, <2>10, <2>11
<1> QED BY <1>1, <1>2

(* Damage is only counted up. *)
LEMMA DamageCounts == ASSUME Next PROVE damage' = damage \/ damage' = damage + 1
<1>1. ASSUME NEW w \in Writer, SaveStep(w) PROVE damage' = damage
  BY <1>1 DEF SaveStep, WriteTemp, FlushTemp, CheckPrimary, Rotate, QuarantinePrimary,
    CommitTemp, SyncDirectory, FailSave, Acknowledged, ghosts
<1>2. ASSUME Start \/ ReadDocument \/ ReadAbsent \/ ReadInvalid \/ ReadError
               \/ LoadFails \/ Migrated \/ \E f \in File : Damage(f)
      PROVE damage' = damage \/ damage' = damage + 1
  BY <1>2 DEF Start, ReadDocument, BeginSave, ReadAbsent, ReadInvalid, ReadError,
    LoadFails, Migrated, Damage, Damaging, ghosts
<1>3. ASSUME Persist \/ Reply \/ Terminate \/ FinalSave \/ Exit \/ Kill \/ PowerLoss
      PROVE damage' = damage
  BY <1>3 DEF Persist, BeginSave, Reply, Terminate, FinalSave, Exit, Kill, PowerLoss, ghosts
<1> QED BY <1>1, <1>2, <1>3 DEF Next

(* Steps that need a damaged file are not taken before one was damaged. *)
LEMMA Undamaged ==
  ASSUME IInv, Next, damage' = 0
  PROVE  /\ damage = 0 /\ Core
         /\ ~ (ReadInvalid \/ ReadError \/ LoadFails \/ \E f \in File : Damage(f))
<1>1. damage' = damage \/ damage' = damage + 1
  BY DamageCounts
<1>2. damage = 0 /\ Core
  BY <1>1 DEF IInv
<1>3. \A f \in File : dir[f] \notin {Invalid, Unsafe}
  BY <1>2, DocsApart, StoreAssumption DEF Core, Types
<1>4. ~ ReadInvalid
  <2>1. CASE daemon = "loading" /\ reading # "migrating"
    BY <1>2, <1>3, <2>1 DEF ReadInvalid, Core, Types
  <2> QED BY <2>1 DEF ReadInvalid
<1>5. ~ ReadError /\ ~ LoadFails /\ \A f \in File : ~ Damage(f)
  BY <1>2 DEF ReadError, LoadFails, Damage, Damaging
<1> QED BY <1>2, <1>4, <1>5

(* Every step keeps the invariant. *)
LEMMA NextKeeps == IInv /\ [Next]_vars => IInv'
<1> SUFFICES ASSUME IInv, [Next]_vars PROVE IInv'
  OBVIOUS
<1>1. CASE UNCHANGED vars
  BY <1>1 DEF vars, IInv, Core, Types, SavesOverlap, DocsInUse, InUse, VisibleIsFlushed,
    LegacyIsLast, Recoverable, Recovered, Running, LifeAgrees
<1>2. CASE Next
  <2>1. damage' \in Nat
    BY <1>2, DamageCounts DEF IInv
  <2>2. ASSUME damage' = 0 PROVE Core'
    <3>1. Core /\ ~ (ReadInvalid \/ ReadError \/ LoadFails \/ \E f \in File : Damage(f)) /\ damage = 0
      BY <1>2, <2>2, Undamaged
    <3>2. \A w \in Writer : ~ QuarantinePrimary(w)
      BY <3>1 DEF QuarantinePrimary, Core, Types, Saves, Busy
    <3> QED BY <1>2, <3>1, <3>2, SavesKeep, StartsKeep, DaemonKeeps, SubmitKeeps,
              ReadKeeps DEF Next, SaveStep
  <2> QED BY <2>1, <2>2 DEF IInv
<1> QED BY <1>1, <1>2

(* The store's invariant always holds. *)
THEOREM StoreIsSound == Spec => []IInv
BY InitHolds, NextKeeps, PTL DEF Spec

(* However many documents are saved, and whatever fails or dies, the next  *)
(* start recovers what was last acknowledged, or something newer.          *)
THEOREM AcknowledgedIsKept == Spec => []AcknowledgedSurvives
<1>1. IInv => AcknowledgedSurvives
  <2> SUFFICES ASSUME Core PROVE /\ Recovered(dir) \in candidates
                                 /\ \A d \in durable : Recovered(Surviving(d)) \in candidates
    BY DEF IInv, AcknowledgedSurvives
  <2>1. \A d \in durable : Surviving(d) = d
    BY DEF Core, Types, VisibleIsFlushed, Surviving
  <2> QED BY <2>1 DEF Core, Types, Recoverable
<1> QED BY StoreIsSound, <1>1, PTL

-----------------------------------------------------------------------------
(* The saves in progress, as the register sees them. *)

(* A step within a save is not seen. *)
LEMMA SavingSame ==
  ASSUME Core, NEW w \in Writer, Running(w), NEW p \in Busy, writer' = [writer EXCEPT ![w].pc = p]
  PROVE  Saving' = Saving
<1>1. \A x \in Writer : SaveOf(x)' = SaveOf(x) /\ (writer'[x].pc \in Busy <=> writer[x].pc \in Busy)
  BY DEF Core, Types, Saves, SaveOf, Running
<1> QED BY <1>1 DEF Saving

(* The end of a save takes it, and only it, away. *)
LEMMA SavingLess ==
  ASSUME Core, NEW w \in Writer, Running(w), NEW p \in {"ok", "err"},
         writer' = [writer EXCEPT ![w].pc = p]
  PROVE  SaveOf(w) \in Saving /\ Saving' = Saving \ {SaveOf(w)}
<1>1. \A x \in Writer : /\ SaveOf(x)' = SaveOf(x)
                        /\ writer'[x].pc \in Busy <=> writer[x].pc \in Busy /\ x # w
  BY DEF Core, Types, Saves, SaveOf, Running, Busy
<1>2. \A x \in Writer : Running(x) /\ x # w => SaveOf(x) # SaveOf(w)
  BY DEF Core, SavesOverlap, SaveOf, Writer
<1> QED BY <1>1, <1>2 DEF Saving, Running

(* Both specifications agree on the documents in flight. *)
LEMMA SameInFlight == Register!InFlight = InFlight
<1>1. \A w \in Writer : SaveOf(w).doc = writer[w].doc
  BY DEF SaveOf
<1>2. Register!InFlight = {SaveOf(w).doc : w \in {x \in Writer : writer[x].pc \in Busy}}
  BY DEF Register!InFlight, Saving
<1> QED BY <1>1, <1>2 DEF InFlight

(* A save that begins joins the others. *)
LEMMA SavingMore ==
  ASSUME Core, NEW w \in Writer, NEW o \in Writer, o # w, NEW d \in Doc, BeginSave(w, d),
         Running(o) => writer[o].doc # d, Value' = Value
  PROVE  Register!Next
<1>1. Writer = {w, o} /\ writer[w].pc = "idle" /\ ~ Running(w)
  BY DEF BeginSave, Writer, Running, Busy
<1>2. d \notin InFlight
  BY <1>1 DEF InFlight, Running
<1>3. SaveOf(w)' = [doc |-> d, rivals |-> InFlight] /\ writer'[w].pc \in Busy
  BY DEF BeginSave, SaveOf, Busy
<1>4. Running(o)' <=> Running(o)
  BY DEF BeginSave, Running, Core, Types, Saves
<1>5. Running(o) => SaveOf(o)' = [SaveOf(o) EXCEPT !.rivals = @ \cup {d}]
  <2> SUFFICES ASSUME Running(o) PROVE SaveOf(o)' = [SaveOf(o) EXCEPT !.rivals = @ \cup {d}]
    OBVIOUS
  <2>1. writer'[o] = [writer[o] EXCEPT !.rivals = @ \cup {d}]
    BY Zenon DEF BeginSave, Running
  <2>2. writer'[o].doc = writer[o].doc /\ writer'[o].rivals = writer[o].rivals \cup {d}
    BY <2>1 DEF Core, Types, Saves
  <2> QED BY <2>2 DEF SaveOf
<1>6. Saving = IF Running(o) THEN {SaveOf(o)} ELSE {}
  BY <1>1 DEF Saving, Running
<1>7. Saving' = (IF Running(o) THEN {SaveOf(o)'} ELSE {}) \cup {SaveOf(w)'}
  BY <1>1, <1>3, <1>4 DEF Saving, Running
<1>8. Saving' = {[x EXCEPT !.rivals = @ \cup {d}] : x \in Saving} \cup {[doc |-> d, rivals |-> InFlight]}
  BY <1>3, <1>5, <1>6, <1>7, Zenon
<1>9. Register!Begin(d)
  BY <1>2, <1>8, SameInFlight DEF Register!Begin, BeginSave
<1> QED BY <1>9 DEF Register!Next

(* Nothing of the register is known to be Down but the absence of a daemon. *)
LEMMA ValueTyped ==
  ASSUME Core
  PROVE  daemon \in {"running", "stopping", "final"} => Value # Down
BY DocsApart, StoreAssumption DEF Core, Types, Saves, LifeAgrees, Value, Writer

(* The steps of a save. *)
LEMMA SaveRefines ==
  ASSUME Core, NEW w \in Writer, SaveStep(w), damage' = 0
  PROVE  [Register!Next]_(Register!vars)
<1> DEFINE Moves(p) == writer' = [writer EXCEPT ![w].pc = p]
<1>1. CASE WriteTemp(w) \/ FlushTemp(w) \/ CheckPrimary(w) \/ CommitTemp(w)
             \/ (Rotate(w) /\ dir["primary"] # Absent)
  <2>1. PICK p \in Busy : Moves(p)
    BY <1>1 DEF WriteTemp, FlushTemp, CheckPrimary, CommitTemp, Rotate, Goto, Busy
  <2>2. Running(w) /\ UNCHANGED <<candidates, life>>
    BY <1>1 DEF WriteTemp, FlushTemp, CheckPrimary, CommitTemp, Rotate, Running, Busy, ghosts
  <2>3. Saving' = Saving
    BY <2>1, <2>2, SavingSame, Zenon
  <2>4. Value' = Value
    BY <2>1, <2>2 DEF Value, life, Core, Types, Saves, Running, Busy, Writer
  <2> QED BY <2>2, <2>3, <2>4 DEF Register!vars
<1>2. CASE FailSave(w) \/ (Rotate(w) /\ dir["primary"] = Absent)
  <2>1. Moves("err") /\ Running(w) /\ UNCHANGED <<candidates, life>>
    BY <1>2 DEF FailSave, Rotate, Goto, Running, Busy, ghosts
  <2>2. SaveOf(w) \in Saving /\ Saving' = Saving \ {SaveOf(w)}
    BY <2>1, SavingLess, Zenon
  <2>3. Value' = IF Value = Down THEN Empty ELSE Value
    <3>1. CASE daemon \in {"running", "stopping", "final"}
      <4>1. Value' = Value
        BY <2>1, <3>1 DEF Value, life, Core, Types, Saves, Running, Busy, Writer
      <4> QED BY <3>1, <4>1, ValueTyped
    <3>2. CASE daemon \notin {"running", "stopping", "final"}
      <4>1. w = "main" /\ daemon = "loading" /\ reading = "migrating"
        BY <2>1, <3>2 DEF Core, Types, SavesOverlap, Running, Writer
      <4>2. Value = Down
        BY <2>1, <4>1 DEF Value, Running, Busy
      <4>3. Value' = Empty
        BY <2>1, <4>1 DEF Value, life, Core, Types, Saves
      <4> QED BY <4>2, <4>3
    <3> QED BY <3>1, <3>2
  <2>4. Register!Abort(SaveOf(w))
    BY <2>1, <2>2, <2>3 DEF Register!Abort
  <2> QED BY <2>2, <2>4 DEF Register!Next
<1>3. CASE SyncDirectory(w)
  <2>1. Moves("ok") /\ Running(w) /\ UNCHANGED life
        /\ candidates' = {writer[w].doc} \cup writer[w].rivals
    BY <1>3 DEF SyncDirectory, Acknowledged, Goto, Running, Busy
  <2>2. SaveOf(w) \in Saving /\ Saving' = Saving \ {SaveOf(w)}
    BY <2>1, SavingLess, Zenon
  <2>3. Value' \in {Value, writer[w].doc}
    BY <2>1 DEF Value, life, Core, Types, Saves, Running, Busy, Writer
  <2>4. Register!Commit(SaveOf(w))
    BY <2>1, <2>2, <2>3 DEF Register!Commit, SaveOf
  <2> QED BY <2>2, <2>4 DEF Register!Next
<1>4. ~ QuarantinePrimary(w)
  BY DEF QuarantinePrimary, Core, Types, Saves, Busy
<1> QED BY <1>1, <1>2, <1>3, <1>4 DEF SaveStep

(* A start adopts what load recovers, or begins by saving it. *)
LEMMA StartRefines ==
  ASSUME Core, Start \/ ReadDocument \/ ReadAbsent \/ Migrated
  PROVE  [Register!Next]_(Register!vars)
<1>1. CASE Start
  <2>1. Value' = Value
    BY <1>1 DEF Start, Value
  <2>2. Saving' = Saving /\ candidates' = candidates
    BY <1>1 DEF Start, Saving, SaveOf, ghosts
  <2> QED BY <2>1, <2>2 DEF Register!vars
<1>2. ASSUME daemon = "loading", reading # "migrating" \/ writer["main"].pc = "ok",
             NEW d \in candidates, Serve(d), UNCHANGED <<candidates, Saving>>,
             writer'["handler"] = writer["handler"]
      PROVE  Register!Next
  <2>1. Value = Down
    BY <1>2 DEF Value
  <2>2. Value' = d
    BY <1>2 DEF Value, Serve, Core, LifeAgrees
  <2>3. Register!Adopt
    BY <1>2, <2>1, <2>2 DEF Register!Adopt
  <2> QED BY <2>3 DEF Register!Next
<1>3. CASE ReadDocument /\ reading \in {"primary", "backup"}
  <2>1. dir[reading] = Recovered(dir)
    BY <1>3, DocsApart DEF ReadDocument, Recovered, Core, LegacyIsLast
  <2>2. dir[reading] \in candidates
    BY <2>1 DEF Core, Types, Recoverable
  <2>3. daemon = "loading" /\ reading # "migrating" /\ Serve(dir[reading]) /\ writer' = writer
        /\ candidates' = candidates
    BY <1>3 DEF ReadDocument, ghosts
  <2>4. Saving' = Saving
    BY <2>3 DEF Saving, SaveOf
  <2> QED BY <1>2, <2>2, <2>3, <2>4
<1>4. CASE ReadDocument /\ reading \notin {"primary", "backup"}
  <2>1. /\ daemon = "loading" /\ dir[reading] \in Doc /\ BeginSave("main", dir[reading])
        /\ reading # "migrating" /\ reading' = "migrating" /\ daemon' = daemon
    BY <1>4 DEF ReadDocument
  <2>2. ~ Running("handler") /\ "main" \in Writer /\ "handler" \in Writer
    BY <2>1 DEF Core, SavesOverlap, Writer
  <2>3. Value' = Value
    BY <2>1, <2>2 DEF Value, BeginSave
  <2> QED BY <2>1, <2>2, <2>3, SavingMore
<1>5. CASE ReadAbsent
  <2>1. daemon = "loading" /\ reading # "migrating" /\ reading \in File
        /\ writer' = writer /\ candidates' = candidates
    BY <1>5 DEF ReadAbsent, ghosts, Core, Types
  <2>2. Saving' = Saving
    BY <2>1 DEF Saving, SaveOf
  <2>3. CASE reading = "legacy_backup"
    <3>1. Recovered(dir) = Empty
      BY <1>5, <2>1, <2>3, DocsApart DEF ReadAbsent, Recovered, Core, LegacyIsLast
    <3>2. Empty \in candidates
      BY <3>1 DEF Core, Types, Recoverable
    <3>3. Serve(Empty)
      BY <1>5, <2>3 DEF ReadAbsent, Skip, NextFile
    <3> QED BY <1>2, <2>1, <2>2, <3>2, <3>3
  <2>4. CASE reading # "legacy_backup"
    <3>1. daemon' = daemon /\ reading' # "migrating"
      BY <1>5, <2>1, <2>4 DEF ReadAbsent, Skip, NextFile, File
    <3>2. Value' = Value
      BY <2>1, <3>1 DEF Value
    <3> QED BY <2>1, <2>2, <3>2 DEF Register!vars
  <2> QED BY <2>3, <2>4
<1>6. CASE Migrated
  <2>1. /\ daemon = "loading" /\ reading = "migrating" /\ writer["main"].pc \in {"ok", "err"}
        /\ writer'["handler"] = writer["handler"] /\ candidates' = candidates
        /\ \A x \in Writer : writer'[x].pc \in Busy <=> writer[x].pc \in Busy
        /\ \A x \in Writer : writer[x].pc \in Busy => writer'[x] = writer[x]
    BY <1>6 DEF Migrated, ghosts, Core, Types, NoSave, Busy, Writer
  <2>2. Saving' = Saving
    BY <2>1 DEF Saving, SaveOf
  <2>3. CASE writer["main"].pc = "ok"
    <3>1. writer["main"].doc \in candidates /\ Serve(writer["main"].doc)
      BY <1>6, <2>1, <2>3 DEF Migrated, Core, LifeAgrees
    <3> QED BY <1>2, <2>1, <2>2, <2>3, <3>1
  <2>4. CASE writer["main"].pc = "err"
    <3>1. Value = Empty
      BY <2>1, <2>4 DEF Value
    <3>2. Value' = Empty
      BY <1>6, <2>1, <2>4 DEF Migrated, Serve, Value, Core, LifeAgrees
    <3> QED BY <2>1, <2>2, <3>1, <3>2 DEF Register!vars
  <2> QED BY <2>1, <2>3, <2>4
<1> QED BY <1>1, <1>3, <1>4, <1>5, <1>6

(* The life of a daemon after it has started, and its end. *)
LEMMA LifeRefines ==
  ASSUME Core, Persist \/ Reply \/ Terminate \/ FinalSave \/ Exit \/ Kill \/ PowerLoss
  PROVE  [Register!Next]_(Register!vars)
<1>1. CASE Persist \/ FinalSave
  <2>1. PICK w \in Writer, o \in Writer : o # w /\ BeginSave(w, next)
    BY <1>1 DEF Persist, FinalSave, Writer
  <2>2. next \in Doc /\ (Running(o) => writer[o].doc # next)
    BY <1>1, FreshDoc DEF Persist, FinalSave
  <2>3. Value' = Value
    BY <1>1 DEF Persist, FinalSave, BeginSave, Value, life, Core, Types, Saves, Writer
  <2> QED BY <2>1, <2>2, <2>3, SavingMore
<1>2. CASE Reply \/ Terminate
  <2>1. candidates' = candidates
    BY <1>2 DEF Reply, Terminate, ghosts
  <2>2. Value' = Value
    BY <1>2 DEF Reply, Terminate, Value, NoSave, Core, Types, Writer
  <2>3. /\ \A x \in Writer : writer'[x].pc \in Busy <=> writer[x].pc \in Busy
        /\ \A x \in Writer : writer[x].pc \in Busy => writer'[x] = writer[x]
    BY <1>2 DEF Reply, Terminate, NoSave, Core, Types, Busy, Writer
  <2>4. Saving' = Saving
    BY <2>3 DEF Saving, SaveOf
  <2> QED BY <2>1, <2>2, <2>4 DEF Register!vars
<1>3. CASE Exit \/ Kill \/ PowerLoss
  <2>1. daemon' \in {"down", "exited"} /\ writer' = [w \in Writer |-> NoSave] /\ candidates' = candidates
    BY <1>3 DEF Exit, Kill, PowerLoss, ghosts
  <2>2. Value' = Down
    BY <2>1 DEF Value
  <2>3. Saving' = {}
    BY <2>1 DEF Saving, NoSave, Busy
  <2>4. Register!Crash
    BY <2>1, <2>2, <2>3 DEF Register!Crash
  <2> QED BY <2>4 DEF Register!Next
<1> QED BY <1>1, <1>2, <1>3

(* The store starts as the register does. *)
LEMMA RegisterStarts == Init => Register!Init
<1> SUFFICES ASSUME Init PROVE Register!Init
  OBVIOUS
<1>1. Value = Down /\ Saving = {}
  BY DEF Init, Value, Saving, NoSave, Busy
<1>2. Recovered(dir) \in Doc \cup {Empty} /\ candidates = {Recovered(dir)}
  BY DEF Init, Recovered
<1> QED BY <1>1, <1>2 DEF Register!Init

(* For any number of documents and failures, every step of the store is a  *)
(* step of the register or none, until a file is damaged from outside.     *)
THEOREM StoreIsARegister == Spec => ImplementsRegister
<1> DEFINE Refines == damage' = 0 => [Register!Next]_(Register!vars)
<1>1. IInv /\ [Next]_vars => [Refines]_vars
  <2> SUFFICES ASSUME IInv, Next, damage' = 0 PROVE [Register!Next]_(Register!vars)
    OBVIOUS
  <2>1. Core /\ ~ (ReadInvalid \/ ReadError \/ LoadFails \/ \E f \in File : Damage(f))
    BY Undamaged
  <2> QED BY <2>1, SaveRefines, StartRefines, LifeRefines DEF Next
<1> QED BY StoreIsSound, RegisterStarts, <1>1, PTL DEF Spec, ImplementsRegister

-----------------------------------------------------------------------------
(* While the final save runs and after it, the only rival it has is the    *)
(* save a request left running.                                            *)
LastSave ==
  daemon = "final" =>
    /\ writer["main"].rivals \subseteq {writer["handler"].doc}
    /\ writer["main"].pc = "ok" =>
         /\ Recovered(dir) \in {writer["main"].doc} \cup writer["main"].rivals
         /\ Running("handler") => writer["handler"].doc \in writer["main"].rivals

LInv == IInv /\ (damage = 0 => LastSave)

(* A step of a save keeps what the next start recovers, or puts its own    *)
(* document there.                                                         *)
LEMMA SaveRecovers ==
  ASSUME Core, NEW w \in Writer, SaveStep(w)
  PROVE  Recovered(dir') \in {Recovered(dir), writer[w].doc}
<1>1. dir \in [File -> Doc \cup {Absent}] /\ writer[w].pc # "quarantine"
  BY DEF Core, Types, Saves, Busy
<1>2. CASE Rotate(w) /\ dir["primary"] # Absent
  <2>1. dir' = [dir EXCEPT !["primary"] = Absent, !["backup"] = dir["primary"]]
    BY <1>2 DEF Rotate, Rename
  <2>2. dir["primary"] \in Doc /\ dir'["primary"] = Absent /\ dir'["backup"] = dir["primary"]
    BY <1>1, <1>2, <2>1 DEF File
  <2> QED BY <2>2, DocsApart DEF Recovered
<1>3. CASE CommitTemp(w)
  <2>1. dir'["primary"] = writer[w].doc /\ writer[w].doc \in Doc
    BY <1>1, <1>3 DEF CommitTemp, Rename, File, Core, SavesOverlap, Running, Busy
  <2> QED BY <2>1 DEF Recovered
<1>4. CASE dir' = dir
  BY <1>4
<1> QED
  BY <1>1, <1>2, <1>3, <1>4 DEF SaveStep, WriteTemp, FlushTemp, CheckPrimary, Rotate,
    QuarantinePrimary, SyncDirectory, FailSave, disk

(* A step of a save keeps LastSave. *)
LEMMA SaveKeepsLast ==
  ASSUME Core, LastSave, NEW w \in Writer, SaveStep(w), daemon = "final"
  PROVE  LastSave'
<1>1. writer \in [Writer -> Saves] /\ writer[w].pc # "quarantine" /\ Running(w)
  <2>1. writer \in [Writer -> Saves]
    BY DEF Core, Types
  <2>2. Running(w)
    BY DEF SaveStep, WriteTemp, FlushTemp, CheckPrimary, Rotate, QuarantinePrimary,
      CommitTemp, SyncDirectory, FailSave, Running, Busy
  <2> QED BY <2>1, <2>2 DEF Saves, Busy
<1>2. /\ \E p \in Busy \cup {"ok", "err"} :
             /\ writer' = [writer EXCEPT ![w].pc = p]
             /\ p = "ok" => SyncDirectory(w)
      /\ daemon' = daemon
  BY <1>1 DEF SaveStep, WriteTemp, FlushTemp, CheckPrimary, Rotate, QuarantinePrimary,
    CommitTemp, SyncDirectory, FailSave, Goto, life, Busy
<1>3. \A x \in Writer : /\ writer'[x].doc = writer[x].doc /\ writer'[x].rivals = writer[x].rivals
                        /\ x # w => writer'[x] = writer[x]
  BY <1>1, <1>2 DEF Saves
<1>4. CASE w = "main"
  <2>1. ASSUME writer'["main"].pc = "ok"
        PROVE  /\ Recovered(dir') \in {writer["main"].doc} \cup writer["main"].rivals
               /\ Running("handler") => writer["handler"].doc \in writer["main"].rivals
    <3>1. SyncDirectory("main") /\ writer["main"].pc = "sync" /\ dir' = dir
      BY <1>1, <1>2, <1>4, <2>1 DEF SyncDirectory, Saves
    <3>2. Recovered(dir) \in {writer["main"].doc} \cup writer["main"].rivals
      BY <3>1 DEF Core, Recoverable, Writer
    <3>3. Running("handler") => writer["handler"].doc \in writer["main"].rivals
      BY <1>1, <1>4 DEF Core, SavesOverlap
    <3> QED BY <3>1, <3>2, <3>3
  <2>2. writer'["handler"] = writer["handler"]
    BY <1>3, <1>4 DEF Writer
  <2> QED BY <1>3, <1>4, <2>1, <2>2 DEF LastSave, Running, Writer, Recovered
<1>5. CASE w = "handler"
  <2>1. writer'["main"] = writer["main"] /\ writer'["handler"].doc = writer["handler"].doc
    BY <1>3, <1>5 DEF Writer
  <2>2. writer["main"].pc = "ok" => writer["handler"].doc \in writer["main"].rivals
    BY <1>1, <1>5 DEF LastSave
  <2>3. Recovered(dir') \in {Recovered(dir), writer["handler"].doc}
    BY <1>5, SaveRecovers
  <2> QED BY <2>1, <2>2, <2>3 DEF LastSave, Recovered
<1> QED BY <1>4, <1>5 DEF Writer

(* The final save begins with at most the request's save running. *)
LEMMA FinalBegins == ASSUME Core, FinalSave PROVE LastSave'
<1>1. writer'["main"].rivals = InFlight /\ writer'["main"].pc = "write"
  BY DEF FinalSave, BeginSave, Writer
<1>2. writer["main"].pc = "idle" /\ writer'["handler"].doc = writer["handler"].doc
  BY DEF FinalSave, BeginSave, Writer, Core, Types, Saves
<1>3. InFlight \subseteq {writer["handler"].doc}
  BY <1>2 DEF InFlight, Writer, Busy
<1> QED BY <1>1, <1>2, <1>3 DEF LastSave

(* Every step keeps LastSave, until a file is damaged. *)
LEMMA LastKept == LInv /\ [Next]_vars => LInv'
<1> SUFFICES ASSUME LInv, [Next]_vars, damage' = 0 PROVE LastSave'
  BY NextKeeps DEF LInv
<1>1. CASE UNCHANGED vars
  BY <1>1 DEF vars, LInv, LastSave, Recovered, Running
<1>2. CASE Next
  <2>1. Core /\ LastSave /\ ~ (ReadInvalid \/ ReadError \/ LoadFails \/ \E f \in File : Damage(f))
    BY <1>2, Undamaged DEF LInv
  <2>2. CASE daemon' # "final"
    BY <2>2 DEF LastSave
  <2>3. ASSUME NEW w \in Writer, SaveStep(w), daemon' = "final" PROVE LastSave'
    <3>1. daemon' = daemon
      BY <2>3 DEF SaveStep, WriteTemp, FlushTemp, CheckPrimary, Rotate, QuarantinePrimary,
        CommitTemp, SyncDirectory, FailSave, life
    <3> QED BY <2>1, <2>3, <3>1, SaveKeepsLast
  <2>4. CASE FinalSave
    BY <2>1, <2>4, FinalBegins
  <2>5. ASSUME Start \/ ReadDocument \/ ReadAbsent \/ Migrated \/ Persist \/ Reply \/ Terminate
                 \/ Exit \/ Kill \/ PowerLoss
        PROVE  daemon' # "final"
    BY <2>5 DEF Start, ReadDocument, ReadAbsent, Migrated, Skip, Serve, Persist, Reply,
      Terminate, Exit, Kill, PowerLoss, life
  <2> QED BY <1>2, <2>1, <2>2, <2>3, <2>4, <2>5 DEF Next
<1> QED BY <1>1, <1>2

(* ordered_shutdown: for any number of documents and whatever save a       *)
(* request left running, a daemon that is about to exit with its final     *)
(* save acknowledged leaves the final document, or that save's.            *)
THEOREM FinalIsKept == Spec => []FinalUnlessOvertaken
<1>1. Init => LInv
  BY InitHolds DEF LInv, LastSave, Init
<1>2. LInv => FinalUnlessOvertaken
  BY Zenon DEF LInv, LastSave, FinalUnlessOvertaken
<1> QED BY <1>1, <1>2, LastKept, PTL DEF Spec

Holds(f) == dir[f] \in Doc

Committing == \E w \in Writer : writer[w].pc = "commit"

(* The part of the typing, and of when each save may run, that damaged     *)
(* files leave true.                                                       *)
DamagedTypes ==
  /\ dir \in [File -> Content]
  /\ writer \in [Writer -> [pc : Busy \cup {"idle", "ok", "err"}, doc : Doc \cup {Empty},
                            rivals : SUBSET Doc]]
  /\ next \in Nat \ {0} /\ acks \in 0..2
  /\ daemon = "loading" => reading \in File \cup {"migrating"}
  /\ daemon \in {"down", "loading", "exited"} => ~ Running("handler")
  /\ daemon \in {"down", "running", "stopping", "exited"} => ~ Running("main")
  /\ daemon = "loading" /\ Running("main") => reading = "migrating"
  /\ \A w \in Writer : Running(w) => writer[w].doc \in Doc
  /\ Running("handler") /\ Running("main") => \A w \in Writer : writer[w].rivals # {}

(* load passes over a file only when it holds no document. *)
PassedOver ==
  /\ daemon = "loading" /\ reading \in {"backup", "legacy_primary", "legacy_backup"} =>
       ~ Holds("primary")
  /\ daemon = "loading" /\ reading \in {"legacy_primary", "legacy_backup"} => ~ Holds("backup")

(* Without damage an acknowledged save leaves a primary, a second one a    *)
(* backup as well, except while a save is between its two renames; after   *)
(* one damage one of them is left.                                         *)
TwoGenerations ==
  /\ damage = 0 /\ acks >= 1 => Holds("primary") \/ Committing
  /\ damage = 0 /\ acks = 2 => Holds("backup")
  /\ damage <= 1 /\ acks = 2 => Holds("primary") \/ Holds("backup") \/ Committing

(* What a save that met no other has done so far. *)
AloneSoFar ==
  \A w \in Writer : Running(w) /\ writer[w].rivals = {} =>
    /\ writer[w].pc = "sync" => Holds("primary")
    /\ damage = 0 /\ acks >= 1 /\ writer[w].pc \in {"quarantine", "commit", "sync"} =>
         writer[w].pc # "quarantine" /\ Holds("backup")

Generations == DamagedTypes /\ PassedOver /\ TwoGenerations /\ AloneSoFar

GInv == failures \in BOOLEAN /\ (~ failures => Generations)

(* A save that is alone, and who else may be writing. *)
LEMMA Alone ==
  ASSUME DamagedTypes, NEW w \in Writer, Running(w), writer[w].rivals = {}
  PROVE  \A x \in Writer : Running(x) => x = w
BY DEF DamagedTypes, Writer

(* A step of a save that renames nothing. *)
LEMMA QuietSaves ==
  ASSUME Generations, NEW w \in Writer, NEW p \in Busy \cup {"err"},
         Running(w), writer' = [writer EXCEPT ![w].pc = p],
         UNCHANGED <<dir, life, next, acks, damage>>,
         p # "sync", writer[w].pc # "commit",
         damage = 0 /\ acks >= 1 /\ p \in {"quarantine", "commit"} /\ writer[w].rivals = {} =>
           p # "quarantine" /\ Holds("backup")
  PROVE  Generations'
<1> USE DEF Generations
<1>1. DamagedTypes'
  BY DEF DamagedTypes, Running, Writer, Busy, life
<1>2. PassedOver' /\ (Committing => Committing')
  BY DEF PassedOver, Holds, Committing, life, DamagedTypes
<1>3. TwoGenerations'
  BY <1>2 DEF TwoGenerations, Holds
<1>4. AloneSoFar'
  BY DEF AloneSoFar, Holds, DamagedTypes, Running, Busy
<1> QED BY <1>1, <1>2, <1>3, <1>4

(* With one acknowledged save and no damage, a save that is alone finds a  *)
(* primary until it rotates it.                                            *)
LEMMA AloneFindsPrimary ==
  ASSUME Generations, damage = 0, acks >= 1, NEW w \in Writer, Running(w),
         writer[w].rivals = {}, writer[w].pc # "commit"
  PROVE  Holds("primary")
<1>1. ~ Committing
  BY Alone DEF Committing, Running, Busy, Generations
<1> QED BY <1>1 DEF Generations, TwoGenerations

(* The steps of a save that rename nothing. *)
LEMMA QuietKeep ==
  ASSUME Generations, NEW w \in Writer,
         \/ WriteTemp(w) \/ FlushTemp(w) \/ CheckPrimary(w)
         \/ Rotate(w) /\ dir["primary"] = Absent
  PROVE  Generations'
<1>1. CASE WriteTemp(w)
  <2>1. /\ writer[w].pc = "write" /\ writer' = [writer EXCEPT ![w].pc = "flush"]
        /\ UNCHANGED <<dir, life, next, acks, damage>>
    BY <1>1 DEF WriteTemp, Goto, ghosts
  <2> QED BY <2>1, QuietSaves, Zenon DEF Running, Busy
<1>2. CASE FlushTemp(w)
  <2>1. /\ writer[w].pc = "flush" /\ writer' = [writer EXCEPT ![w].pc = "check"]
        /\ UNCHANGED <<dir, life, next, acks, damage>>
    BY <1>2 DEF FlushTemp, Goto, ghosts
  <2> QED BY <2>1, QuietSaves, Zenon DEF Running, Busy
<1>3. CASE CheckPrimary(w)
  <2>1. PICK p \in {"commit", "quarantine", "rotate"} :
          /\ writer' = [writer EXCEPT ![w].pc = p]
          /\ p # "rotate" => dir["primary"] \in {Absent, Unsafe}
    <3>1. CASE dir["primary"] = Absent
      BY <1>3, <3>1, StoreAssumption, Zenon DEF CheckPrimary, Goto
    <3>2. CASE dir["primary"] = Unsafe
      BY <1>3, <3>2, StoreAssumption DEF CheckPrimary, Goto
    <3>3. CASE dir["primary"] \notin {Absent, Unsafe}
      BY <1>3, <3>3, Zenon DEF CheckPrimary, Goto
    <3> QED BY <3>1, <3>2, <3>3
  <2>2. writer[w].pc = "check" /\ UNCHANGED <<dir, life, next, acks, damage>>
    BY <1>3 DEF CheckPrimary, ghosts, disk
  <2>3. damage = 0 /\ acks >= 1 /\ writer[w].rivals = {} => p = "rotate"
    BY <2>1, <2>2, AloneFindsPrimary, DocsApart DEF Running, Busy, Holds
  <2> QED BY <2>1, <2>2, <2>3, QuietSaves, Zenon DEF Running, Busy
<1>4. CASE Rotate(w) /\ dir["primary"] = Absent
  <2>1. /\ writer[w].pc = "rotate" /\ writer' = [writer EXCEPT ![w].pc = "err"]
        /\ UNCHANGED <<dir, life, next, acks, damage>>
    BY <1>4 DEF Rotate, Goto, ghosts
  <2> QED BY <2>1, QuietSaves, Zenon DEF Running, Busy
<1> QED BY <1>1, <1>2, <1>3, <1>4

(* A rename that takes the primary away, its save now committing. *)
LEMMA PrimaryLeaves ==
  ASSUME Generations, NEW w \in Writer, Running(w), writer[w].pc \in {"rotate", "quarantine"},
         writer' = [writer EXCEPT ![w].pc = "commit"],
         UNCHANGED <<life, next, acks, damage>>,
         dir' \in [File -> Content], ~ Holds("primary")',
         Holds("backup")' => Holds("backup") \/ Holds("primary"),
         damage = 0 /\ Holds("backup") => Holds("backup")',
         damage = 0 /\ acks >= 1 /\ writer[w].rivals = {} => Holds("backup")'
  PROVE  Generations'
<1> USE DEF Generations
<1>1. DamagedTypes' /\ Committing'
  BY DEF DamagedTypes, Running, Writer, Busy, life, Committing
<1>2. PassedOver'
  BY DEF PassedOver, DamagedTypes, Running, Writer, life
<1>3. TwoGenerations'
  BY <1>1 DEF TwoGenerations
<1>4. AloneSoFar'
  <2> SUFFICES ASSUME NEW x \in Writer, Running(x)', writer'[x].rivals = {}
               PROVE  /\ writer'[x].pc = "sync" => Holds("primary")'
                      /\ damage' = 0 /\ acks' >= 1 /\ writer'[x].pc \in {"quarantine", "commit", "sync"} =>
                           writer'[x].pc # "quarantine" /\ Holds("backup")'
    BY DEF AloneSoFar
  <2>1. Running(x) /\ writer[x].rivals = {}
    BY DEF DamagedTypes, Running, Busy
  <2>2. x = w
    BY <2>1, Alone
  <2> QED BY <2>1, <2>2 DEF DamagedTypes
<1> QED BY <1>1, <1>2, <1>3, <1>4

(* rename(primary, backup): the backup takes over what the primary held. *)
LEMMA RotateKeeps ==
  ASSUME IInv, Generations, NEW w \in Writer, Rotate(w), dir["primary"] # Absent
  PROVE  Generations'
<1>1. /\ writer[w].pc = "rotate" /\ Running(w) /\ writer' = [writer EXCEPT ![w].pc = "commit"]
      /\ dir' = [dir EXCEPT !["primary"] = Absent, !["backup"] = dir["primary"]]
      /\ UNCHANGED <<life, next, acks, damage>>
  BY DEF Rotate, Rename, Goto, Running, Busy, ghosts
<1>2. dir \in [File -> Content] /\ Absent \in Content
  BY DEF Generations, DamagedTypes, Content
<1>3. /\ dir' \in [File -> Content]
      /\ dir'["primary"] = Absent /\ dir'["backup"] = dir["primary"]
  BY <1>1, <1>2 DEF File
<1>4. ~ Holds("primary")' /\ (Holds("backup")' <=> Holds("primary"))
  BY <1>3, DocsApart DEF Holds
<1>5. damage = 0 => Holds("primary")
  BY DEF IInv, Core, Types, Holds, File
<1> QED BY <1>1, <1>3, <1>4, <1>5, PrimaryLeaves, Zenon

(* quarantine(primary): a primary that could not be read is set aside. *)
LEMMA QuarantineKeeps ==
  ASSUME Generations, NEW w \in Writer, QuarantinePrimary(w)
  PROVE  Generations'
<1>1. /\ writer[w].pc = "quarantine" /\ Running(w)
      /\ writer' = [writer EXCEPT ![w].pc = "commit"]
      /\ dir' = [dir EXCEPT !["primary"] = Absent]
      /\ UNCHANGED <<life, next, acks, damage>>
  BY DEF QuarantinePrimary, Goto, Running, Busy, ghosts
<1>2. dir \in [File -> Content] /\ Absent \in Content
  BY DEF Generations, DamagedTypes, Content
<1>3. /\ dir' \in [File -> Content]
      /\ dir'["primary"] = Absent /\ dir'["backup"] = dir["backup"]
  BY <1>1, <1>2 DEF File
<1>4. ~ Holds("primary")' /\ (Holds("backup")' <=> Holds("backup"))
  BY <1>3, DocsApart DEF Holds
<1>5. ~ (damage = 0 /\ acks >= 1 /\ writer[w].rivals = {})
  BY <1>1 DEF Generations, AloneSoFar
<1> QED BY <1>1, <1>3, <1>4, <1>5, PrimaryLeaves, Zenon

(* rename(temp, primary). *)
LEMMA CommitKeeps ==
  ASSUME Generations, NEW w \in Writer, CommitTemp(w)
  PROVE  Generations'
<1>1. /\ writer[w].pc = "commit" /\ Running(w) /\ writer' = [writer EXCEPT ![w].pc = "sync"]
      /\ dir' = [dir EXCEPT !["primary"] = writer[w].doc]
      /\ UNCHANGED <<life, next, acks, damage>>
  BY DEF CommitTemp, Rename, Goto, Running, Busy, ghosts
<1>2. writer[w].doc \in Doc /\ dir \in [File -> Content]
  BY <1>1 DEF Generations, DamagedTypes
<1>3. dir' \in [File -> Content] /\ Holds("primary")' /\ (Holds("backup")' <=> Holds("backup"))
  BY <1>1, <1>2 DEF File, Content, Holds
<1>4. DamagedTypes'
  BY <1>1, <1>3 DEF Generations, DamagedTypes, Running, Writer, Busy, life
<1>5. PassedOver'
  BY <1>1 DEF Generations, PassedOver, DamagedTypes, Running, Writer, life
<1>6. TwoGenerations'
  BY <1>1, <1>3 DEF Generations, TwoGenerations
<1>7. AloneSoFar'
  <2> SUFFICES ASSUME NEW x \in Writer, Running(x)', writer'[x].rivals = {},
                      damage' = 0, acks' >= 1, writer'[x].pc \in {"quarantine", "commit", "sync"}
               PROVE  writer'[x].pc # "quarantine" /\ Holds("backup")'
    BY <1>3, Zenon DEF AloneSoFar
  <2>1. Running(x) /\ writer[x].rivals = {}
    BY <1>1 DEF Generations, DamagedTypes, Running, Busy
  <2>2. x = w
    BY <1>1, <2>1, Alone DEF Generations
  <2> QED BY <1>1, <1>3, <2>1, <2>2 DEF Generations, DamagedTypes, AloneSoFar
<1> QED BY <1>4, <1>5, <1>6, <1>7, Zenon DEF Generations

(* The save is acknowledged. *)
LEMMA SyncKeeps ==
  ASSUME Generations, NEW w \in Writer, SyncDirectory(w)
  PROVE  Generations'
<1>1. /\ writer[w].pc = "sync" /\ Running(w) /\ writer' = [writer EXCEPT ![w].pc = "ok"]
      /\ acks' = IF acks = 2 \/ writer[w].rivals # {} THEN acks ELSE acks + 1
      /\ UNCHANGED <<dir, life, next, damage>>
  BY DEF SyncDirectory, Acknowledged, Goto, Running, Busy
<1>2. acks \in 0..2 /\ acks' \in 0..2
  BY <1>1 DEF Generations, DamagedTypes
<1>3. DamagedTypes'
  BY <1>1, <1>2 DEF Generations, DamagedTypes, Running, Writer, Busy, life
<1>4. PassedOver'
  BY <1>1 DEF Generations, PassedOver, Holds, life
<1>5. CASE acks' = acks
  <2>1. Committing => Committing'
    BY <1>1 DEF Committing, Generations, DamagedTypes
  <2>2. TwoGenerations'
    BY <1>1, <1>5, <2>1 DEF Generations, TwoGenerations, Holds
  <2>3. AloneSoFar'
    BY <1>1, <1>5 DEF Generations, AloneSoFar, Holds, DamagedTypes, Running, Busy
  <2> QED BY <1>3, <1>4, <2>2, <2>3 DEF Generations
<1>6. CASE acks' # acks
  <2>1. acks' = acks + 1 /\ writer[w].rivals = {}
    BY <1>1, <1>2, <1>6
  <2>2. Holds("primary")' /\ (damage = 0 /\ acks >= 1 => Holds("backup")')
    BY <1>1, <2>1 DEF Generations, AloneSoFar, Holds
  <2>3. TwoGenerations'
    BY <1>1, <1>2, <2>1, <2>2 DEF TwoGenerations
  <2>4. \A x \in Writer : ~ Running(x)'
    BY <1>1, <2>1, Alone DEF Generations, DamagedTypes, Running, Busy
  <2> QED BY <1>3, <1>4, <2>3, <2>4 DEF Generations, AloneSoFar
<1> QED BY <1>5, <1>6

(* A save begins: it and a running one know of each other. *)
LEMMA BeginsKeep ==
  ASSUME Generations, Persist \/ FinalSave \/ (ReadDocument /\ reading \notin {"primary", "backup"})
  PROVE  Generations'
<1>1. PICK w \in Writer, o \in Writer, d \in Doc :
        /\ o # w /\ BeginSave(w, d) /\ next' \in Nat \ {0}
        /\ daemon' = "loading" => w = "main" /\ reading' = "migrating"
        /\ daemon' \in {"down", "loading", "exited"} => ~ Running("handler") /\ w = "main"
        /\ daemon' \in {"down", "running", "stopping", "exited"} => ~ Running("main") /\ w = "handler"
  <2>1. CASE Persist
    <3>1. next \in Doc /\ next' \in Nat \ {0} /\ daemon' = "running" /\ ~ Running("main")
      BY <2>1, StoreAssumption DEF Persist, Generations, DamagedTypes, Doc, LegacyBackup, life
    <3> QED BY <2>1, <3>1 DEF Persist, Writer
  <2>2. CASE FinalSave
    <3>1. next \in Doc /\ next' \in Nat \ {0} /\ daemon' = "final"
      BY <2>2, StoreAssumption DEF FinalSave, Generations, DamagedTypes, Doc, LegacyBackup
    <3> QED BY <2>2, <3>1 DEF FinalSave, Writer
  <2>3. CASE ReadDocument /\ reading \notin {"primary", "backup"}
    <3>1. /\ dir[reading] \in Doc /\ next' \in Nat \ {0} /\ daemon' = "loading"
          /\ reading' = "migrating" /\ ~ Running("handler") /\ BeginSave("main", dir[reading])
      BY <2>3 DEF ReadDocument, Generations, DamagedTypes
    <3> QED BY <3>1 DEF Writer
  <2> QED BY <2>1, <2>2, <2>3
<1>2. /\ writer[w].pc = "idle" /\ ~ Running(w) /\ writer \in [Writer -> [pc : Busy \cup {"idle", "ok", "err"},
           doc : Doc \cup {Empty}, rivals : SUBSET Doc]]
      /\ UNCHANGED <<dir, acks, damage>>
  BY <1>1 DEF BeginSave, Running, Busy, Generations, DamagedTypes, disk
<1>3. Writer = {w, o} /\ (Running(o) => writer[o].doc \in Doc)
  BY <1>1 DEF Writer, Generations, DamagedTypes
<1>4. InFlight \subseteq Doc /\ (Running(o) => InFlight # {})
  BY <1>2, <1>3 DEF InFlight, Running
<1>5. writer'[w] = [pc |-> "write", doc |-> d, rivals |-> InFlight]
  BY <1>1 DEF BeginSave
<1>6. /\ writer'[o].pc = writer[o].pc /\ writer'[o].doc = writer[o].doc
      /\ writer[o].rivals \subseteq writer'[o].rivals
      /\ Running(o) => writer'[o].rivals # {}
      /\ writer'[o].rivals \subseteq Doc
  <2>1. writer'[o] = [writer[o] EXCEPT !.rivals = IF Running(o) THEN @ \cup {d} ELSE @]
    BY <1>1 DEF BeginSave, Running
  <2> QED BY <1>2, <2>1
<1>7. writer' \in [Writer -> [pc : Busy \cup {"idle", "ok", "err"}, doc : Doc \cup {Empty},
                              rivals : SUBSET Doc]]
  <2>1. writer' = [x \in Writer |-> writer'[x]]
    BY <1>1 DEF BeginSave
  <2>2. writer'[o] = [pc |-> writer'[o].pc, doc |-> writer'[o].doc, rivals |-> writer'[o].rivals]
    BY <1>1, <1>2, Zenon DEF BeginSave
  <2> QED BY <1>2, <1>3, <1>4, <1>5, <1>6, <2>1, <2>2 DEF Busy
<1>8. (Running(w)' /\ ~ Running(w)) /\ (Running(o)' <=> Running(o))
  BY <1>2, <1>5, <1>6 DEF Running, Busy
<1>9. DamagedTypes'
  <2>1. dir' \in [File -> Content] /\ next' \in Nat \ {0} /\ acks' \in 0..2
    BY <1>1, <1>2 DEF Generations, DamagedTypes
  <2>2. daemon' = "loading" => reading' = "migrating"
    BY <1>1
  <2>3. /\ daemon' \in {"down", "loading", "exited"} => ~ Running("handler")'
        /\ daemon' \in {"down", "running", "stopping", "exited"} => ~ Running("main")'
    BY <1>1, <1>3, <1>8 DEF Writer
  <2>4. \A x \in Writer : Running(x)' => writer'[x].doc \in Doc
    BY <1>3, <1>5, <1>6, <1>8
  <2>5. Running("handler")' /\ Running("main")' => \A x \in Writer : writer'[x].rivals # {}
    BY <1>3, <1>4, <1>5, <1>6, <1>8 DEF Writer
  <2> QED BY <1>7, <2>1, <2>2, <2>3, <2>4, <2>5, Zenon DEF DamagedTypes
<1>10. PassedOver' /\ (Committing => Committing')
  BY <1>1, <1>2, <1>3, <1>6 DEF PassedOver, Committing
<1>11. TwoGenerations'
  BY <1>2, <1>10 DEF Generations, TwoGenerations, Holds
<1>12. AloneSoFar'
  <2>1. writer'[w].pc \notin {"quarantine", "commit", "sync"}
    BY <1>5
  <2>2. Running(o) => writer'[o].rivals # {}
    BY <1>6
  <2> QED BY <1>3, <1>8, <2>1, <2>2 DEF AloneSoFar
<1> QED BY <1>9, <1>10, <1>11, <1>12, Zenon DEF Generations

(* A step that neither renames nor begins a save: writers only stop.       *)
LEMMA EndsKeep ==
  ASSUME Generations, UNCHANGED <<dir, acks, next>>, damage' >= damage, damage \in Nat, damage' \in Nat,
         writer' \in [Writer -> [pc : Busy \cup {"idle", "ok", "err"}, doc : Doc \cup {Empty},
                                 rivals : SUBSET Doc]],
         \A w \in Writer : /\ Running(w)' <=> Running(w)
                           /\ Running(w) => writer'[w] = writer[w],
         daemon' = "loading" => reading' \in File \cup {"migrating"},
         daemon' \in {"down", "loading", "exited"} => ~ Running("handler"),
         daemon' \in {"down", "running", "stopping", "exited"} => ~ Running("main"),
         daemon' = "loading" /\ Running("main") => reading' = "migrating",
         PassedOver'
  PROVE  Generations'
<1>1. DamagedTypes'
  BY DEF Generations, DamagedTypes, Writer
<1>2. Committing => Committing'
  BY DEF Committing, Running, Busy
<1>3. TwoGenerations'
  BY <1>2 DEF Generations, TwoGenerations, Holds
<1>4. AloneSoFar'
  BY DEF Generations, AloneSoFar, Holds
<1> QED BY <1>1, <1>3, <1>4, Zenon DEF Generations

(* The steps of load and of the daemon's life that rename nothing. *)
LEMMA CalmKeep ==
  ASSUME Generations, damage \in Nat,
         \/ Start \/ (ReadDocument /\ reading \in {"primary", "backup"}) \/ ReadAbsent \/ LoadFails
         \/ Migrated \/ Reply \/ Terminate \/ Exit
  PROVE  Generations'
<1>1. UNCHANGED <<dir, acks, next>> /\ damage' >= damage /\ damage' \in Nat
  BY DEF Start, ReadDocument, ReadAbsent, LoadFails, Damaging, Migrated, Reply, Terminate, Exit,
    disk, ghosts
<1>2. /\ writer' \in [Writer -> [pc : Busy \cup {"idle", "ok", "err"}, doc : Doc \cup {Empty},
                                 rivals : SUBSET Doc]]
      /\ \A w \in Writer : (Running(w)' <=> Running(w)) /\ (Running(w) => writer'[w] = writer[w])
  <2>1. CASE writer' = writer
    BY <2>1 DEF Generations, DamagedTypes, Running
  <2>2. NoSave \in [pc : Busy \cup {"idle", "ok", "err"}, doc : Doc \cup {Empty}, rivals : SUBSET Doc]
        /\ NoSave.pc \notin Busy
    BY DEF NoSave, Busy
  <2>3. CASE Migrated \/ Reply
    <3>1. PICK w \in Writer : writer' = [writer EXCEPT ![w] = NoSave] /\ writer[w].pc \in {"ok", "err"}
      BY <2>3 DEF Migrated, Reply, Writer
    <3> QED BY <2>2, <3>1 DEF Generations, DamagedTypes, Running, Busy
  <2>4. CASE Exit
    BY <2>2, <2>4 DEF Exit, Running
  <2> QED BY <2>1, <2>3, <2>4 DEF Start, ReadDocument, ReadAbsent, LoadFails, Terminate
<1>3. CASE Start
  <2>1. daemon \in {"down", "exited"} /\ daemon' = "loading" /\ reading' = "primary"
    BY <1>3 DEF Start
  <2>2. PassedOver'
    BY <2>1 DEF PassedOver
  <2>3. ~ Running("handler") /\ ~ Running("main")
    BY <2>1 DEF Generations, DamagedTypes
  <2> QED BY <1>1, <1>2, <2>1, <2>2, <2>3, EndsKeep DEF File
<1>4. CASE ReadAbsent /\ reading # "legacy_backup"
  <2>1. /\ daemon = "loading" /\ daemon' = "loading" /\ reading \in File
        /\ reading' = NextFile[reading] /\ dir[reading] = Absent /\ reading # "migrating"
    BY <1>4 DEF ReadAbsent, Skip, NextFile, Generations, DamagedTypes, File
  <2>2. reading' \in File
    BY <1>4, <2>1 DEF NextFile, File
  <2>3. PassedOver'
    BY <1>1, <1>4, <2>1, DocsApart DEF Generations, PassedOver, Holds, NextFile, File
  <2>4. ~ Running("handler") /\ ~ Running("main")
    BY <2>1 DEF Generations, DamagedTypes
  <2> QED BY <1>1, <1>2, <2>1, <2>2, <2>3, <2>4, EndsKeep
<1>5. ASSUME daemon = "loading", daemon' = "running",
             reading # "migrating" \/ writer["main"].pc \in {"ok", "err"}
      PROVE  Generations'
  <2>1. PassedOver'
    BY <1>5 DEF PassedOver
  <2>2. ~ Running("handler") /\ ~ Running("main")
    BY <1>5 DEF Generations, DamagedTypes, Running, Busy
  <2> QED BY <1>1, <1>2, <1>5, <2>1, <2>2, EndsKeep
<1>6. CASE (ReadDocument /\ reading \in {"primary", "backup"}) \/ LoadFails \/ Migrated
             \/ (ReadAbsent /\ reading = "legacy_backup")
  <2>1. daemon = "loading" /\ daemon' = "running"
        /\ (reading # "migrating" \/ writer["main"].pc \in {"ok", "err"})
    <3>1. CASE ReadDocument /\ reading \in {"primary", "backup"}
      BY <3>1 DEF ReadDocument, Serve
    <3>2. CASE LoadFails
      BY <3>2 DEF LoadFails, Serve
    <3>3. CASE Migrated
      BY <3>3 DEF Migrated, Serve
    <3>4. CASE ReadAbsent /\ reading = "legacy_backup"
      <4>1. NextFile[reading] = "none"
        BY <3>4 DEF NextFile
      <4> QED BY <3>4, <4>1 DEF ReadAbsent, Skip, Serve
    <3> QED BY <1>6, <3>1, <3>2, <3>3, <3>4
  <2> QED BY <1>5, <2>1
<1>7. CASE Reply \/ Terminate
  <2>1. daemon = "running" /\ daemon' \in {"running", "stopping"}
    BY <1>7 DEF Reply, Terminate
  <2>2. PassedOver' /\ ~ Running("main")
    BY <2>1 DEF PassedOver, Generations, DamagedTypes
  <2> QED BY <1>1, <1>2, <2>1, <2>2, EndsKeep
<1>8. CASE Exit
  <2>1. daemon' \in {"exited", "down"} /\ ~ Running("handler") /\ ~ Running("main")
    BY <1>8 DEF Exit, Running, Writer
  <2>2. PassedOver'
    BY <2>1 DEF PassedOver
  <2> QED BY <1>1, <1>2, <2>1, <2>2, EndsKeep, Zenon
<1> QED BY <1>3, <1>4, <1>6, <1>7, <1>8

(* A file is lost while nothing is written: with two generations the other *)
(* is left, with one damage already counted it held no document.           *)
LEMMA LossKeeps ==
  ASSUME Generations, NEW f \in File, NEW c \in {Absent, Invalid, Unsafe},
         dir' = [dir EXCEPT ![f] = c], UNCHANGED <<writer, acks, next>>,
         damage \in Nat, dir[f] \in Doc => damage' = damage + 1,
         dir[f] \notin Doc => damage' = damage,
         \A w \in Writer : ~ Running(w),
         daemon' = "loading" => reading' \in File \cup {"migrating"}, PassedOver'
  PROVE  Generations'
<1>1. /\ dir' \in [File -> Content]
      /\ \A g \in {"primary", "backup"} : Holds(g)' <=> Holds(g) /\ g # f
  BY StoreAssumption, DocsApart DEF Generations, DamagedTypes, Content, Holds, File
<1>2. \A w \in Writer : ~ Running(w)'
  BY DEF Running
<1>3. DamagedTypes'
  BY <1>1, <1>2 DEF Generations, DamagedTypes, Writer
<1>4. ~ Committing
  BY DEF Committing, Running, Busy
<1>5. TwoGenerations'
  <2>1. CASE dir[f] \in Doc
    BY <1>1, <1>4, <2>1 DEF Generations, TwoGenerations
  <2>2. CASE dir[f] \notin Doc
    BY <1>1, <1>4, <2>2 DEF Generations, TwoGenerations, Holds
  <2> QED BY <2>1, <2>2
<1> QED BY <1>2, <1>3, <1>5 DEF Generations, AloneSoFar

(* load moves a file aside, or a file is damaged from outside. *)
LEMMA LossesKeep ==
  ASSUME Generations, damage \in Nat, ReadInvalid \/ ReadError \/ \E f \in File : Damage(f)
  PROVE  Generations'
<1>1. CASE ReadInvalid \/ ReadError
  <2>1. /\ daemon = "loading" /\ reading # "migrating" /\ reading \in File
        /\ dir' = [dir EXCEPT ![reading] = Absent] /\ UNCHANGED <<writer, acks, next>>
        /\ IF reading = "backup" THEN Serve(Empty) ELSE Skip
    BY <1>1 DEF ReadInvalid, ReadError, QuarantineAndGoOn, Generations, DamagedTypes
  <2>2. /\ dir[reading] \in Doc => damage' = damage + 1
        /\ dir[reading] \notin Doc => damage' = damage
    BY <1>1, StoreAssumption, DocsApart DEF ReadInvalid, ReadError, Damaging
  <2>3. \A w \in Writer : ~ Running(w)
    BY <2>1 DEF Generations, DamagedTypes, Writer
  <2>4. dir \in [File -> Content] /\ (daemon' = "loading" => reading' = NextFile[reading] /\ reading' \in File)
    BY <2>1 DEF Generations, DamagedTypes, Serve, Skip, NextFile, File
  <2>5. PassedOver'
    BY <2>1, <2>4, DocsApart DEF Generations, PassedOver, Holds, NextFile, File
  <2> QED BY <2>1, <2>2, <2>3, <2>4, <2>5, LossKeeps, Zenon
<1>2. ASSUME NEW f \in File, Damage(f) PROVE Generations'
  <2>1. PICK c \in {Invalid, Unsafe} : dir' = [dir EXCEPT ![f] = c]
    BY <1>2, Zenon DEF Damage
  <2>2. /\ UNCHANGED <<writer, life, acks, next>> /\ dir[f] \in Doc /\ damage' = damage + 1
        /\ \A w \in Writer : ~ Running(w)
    BY <1>2 DEF Damage, Damaging, Running
  <2>3. daemon' = "loading" => reading' \in File \cup {"migrating"}
    BY <2>2 DEF Generations, DamagedTypes, life
  <2>4. PassedOver'
    BY <2>1, <2>2, StoreAssumption, DocsApart DEF Generations, DamagedTypes, PassedOver, Holds, life, File
  <2> QED BY <2>1, <2>2, <2>3, <2>4, LossKeeps, Zenon
<1> QED BY <1>1, <1>2

(* Every step keeps the two generations, until one fails. *)
LEMMA GenerationsKept == IInv /\ GInv /\ [Next]_vars => GInv'
<1> SUFFICES ASSUME IInv, GInv, [Next]_vars PROVE GInv'
  OBVIOUS
<1>1. CASE UNCHANGED vars
  BY <1>1, Zenon DEF vars, GInv, Generations, DamagedTypes, PassedOver, TwoGenerations, AloneSoFar,
    Holds, Committing, Running
<1>2. CASE Next
  <2>1. failures' \in BOOLEAN /\ (~ failures' => ~ failures)
    <3>1. failures' = failures \/ failures' = TRUE
      BY <1>2, Zenon DEF Next, SaveStep, WriteTemp, FlushTemp, CheckPrimary, Rotate, QuarantinePrimary,
        CommitTemp, SyncDirectory, Acknowledged, FailSave, Start, ReadDocument, BeginSave, ReadAbsent,
        ReadInvalid, ReadError, QuarantineAndGoOn, LoadFails, Migrated, Persist, Reply, Terminate,
        FinalSave, Exit, Kill, PowerLoss, Damage, ghosts
    <3> QED BY <3>1, Zenon DEF GInv
  <2>2. ASSUME ~ failures' PROVE Generations'
    <3>1. Generations /\ damage \in Nat
      BY <2>1, <2>2 DEF GInv, IInv
    <3>2. ASSUME NEW w \in Writer, SaveStep(w) PROVE Generations'
      <4>1. ~ FailSave(w)
        BY <2>2 DEF FailSave
      <4> QED BY <3>1, <3>2, <4>1, QuietKeep, RotateKeeps, QuarantineKeeps, CommitKeeps, SyncKeeps
              DEF SaveStep
    <3>3. ~ Kill /\ ~ PowerLoss
      BY <2>2 DEF Kill, PowerLoss
    <3> QED BY <1>2, <3>1, <3>2, <3>3, BeginsKeep, CalmKeep, LossesKeep, Zenon DEF Next
  <2> QED BY <2>1, <2>2 DEF GInv
<1> QED BY <1>1, <1>2

(* The "atomic previous-generation backup", for any number of documents    *)
(* and damages: once two saves that met no other were acknowledged, one    *)
(* damaged file or failed read leaves a document to start from.            *)
THEOREM PreviousGenerationKept == Spec => []PreviousGenerationSurvives
<1>1. Init => GInv
  <2> SUFFICES ASSUME Init PROVE failures \in BOOLEAN /\ Generations
    BY DEF GInv
  <2>1. \A w \in Writer : ~ Running(w)
    BY DEF Init, NoSave, Running, Busy
  <2>2. DamagedTypes
    <3>1. dir \in [File -> Content] /\ next \in Nat \ {0} /\ acks \in 0..2 /\ daemon = "down"
      BY DEF Init
    <3>2. NoSave \in [pc : Busy \cup {"idle", "ok", "err"}, doc : Doc \cup {Empty}, rivals : SUBSET Doc]
      BY Zenon DEF NoSave
    <3>3. writer \in [Writer -> [pc : Busy \cup {"idle", "ok", "err"}, doc : Doc \cup {Empty},
                                 rivals : SUBSET Doc]]
      BY <3>2 DEF Init
    <3> QED BY <2>1, <3>1, <3>3, Zenon DEF DamagedTypes, Writer
  <2>3. PassedOver /\ TwoGenerations /\ AloneSoFar
    <3>1. daemon = "down" /\ acks = 0
      BY DEF Init
    <3>2. ~ (acks >= 1) /\ acks # 2
      BY <3>1
    <3>3. TwoGenerations
      BY <3>2, Zenon DEF TwoGenerations
    <3>4. PassedOver /\ AloneSoFar
      BY <2>1, <3>1, Zenon DEF PassedOver, AloneSoFar
    <3> QED BY <3>3, <3>4
  <2> QED BY <2>2, <2>3, Zenon DEF Init, Generations
<1>2. GInv => PreviousGenerationSurvives
  <2> SUFFICES ASSUME Generations, acks = 2, damage <= 1, InFlight = {} PROVE Recovered(dir) # Empty
    BY DEF GInv, PreviousGenerationSurvives
  <2>1. ~ Committing
    BY DEF Committing, InFlight, Busy
  <2>2. Holds("primary") \/ Holds("backup")
    BY <2>1 DEF Generations, TwoGenerations
  <2> QED BY <2>2, DocsApart, Zenon DEF Holds, Recovered
<1> QED BY <1>1, <1>2, StoreIsSound, GenerationsKept, PTL DEF Spec

================================================================================

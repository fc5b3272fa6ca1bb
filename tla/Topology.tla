------------------------------- MODULE Topology -------------------------------
(***************************************************************************)
(* The daemon's catalog of Lairs, Dojos and Splints (splinterm-core        *)
(* model.rs), the document it is saved as (core persistence.rs), and the   *)
(* requests that edit it (main.rs).  Clients send the revision they have   *)
(* seen; one topology transaction runs at a time, so a request is a step.  *)
(*                                                                         *)
(* A Dojo's layout is the order of its leaves: LayoutTree shows that the   *)
(* tree operations of the code keep it.  Ratios and titles are left out;   *)
(* changing one is still a change of the topology.                         *)
(***************************************************************************)
EXTENDS Naturals, FiniteSets, Sequences, SequencesExt

CONSTANTS Lair, Dojo, Splint,  \* identities
          Name,                \* names as the document accepts them
          Client,              \* the clients that are followed
          MaxLairs,            \* MAX_PERSISTENT_LAIRS
          MaxDojos,            \* MAX_DOJOS_PER_LAIR
          MaxSplints,          \* MAX_SPLINTS
          MaxCommits           \* bounds the model: committed changes

ASSUME TopologyAssumption ==
  /\ MaxLairs \in Nat \ {0} /\ MaxDojos \in Nat /\ MaxSplints \in Nat /\ MaxCommits \in Nat

VARIABLES revision,   \* the TopologyRevision
          lairs,      \* identity -> Lair, for the Lairs there are
          exited,     \* the Splints whose process has exited
          saved,      \* the document on disk
          plain,      \* Dojos made with a plain shell and not organized since
          generated,  \* Lairs whose name Splinterm generated
          met,        \* the clients that have looked at this daemon's topology
          seen,       \* the revision each client last saw, with its version
          version,    \* ghost: identifies the contents of the topology
          fresh       \* ghost: the next version

vars == <<revision, lairs, exited, saved, plain, generated, met, seen, version, fresh>>

(* What a client may send as a name: a good one, or one with blanks        *)
(* around it, which trimming makes good.                                   *)
Padded(n) == <<n>>
RawName == Name \cup {Padded(n) : n \in Name}
Trim(n) == IF n \in Name THEN n ELSE n[1]

NewLair(name, lifetime, dojos) ==
  [name |-> name, lifetime |-> lifetime, retention |-> "disposable", dojos |-> dojos]

(* Dojo::with_shell: one leaf, which has the focus. *)
ShellDojo(d, s) == [id |-> d, focus |-> s, leaves |-> <<s>>]

DojosOf(ls)    == UNION {ToSet(ls[l].dojos) : l \in DOMAIN ls}
DojoIds(ls)    == {d.id : d \in DojosOf(ls)}
SplintIds(ls)  == UNION {ToSet(d.leaves) : d \in DojosOf(ls)}
Persistent(ls) == {l \in DOMAIN ls : ls[l].lifetime = "persistent"}

Put(ls, l, lair) == [x \in DOMAIN ls \cup {l} |-> IF x = l THEN lair ELSE ls[x]]
Without(ls, l)   == [x \in DOMAIN ls \ {l} |-> ls[x]]

(* The Lair and the position of a Dojo, and the Dojo of a Splint. *)
PlaceOf(d) == CHOOSE p \in {<<l, i>> : l \in DOMAIN lairs, i \in 1 .. Cardinality(Dojo)} :
                p[2] \in DOMAIN lairs[p[1]].dojos /\ lairs[p[1]].dojos[p[2]].id = d
DojoWith(s) == (CHOOSE d \in DojosOf(lairs) : s \in ToSet(d.leaves)).id
DojoAt(p)   == lairs[p[1]].dojos[p[2]]
SetDojo(p, dojo) == [lairs EXCEPT ![p[1]].dojos[p[2]] = dojo]

-----------------------------------------------------------------------------
(* The document: the persistent Lairs.  Every leaf in it is exited. *)
Recipe(ls) == [l \in Persistent(ls) |-> ls[l]]

(* No Dojo and no Splint is in two places. *)
NoDuplicateIds(ls) ==
  LET used == {p \in {<<l, i>> : l \in DOMAIN ls, i \in 1 .. Cardinality(Dojo)} :
                 p[2] \in DOMAIN ls[p[1]].dojos}
      at(p) == ls[p[1]].dojos[p[2]]
  IN  /\ \A p \in used : IsInjective(at(p).leaves)
      /\ \A p, q \in used : p # q =>
           at(p).id # at(q).id /\ ToSet(at(p).leaves) \cap ToSet(at(q).leaves) = {}

(* TopologyDocument::validate. *)
ValidDocument(ls) ==
  /\ NoDuplicateIds(ls)
  /\ Cardinality(DOMAIN ls) <= MaxLairs
  /\ Cardinality(SplintIds(ls)) <= MaxSplints
  /\ \A l \in DOMAIN ls :
       /\ ls[l].name \in Name
       /\ Len(ls[l].dojos) <= MaxDojos
       /\ \A i \in DOMAIN ls[l].dojos :
            ls[l].dojos[i].focus \in ToSet(ls[l].dojos[i].leaves)
  /\ \A l, k \in DOMAIN ls : ls[l].name = ls[k].name => l = k

(* A change of the catalog, with the revision advanced `by` times. *)
Change(ls, by) ==
  /\ fresh <= MaxCommits
  /\ lairs' = ls
  /\ revision' = revision + by
  /\ version' = fresh /\ fresh' = fresh + 1
  /\ UNCHANGED <<met, seen>>

(* durable_topology_candidate and install_topology: the candidate is       *)
(* written before it becomes the topology, or refused and nothing happens. *)
CommitBy(ls, by) ==
  /\ ValidDocument(Recipe(ls))
  /\ Change(ls, by)
  /\ saved' = [revision |-> revision', lairs |-> Recipe(ls), version |-> version']

\* Mutant: a change in memory keeps the revision.
CommitUnsavedSilently(ls) == Change(ls, 0) /\ UNCHANGED saved

(* A change in memory only, of transient Lairs. *)
CommitUnsaved(ls) == Change(ls, 1) /\ UNCHANGED saved

Commit(ls) == CommitBy(ls, 1)

(* check_revision. *)
CheckRevision(e) == e = revision

NamesOf(ls) == {ls[l].name : l \in DOMAIN ls}

(* validate_new_dojos, for Dojos of one leaf. *)
NewDojoOf(d, s) == d \notin DojoIds(lairs) /\ s \notin SplintIds(lairs)

Init ==
  /\ revision = 0 /\ lairs = <<>> /\ exited = {} /\ plain = {} /\ generated = {}
  /\ saved = [revision |-> 0, lairs |-> <<>>, version |-> 0]
  /\ seen = [c \in Client |-> [revision |-> 0, version |-> 0]]
  /\ met = Client
  /\ version = 0 /\ fresh = 1

(* What the daemon remembers of how Dojos and Lairs came about follows the *)
(* catalog: entries of what is gone go, organizing removes a Dojo.         *)
Remember(dojos, ls) ==
  /\ plain' = dojos \cap DojoIds(lairs')
  /\ generated' = ls \cap DOMAIN lairs'

(* record_plain_dojo and record_generated_lair: the client says whether it *)
(* asked for a plain shell, and whether it made up the name.               *)
RecordNew(d, ls) ==
  \E dojos \in {plain, plain \cup {d}}, more \in {{}, ls} :
    Remember(dojos, generated \cup more)

-----------------------------------------------------------------------------
(* A client receives the topology. *)
Look(c) ==
  /\ seen' = [seen EXCEPT ![c] = [revision |-> revision, version |-> version]]
  /\ met' = met \cup {c}
  /\ UNCHANGED <<revision, lairs, exited, saved, plain, generated, version, fresh>>

FullyExited(l) == \A d \in ToSet(lairs[l].dojos) : ToSet(d.leaves) \subseteq exited

(* bounded_history_retirement: nothing to retire below the limit, else a   *)
(* disposable Lair all of whose processes have exited (the code takes the  *)
(* one with the oldest process, the model any).                            *)
Retirements ==
  IF Cardinality(Persistent(lairs)) < MaxLairs THEN {{}}
  ELSE {{l} : l \in {x \in Persistent(lairs) :
                       lairs[x].retention = "disposable" /\ FullyExited(x)}}

(* insert_lair_at, or replace_lair_at when the history is full. *)
CreateLair(e, l, n, d, s) ==
  /\ CheckRevision(e)
  /\ l \notin DOMAIN lairs /\ NewDojoOf(d, s)
  /\ \E retired \in Retirements :
       LET rest == [x \in DOMAIN lairs \ retired |-> lairs[x]]
       IN  /\ n \notin NamesOf(rest)
           /\ Commit(Put(rest, l, NewLair(n, "persistent", <<ShellDojo(d, s)>>)))
  /\ exited' = exited \cap SplintIds(lairs')
  /\ RecordNew(d, {l})

(* The Lair is inserted in memory only. *)
CreateTransientLair(e, l, n, d, s) ==
  /\ CheckRevision(e)
  /\ l \notin DOMAIN lairs /\ n \notin NamesOf(lairs) /\ NewDojoOf(d, s)
  /\ CommitUnsaved(Put(lairs, l, NewLair(n, "transient", <<ShellDojo(d, s)>>)))
  /\ UNCHANGED exited
  /\ RecordNew(d, {l})

(* split_splint_at: the new leaf goes before or after its target. *)
SplitSplint(e, t, s, after) ==
  /\ CheckRevision(e)
  /\ t \in SplintIds(lairs) /\ s \notin SplintIds(lairs)
  /\ LET p    == PlaceOf(DojoWith(t))
         dojo == DojoAt(p)
         at   == (CHOOSE i \in DOMAIN dojo.leaves : dojo.leaves[i] = t) + (IF after THEN 1 ELSE 0)
     IN  Commit(SetDojo(p, [dojo EXCEPT !.leaves = InsertAt(@, at, s)]))
  /\ UNCHANGED exited
  /\ Remember(plain \ {DojoWith(t)}, generated)

(* The Dojo without a leaf that is not its last: a lost default focus goes *)
(* to the first leaf.                                                      *)
LeafRemoved(dojo, s) ==
  LET left == SelectSeq(dojo.leaves, LAMBDA x : x # s)
  IN  [dojo EXCEPT !.leaves = left, !.focus = IF @ = s THEN Head(left) ELSE @]

(* close_splint_at: only an exited leaf; the Dojo goes with its last leaf, *)
(* the Lair stays.                                                         *)
CloseSplint(e, s) ==
  /\ CheckRevision(e)
  /\ s \in SplintIds(lairs) /\ s \in exited
  /\ LET p    == PlaceOf(DojoWith(s))
         dojo == DojoAt(p)
     IN  IF Len(dojo.leaves) = 1
         THEN Commit([lairs EXCEPT ![p[1]].dojos = RemoveAt(@, p[2])])
         ELSE Commit(SetDojo(p, LeafRemoved(dojo, s)))
  /\ exited' = exited \ {s}
  /\ Remember(plain, generated)

(* set_split_ratio_at: the Splint must have a parent split. *)
SetSplitRatio(e, s) ==
  /\ CheckRevision(e)
  /\ s \in SplintIds(lairs) /\ Len(DojoAt(PlaceOf(DojoWith(s))).leaves) > 1
  /\ Commit(lairs)
  /\ UNCHANGED exited
  /\ Remember(plain, generated)

(* new_dojo_with_promotion_at. *)
NewDojo(e, l, d, s, promote) ==
  /\ CheckRevision(e)
  /\ l \in DOMAIN lairs /\ NewDojoOf(d, s)
  /\ Commit([lairs EXCEPT ![l] = [@ EXCEPT
       !.dojos = Append(@, ShellDojo(d, s)),
       !.lifetime = IF promote THEN "persistent" ELSE @]])
  /\ UNCHANGED exited
  /\ RecordNew(d, {})

(* materialize_lair_with_provenance_at. *)
MaterializeLair(e, l, n, d, s) ==
  /\ CheckRevision(e)
  /\ l \notin DOMAIN lairs /\ Trim(n) \notin NamesOf(lairs) /\ NewDojoOf(d, s)
  /\ Commit(Put(lairs, l, NewLair(Trim(n), "persistent", <<ShellDojo(d, s)>>)))
  /\ UNCHANGED exited
  /\ Remember(plain, generated)

(* normalized_name and the new name of a Lair. *)
Renamed(l, n) == [lairs EXCEPT ![l].name = Trim(n)]

\* Mutant: transient Lairs' names are not looked at.
NameIsFreeInDocument(l, n) ==
  Trim(n) \notin {lairs[k].name : k \in Persistent(lairs) \ {l}}

(* The new name may not be another Lair's. *)
NameIsFree(l, n) == Trim(n) \notin {lairs[k].name : k \in DOMAIN lairs \ {l}}

(* materialize_dojos_at; the Lair's present name stands for no renaming. *)
MaterializeDojos(e, l, n, d, s) ==
  /\ CheckRevision(e)
  /\ l \in DOMAIN lairs /\ NewDojoOf(d, s)
  /\ LET named == IF n = lairs[l].name THEN lairs ELSE Renamed(l, n)
     IN  /\ named = lairs \/ NameIsFree(l, n)
         /\ Commit([named EXCEPT ![l].dojos = Append(@, ShellDojo(d, s))])
  /\ UNCHANGED exited
  /\ Remember(plain, IF n = lairs[l].name THEN generated ELSE generated \ {l})

(* close_dojo_at: every process in the Dojo has exited. *)
CloseDojo(e, d) ==
  /\ CheckRevision(e)
  /\ d \in DojoIds(lairs)
  /\ LET p == PlaceOf(d)
     IN  /\ ToSet(DojoAt(p).leaves) \subseteq exited
         /\ Commit([lairs EXCEPT ![p[1]].dojos = RemoveAt(@, p[2])])
  /\ exited' = exited \cap SplintIds(lairs')
  /\ Remember(plain, generated)

(* CloseUnusedDojo names no revision.  A plain Dojo of one live Splint is   *)
(* removed, and then its Lair when the Dojo was its last and the Lair's    *)
(* name was generated: terminate_dojo_at advances the revision, and        *)
(* remove_lair advances it again.                                          *)
CloseUnusedDojo(d) ==
  /\ d \in plain
  /\ LET p       == PlaceOf(d)
         emptied == Len(lairs[p[1]].dojos) = 1 /\ p[1] \in generated
     IN  /\ Len(DojoAt(p).leaves) = 1
         /\ ToSet(DojoAt(p).leaves) \cap exited = {}
         /\ IF emptied
            THEN CommitBy(Without(lairs, p[1]), 2)
            ELSE Commit([lairs EXCEPT ![p[1]].dojos = RemoveAt(@, p[2])])
  /\ UNCHANGED exited
  /\ Remember(plain, generated)

(* terminate_lair_at. *)
TerminateLair(e, l) ==
  /\ CheckRevision(e)
  /\ l \in DOMAIN lairs
  /\ Commit(Without(lairs, l))
  /\ exited' = exited \cap SplintIds(lairs')
  /\ Remember(plain, generated)

(* set_lair_retention_at: not for a transient Lair.  Saved and pinned are  *)
(* both protected.                                                         *)
SetLairRetention(e, l, retention) ==
  /\ CheckRevision(e)
  /\ l \in Persistent(lairs)
  /\ Commit([lairs EXCEPT ![l].retention = retention])
  /\ UNCHANGED exited
  /\ Remember(plain, generated)

(* rename_lair_at. *)
RenameLair(e, l, n) ==
  /\ CheckRevision(e)
  /\ l \in DOMAIN lairs /\ NameIsFree(l, n)
  /\ Commit(Renamed(l, n))
  /\ UNCHANGED exited
  /\ Remember(plain, generated \ {l})

\* Mutant: a promotion is not saved.
PromotedUnsaved(l) == CommitUnsaved([lairs EXCEPT ![l].lifetime = "persistent"])

(* The candidate of a promotion. *)
Promoted(l) == Commit([lairs EXCEPT ![l].lifetime = "persistent"])

(* rename_splint_at. *)
RenameSplint(e, s) ==
  /\ CheckRevision(e)
  /\ s \in SplintIds(lairs)
  /\ Commit(lairs)
  /\ UNCHANGED exited
  /\ Remember(plain \ {DojoWith(s)}, generated)

(* rename_dojo_with_promotion_at: the name is not part of the model, the   *)
(* promotion is.                                                           *)
RenameDojo(e, d, promote) ==
  /\ CheckRevision(e)
  /\ d \in DojoIds(lairs)
  /\ IF promote THEN Promoted(PlaceOf(d)[1]) ELSE Commit(lairs)
  /\ UNCHANGED exited
  /\ Remember(plain \ {d}, generated)

(* set_dojo_default_focus_at: a leaf of the Dojo itself. *)
SetDojoDefaultFocus(e, d, s) ==
  /\ CheckRevision(e)
  /\ d \in DojoIds(lairs)
  /\ LET p == PlaceOf(d)
     IN  /\ s \in ToSet(DojoAt(p).leaves)
         /\ Commit(SetDojo(p, [DojoAt(p) EXCEPT !.focus = s]))
  /\ UNCHANGED exited
  /\ Remember(plain, generated)

(* retire_transient_lair_under_transaction: remove_lair, in memory only. *)
RetireTransient(l) ==
  /\ l \in DOMAIN lairs \ Persistent(lairs)
  /\ CommitUnsaved(Without(lairs, l))
  /\ exited' = exited \cap SplintIds(lairs')
  /\ Remember(plain, generated)

(* set_splint_state and commit_relaunch: not changes of the topology. *)
Exits(s) ==
  /\ s \in SplintIds(lairs) \ exited
  /\ exited' = exited \cup {s}
  /\ UNCHANGED <<revision, lairs, saved, plain, generated, met, seen, version, fresh>>

Relaunch(s) ==
  /\ s \in exited
  /\ exited' = exited \ {s}
  /\ plain' = plain \ {DojoWith(s)}
  /\ UNCHANGED <<revision, lairs, saved, generated, met, seen, version, fresh>>

(* The daemon is lost and a new one loads the document (into_topology);    *)
(* its contents are what was saved, transient Lairs are gone.              *)
Lose ==
  /\ lairs' = saved.lairs /\ revision' = saved.revision
  /\ exited' = SplintIds(saved.lairs)
  /\ plain' = {} /\ generated' = {}
  /\ version' = saved.version
  /\ met' = {}
  /\ UNCHANGED <<saved, seen, fresh>>

(* A request carries the revision its client expects. *)
Edit(e) ==
  \/ \E l \in Lair, n \in RawName, d \in Dojo, s \in Splint :
       \/ CreateLair(e, l, n, d, s) \/ CreateTransientLair(e, l, n, d, s)
       \/ MaterializeLair(e, l, n, d, s) \/ MaterializeDojos(e, l, n, d, s)
  \/ \E t, s \in Splint, after \in BOOLEAN : SplitSplint(e, t, s, after)
  \/ \E s \in Splint : CloseSplint(e, s) \/ SetSplitRatio(e, s) \/ RenameSplint(e, s)
  \/ \E l \in Lair, d \in Dojo, s \in Splint, promote \in BOOLEAN :
       NewDojo(e, l, d, s, promote)
  \/ \E d \in Dojo : CloseDojo(e, d) \/ \E s \in Splint : SetDojoDefaultFocus(e, d, s)
  \/ \E l \in Lair : TerminateLair(e, l) \/ \E n \in RawName : RenameLair(e, l, n)
  \/ \E l \in Lair, r \in {"disposable", "protected"} : SetLairRetention(e, l, r)
  \/ \E d \in Dojo, promote \in BOOLEAN : RenameDojo(e, d, promote)

(* What clients may send: the revision a followed client has seen, or that *)
(* of any other client, which may have just looked.                        *)
Expected == {seen[c].revision : c \in Client} \cup {revision}

Next == \/ \E c \in Client : Look(c)
        \/ \E e \in Expected : Edit(e)
        \/ \E d \in Dojo : CloseUnusedDojo(d)
        \/ \E l \in Lair : RetireTransient(l)
        \/ \E s \in Splint : Exits(s) \/ Relaunch(s)
        \/ Lose

Spec == Init /\ [][Next]_vars

-----------------------------------------------------------------------------
(* Whatever the edits, the lookups by identity (find_dojo, find_splint)    *)
(* and by name are unambiguous: a Splint is a leaf of one Dojo only, once, *)
(* a Dojo belongs to one Lair only, and no two Lairs, transient ones       *)
(* included, have the same name.  The default focus of a Dojo is one of    *)
(* its own leaves: close_splint_at moves it.                               *)
CatalogConsistent ==
  /\ NoDuplicateIds(lairs)
  /\ \A l, k \in DOMAIN lairs : lairs[l].name = lairs[k].name => l = k
  /\ \A d \in DojosOf(lairs) : d.leaves # <<>> /\ d.focus \in ToSet(d.leaves)

(* durable_topology_candidate: the document on disk always holds exactly   *)
(* the persistent Lairs of the topology in memory, and it can be loaded.   *)
DocumentIsCurrent ==
  saved.lairs = Recipe(lairs) /\ ValidDocument(saved.lairs)

(* check_revision: a client that has looked at this daemon's topology and  *)
(* holds its present revision has seen the present topology, so none of    *)
(* its edits is applied to a topology other than the one it meant.  (A     *)
(* client that looked only before the daemon was lost has no such promise: *)
(* changes of transient Lairs advance the revision in memory only, so the  *)
(* new daemon may give the same revision to another topology.)             *)
RevisionIdentifiesTopology ==
  \A c \in met : seen[c].revision = revision => seen[c].version = version
=============================================================================

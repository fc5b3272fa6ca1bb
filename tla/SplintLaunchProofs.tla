------------------------- MODULE SplintLaunchProofs -------------------------
(***************************************************************************)
(* The launch of Splints, for any identities, any connections and any      *)
(* limits.  What holds between any two steps: slots, registered processes, *)
(* leaves, leases and the document agree.  The steps of a launch keep it,  *)
(* wherever it fails or is cancelled; what ends a process or forgets a     *)
(* leaf keeps it too; and it gives the properties.                         *)
(***************************************************************************)
EXTENDS SplintLaunch, TLAPS

(* What the variables range over.                                          *)

Retention == Persistent \cup {"absent", "transient"}
Leaf == [lair : Lair, state : {"Starting", "Running", "Exited"}]
Runtime == [splint : Splint, place : {"entry", "held", "retiring", "gone", "orphan"},
            alive : BOOLEAN, watched : BOOLEAN, killed : BOOLEAN]
Lease == [owner : Connection, splint : Splint, incarnation : Process \cup {NoProcess}]
Launches == {"create_lair", "create_transient", "split", "new_dojo", "relaunch", "preset"}
Steps == {"free", "reserve", "spawn", "insert", "persist", "install", "admit", "observe", "shutdown"}

IsLeaves(lv) == DOMAIN lv \subseteq Splint /\ lv \in [DOMAIN lv -> Leaf]
IsTable(ps) == DOMAIN ps \subseteq Process /\ ps \in [DOMAIN ps -> Runtime]
IsLeases(ls) == DOMAIN ls \subseteq Lair /\ ls \in [DOMAIN ls -> Lease]

(* A document holds persistent Lairs and their leaves.                     *)
IsDocument(doc) ==
  /\ doc.lairs \in [Lair -> Persistent \cup {"absent"}]
  /\ IsLeaves(doc.leaves)
  /\ \A s \in DOMAIN doc.leaves : doc.lairs[doc.leaves[s].lair] \in Persistent

Transaction == [op : Launches \cup {"none", "retire"}, lair : Lair \cup {NoLair},
                retired : Lair \cup {NoLair}, todo : Seq(Splint), pc : Steps,
                promote : BOOLEAN, process : Process \cup {NoProcess}]

Types ==
  /\ lairs \in [Lair -> Retention] /\ IsLeaves(leaves) /\ IsDocument(saved)
  /\ IsTable(processes) /\ reserved \in Nat /\ IsLeases(leases)
  /\ connected \subseteq Connection /\ cleaning \subseteq Connection
  /\ transaction \in Transaction

(* Where a transaction may be, by what it does.                            *)
Pc == transaction.pc
Launching == Pc \in {"reserve", "spawn", "insert", "persist", "install", "admit"}

Shape ==
  /\ Pc = "free" => transaction = Free
  /\ Launching => Op \in Launches /\ transaction.todo # <<>> /\ transaction.lair \in Lair
  /\ Pc \in {"insert", "install"} => Op = "create_lair"
  /\ Pc = "admit" => Op # "create_lair"
  /\ Pc = "persist" => Op # "create_transient"
  /\ Pc = "observe" => Op = "create_transient"
  /\ Pc = "shutdown" => Op = "retire"
  /\ transaction.retired # NoLair => Op = "create_lair"
  /\ transaction.promote => Op = "new_dojo"
  /\ \A i, j \in 1..Len(transaction.todo) :
       i # j => transaction.todo[i] # transaction.todo[j]

(* A transaction has its process in hand, under its slot, until the        *)
(* process is registered; create_lair registers it early.                  *)
Holding == Pc \in {"insert", "admit"} \/ (Pc = "persist" /\ Op # "create_lair")
Early == Pc \in {"persist", "install"} /\ Op = "create_lair"

Hands ==
  /\ reserved = IF Pc = "spawn" \/ Holding THEN 1 ELSE 0
  /\ Pc # "shutdown" => At("held") = IF Holding THEN {InHand} ELSE {}
  /\ Holding => InHand \in At("held") /\ processes[InHand].splint = Target
  /\ Early => InHand \in At("entry") /\ processes[InHand].splint = Target
  /\ Pc = "observe" => InHand \in At("entry")

(* What counts against the limit.                                          *)
Owned == {p \in Started : processes[p].place \in {"entry", "held", "retiring"}}

(* Nobody lets go of a process that runs, but for an orphan.               *)
GoneIsDead == \A p \in At("gone") : ~ processes[p].alive

(* No two registered processes of one Splint: where one is being launched  *)
(* there is no other.                                                      *)
Unrivalled ==
  /\ \A p, q \in At("entry") : processes[p].splint = processes[q].splint => p = q
  /\ Pc = "spawn" \/ Holding \/ (Pc = "reserve" /\ Op # "relaunch") =>
       \A p \in At("entry") : processes[p].splint # Target
  /\ Launching => \A i \in 2..Len(transaction.todo) :
       \A p \in At("entry") : processes[p].splint # transaction.todo[i]

(* A registered process that runs has a running leaf, but for the one that *)
(* create_lair registers early.                                            *)
Visible ==
  /\ \A p \in At("entry") :
       processes[p].alive =>
         \/ /\ processes[p].splint \in DOMAIN leaves
            /\ leaves[processes[p].splint].state = "Running"
         \/ Early /\ p = InHand
  /\ Pc = "reserve" /\ Op = "relaunch" =>
       Target \in DOMAIN leaves /\ leaves[Target].state = "Exited"

(* What a launch relies on since its request was validated.                *)
Validated ==
  Launching =>
    /\ Op = "create_lair" =>
         /\ lairs[transaction.lair] = "absent"
         /\ transaction.retired \in Lair =>
              lairs[transaction.retired] = "disposable" /\ FullyExited(transaction.retired)
    /\ Op = "create_transient" =>
         /\ lairs[transaction.lair] = "absent" /\ transaction.lair \in DOMAIN leases
         /\ Target \notin DOMAIN leaves
    /\ Op = "preset" => \A i \in 1..Len(transaction.todo) : transaction.todo[i] \in DOMAIN leaves

(* Every lease has one owner who is connected or still to be cleaned up,   *)
(* and one transient Lair, but for the one that is being created.          *)
Coming == IF Launching /\ Op = "create_transient" THEN {transaction.lair} ELSE {}

Leased ==
  /\ DOMAIN leases = {l \in Lair : lairs[l] = "transient"} \cup Coming
  /\ \A l \in DOMAIN leases : leases[l].owner \in connected \cup cleaning
  /\ \A l, m \in DOMAIN leases : leases[l].owner = leases[m].owner => l = m

(* The document has the structure of the topology, or already that of the  *)
(* candidate.                                                              *)
Structured(doc, lr, lv) ==
  /\ \A l \in Lair : doc.lairs[l] \in Persistent <=> lr[l] \in Persistent
  /\ DOMAIN doc.leaves = {s \in DOMAIN lv : lr[lv[s].lair] \in Persistent}

Written == Pc = "install" \/ (Pc = "admit" /\ Op # "create_transient")

Durable ==
  IF Written THEN Structured(saved, CandidateLairs, CandidateLeaves)
  ELSE Structured(saved, lairs, leaves)

IInv == /\ Types /\ Shape /\ Hands /\ GoneIsDead /\ Unrivalled /\ Visible
        /\ Validated /\ Leased /\ Durable

(* What a step may do to the count: nothing is added to it, or a slot is   *)
(* taken below the limit, or the slot becomes a process.                   *)
Shrinks == Owned' \subseteq Owned /\ (Pc' = "spawn" => Pc = "spawn")

Reserves ==
  /\ reserved = 0 /\ At("held") = {}
  /\ \E own \in SUBSET At("entry") : ~ AtCapacity(Cardinality(own)) /\ Owned' = Owned \ own

Spawns == Pc = "spawn" /\ Pc' # "spawn" /\ \E p : Owned' = Owned \cup {p}

Counts == Shrinks \/ Reserves \/ Spawns

-----------------------------------------------------------------------------
(* Process tables.                                                         *)

(* T is the table ps after the processes P went to another place; those    *)
(* that nobody needs any more may be missing.                              *)
Rehoused(T, ps, P, place) ==
  /\ IsTable(T) /\ DOMAIN T \subseteq DOMAIN ps
  /\ \A p \in DOMAIN T :
       /\ T[p].splint = ps[p].splint
       /\ T[p].alive => ps[p].alive
       /\ T[p].place = IF p \in P THEN place ELSE ps[p].place
  /\ \A p \in DOMAIN ps : (IF p \in P THEN place ELSE ps[p].place) # "gone" => p \in DOMAIN T

Places == {"entry", "held", "retiring", "gone", "orphan"}

(* Forgetting loses only what is gone. *)
LEMMA KeptTable ==
  ASSUME NEW ps, IsTable(ps)
  PROVE /\ IsTable(Kept(ps)) /\ DOMAIN Kept(ps) \subseteq DOMAIN ps
        /\ \A p \in DOMAIN Kept(ps) : Kept(ps)[p] = ps[p]
        /\ \A p \in DOMAIN ps : ps[p].place # "gone" => p \in DOMAIN Kept(ps)
<1> DEFINE lost == {p \in DOMAIN ps : ps[p].place = "gone" /\ ~ ps[p].watched /\ ~ ps[p].killed}
           K == [p \in DOMAIN ps \ lost |-> ps[p]]
<1>1. Kept(ps) = K
  BY DEF Kept, Without
<1>2. DOMAIN K = DOMAIN ps \ lost /\ \A p \in DOMAIN K : K[p] = ps[p]
  OBVIOUS
<1>4. IsTable(K)
  BY <1>2 DEF IsTable
<1>5. \A p \in DOMAIN ps : ps[p].place # "gone" => p \in DOMAIN K
  BY <1>2
<1> QED BY <1>1, <1>2, <1>4, <1>5, Zenon

(* A table whose processes keep their Splint and do not come to life is    *)
(* rehoused, forgotten or not.                                             *)
LEMMA KeptRehoused ==
  ASSUME NEW ps, NEW T, NEW P, NEW place, Rehoused(T, ps, P, place)
  PROVE Rehoused(Kept(T), ps, P, place)
<1>1. IsTable(T)
  BY DEF Rehoused
<1>2. /\ IsTable(Kept(T)) /\ DOMAIN Kept(T) \subseteq DOMAIN T
      /\ \A p \in DOMAIN Kept(T) : Kept(T)[p] = T[p]
      /\ \A p \in DOMAIN T : T[p].place # "gone" => p \in DOMAIN Kept(T)
  BY <1>1, KeptTable
<1> HIDE DEF IsTable
<1>3. DOMAIN Kept(T) \subseteq DOMAIN ps
  BY <1>2 DEF Rehoused
<1>4. \A p \in DOMAIN Kept(T) :
        /\ Kept(T)[p].splint = ps[p].splint
        /\ Kept(T)[p].alive => ps[p].alive
        /\ Kept(T)[p].place = IF p \in P THEN place ELSE ps[p].place
  BY <1>2 DEF Rehoused
<1>5. \A p \in DOMAIN ps : (IF p \in P THEN place ELSE ps[p].place) # "gone" => p \in DOMAIN Kept(T)
  BY <1>2 DEF Rehoused
<1> QED BY <1>2, <1>3, <1>4, <1>5 DEF Rehoused

(* Moving processes changes where they are. *)
LEMMA MovedInTable ==
  ASSUME NEW ps, IsTable(ps), NEW P, NEW place \in Places
  PROVE /\ Rehoused(MovedIn(ps, P, place), ps, P, place)
        /\ \A p \in DOMAIN ps : MovedIn(ps, P, place)[p].alive = ps[p].alive
        /\ DOMAIN MovedIn(ps, P, place) = DOMAIN ps
<1> DEFINE T == MovedIn(ps, P, place)
<1>1. DOMAIN T = DOMAIN ps
  BY DEF MovedIn
<1>2. \A p \in DOMAIN ps :
        /\ T[p] \in Runtime /\ T[p].splint = ps[p].splint /\ T[p].alive = ps[p].alive
        /\ T[p].place = IF p \in P THEN place ELSE ps[p].place
  <2> TAKE p \in DOMAIN ps
  <2>1. ps[p] \in Runtime
    BY DEF IsTable
  <2>2. T[p] = IF p \in P THEN [ps[p] EXCEPT !.place = place] ELSE ps[p]
    BY DEF MovedIn
  <2>3. CASE p \in P
    <3>1. T[p] = [ps[p] EXCEPT !.place = place]
      BY <2>2, <2>3
    <3>2. T[p] \in Runtime
      BY <2>1, <3>1 DEF Runtime, Places
    <3>3. T[p].splint = ps[p].splint /\ T[p].alive = ps[p].alive /\ T[p].place = place
      BY <2>1, <3>1 DEF Runtime
    <3> QED BY <2>3, <3>2, <3>3, Zenon
  <2>4. CASE p \notin P
    BY <2>1, <2>2, <2>4
  <2> QED BY <2>3, <2>4, Zenon
<1>3. T = [p \in DOMAIN T |-> T[p]]
  BY DEF MovedIn
<1>4. IsTable(T)
  BY <1>1, <1>2, <1>3 DEF IsTable
<1> HIDE DEF T
<1>5. Rehoused(T, ps, P, place)
  BY <1>1, <1>2, <1>4 DEF Rehoused
<1> QED BY <1>1, <1>2, <1>5 DEF T

(* Moved, as the actions use it. *)
LEMMA MovedTable ==
  ASSUME IsTable(processes), NEW P, NEW place \in Places
  PROVE Rehoused(Moved(P, place), processes, P, place)
BY MovedInTable, KeptRehoused DEF Moved

(* A step that changes one process. *)
LEMMA ChangedOne ==
  ASSUME NEW ps, IsTable(ps), NEW p \in DOMAIN ps, NEW r \in Runtime,
         r.splint = ps[p].splint, r.alive => ps[p].alive
  PROVE /\ Rehoused([ps EXCEPT ![p] = r], ps, {p}, r.place)
        /\ IsTable([ps EXCEPT ![p] = r])
<1> DEFINE T == [ps EXCEPT ![p] = r]
<1>1. /\ DOMAIN T = DOMAIN ps /\ T[p] = r
      /\ \A q \in DOMAIN ps : q # p => T[q] = ps[q]
  BY DEF IsTable
<1>2. IsTable(T)
  BY DEF IsTable
<1> HIDE DEF T
<1>3. Rehoused(T, ps, {p}, r.place)
  BY <1>1, <1>2 DEF Rehoused
<1> QED BY <1>2, <1>3 DEF T

(* Where the processes are after such a step. *)
LEMMA RehousedAt ==
  ASSUME NEW P, NEW place, Rehoused(processes', processes, P, place), NEW q, q # "gone"
  PROVE At(q)' = (At(q) \ P) \cup (IF place = q THEN P \cap Started ELSE {})
<1>1. \A p \in Started' : processes'[p].place = IF p \in P THEN place ELSE processes[p].place
  BY DEF Rehoused, Started
<1>2. Started' \subseteq Started
  BY DEF Rehoused, Started
<1>3. \A p \in Started : (IF p \in P THEN place ELSE processes[p].place) # "gone" => p \in Started'
  BY DEF Rehoused, Started
<1> QED BY <1>1, <1>2, <1>3 DEF At

(* What is left of the count. *)
LEMMA RehousedOwned ==
  ASSUME NEW P, NEW place, Rehoused(processes', processes, P, place)
  PROVE Owned' = (Owned \ P) \cup (IF place \in {"entry", "held", "retiring"} THEN P \cap Started ELSE {})
<1>1. \A p \in Started' : processes'[p].place = IF p \in P THEN place ELSE processes[p].place
  BY DEF Rehoused, Started
<1>2. Started' \subseteq Started
  BY DEF Rehoused, Started
<1>3. \A p \in Started : (IF p \in P THEN place ELSE processes[p].place) # "gone" => p \in Started'
  BY DEF Rehoused, Started
<1> QED BY <1>1, <1>2, <1>3 DEF Owned

(* What leaves the registry does not come back by this step. *)
LEMMA EntriesShrink ==
  ASSUME NEW P, NEW place, Rehoused(processes', processes, P, place),
         place # "entry" \/ P \subseteq At("entry")
  PROVE \A p \in At("entry")' :
          /\ p \in At("entry") /\ processes'[p].splint = processes[p].splint
          /\ processes'[p].alive => processes[p].alive
<1>1. At("entry")' \subseteq At("entry")
  BY RehousedAt
<1>2. At("entry")' \subseteq DOMAIN processes'
  BY DEF At, Started
<1> QED BY <1>1, <1>2 DEF Rehoused

(* Only the dead are let go of. *)
LEMMA StillDead ==
  ASSUME NEW P, NEW place, Rehoused(processes', processes, P, place), GoneIsDead,
         place # "gone" \/ \A p \in P \cap Started' : ~ processes'[p].alive
  PROVE GoneIsDead'
<1> SUFFICES ASSUME NEW p \in At("gone")' PROVE ~ processes'[p].alive
  BY DEF GoneIsDead
<1>1. /\ p \in Started' /\ processes'[p].place = "gone" /\ p \in Started
      /\ processes'[p].alive => processes[p].alive
      /\ processes'[p].place = IF p \in P THEN place ELSE processes[p].place
  BY DEF At, Started, Rehoused
<1>2. CASE p \in P
  BY <1>1, <1>2
<1>3. CASE p \notin P
  BY <1>1, <1>3 DEF GoneIsDead, At
<1> QED BY <1>2, <1>3, Zenon

-----------------------------------------------------------------------------
(* Leaves, leases and documents.                                           *)

(* The empty table. *)
LEMMA NothingIsTyped == DOMAIN << >> = {} /\ \A S : << >> \in [{} -> S]
<1>1. DOMAIN << >> = {}
  OBVIOUS
<1> QED BY <1>1

(* Leaving some out, or putting one in, keeps a table's type. *)
LEMMA WithoutTyped ==
  ASSUME NEW f, NEW R, f \in [DOMAIN f -> R], NEW S
  PROVE /\ DOMAIN Without(f, S) = DOMAIN f \ S
        /\ Without(f, S) \in [DOMAIN f \ S -> R]
        /\ \A x \in DOMAIN f \ S : Without(f, S)[x] = f[x]
BY DEF Without

LEMMA PutTyped ==
  ASSUME NEW f, NEW R, f \in [DOMAIN f -> R], NEW x, NEW v \in R
  PROVE /\ DOMAIN Put(f, x, v) = DOMAIN f \cup {x}
        /\ Put(f, x, v) \in [DOMAIN f \cup {x} -> R]
        /\ Put(f, x, v)[x] = v
        /\ \A y \in DOMAIN f : y # x => Put(f, x, v)[y] = f[y]
BY DEF Put

(* A leaf that exits stays where it is. *)
LEMMA ExitTyped ==
  ASSUME NEW lv, IsLeaves(lv), NEW s
  PROVE LET exited == [lv EXCEPT ![s] = [@ EXCEPT !.state = "Exited"]]
        IN /\ IsLeaves(exited) /\ DOMAIN exited = DOMAIN lv
           /\ \A t \in DOMAIN lv : exited[t].lair = lv[t].lair
           /\ \A t \in DOMAIN lv : t # s => exited[t] = lv[t]
           /\ s \in DOMAIN lv => exited[s].state = "Exited"
<1> DEFINE exited == [lv EXCEPT ![s] = [@ EXCEPT !.state = "Exited"]]
<1>1. DOMAIN exited = DOMAIN lv /\ \A t \in DOMAIN lv : t # s => exited[t] = lv[t]
  BY DEF IsLeaves
<1>2. CASE s \in DOMAIN lv
  <2>1. exited[s] = [lv[s] EXCEPT !.state = "Exited"] /\ lv[s] \in Leaf
    BY <1>2 DEF IsLeaves
  <2>2. exited[s] \in Leaf /\ exited[s].lair = lv[s].lair /\ exited[s].state = "Exited"
    BY <2>1 DEF Leaf
  <2>3. IsLeaves(exited)
    BY <1>1, <2>2, Zenon DEF IsLeaves
  <2> QED BY <1>1, <2>2, <2>3, Zenon
<1>3. CASE s \notin DOMAIN lv
  <2>1. exited = lv
    BY <1>3 DEF IsLeaves
  <2> QED BY <2>1, <1>3, Zenon
<1> QED BY <1>2, <1>3, Zenon

(* What is written is a document with the structure of its topology. *)
LEMMA DocumentFits ==
  ASSUME NEW lr \in [Lair -> Retention], NEW lv, IsLeaves(lv)
  PROVE IsDocument(Document(lr, lv)) /\ Structured(Document(lr, lv), lr, lv)
<1> DEFINE doc == Document(lr, lv)
           kept == {s \in DOMAIN lv : lr[lv[s].lair] \in Persistent}
<1>1. /\ doc.lairs = [l \in Lair |-> IF lr[l] \in Persistent THEN lr[l] ELSE "absent"]
      /\ doc.leaves = [s \in kept |-> [lv[s] EXCEPT !.state = "Exited"]]
  BY DEF Document
<1> HIDE DEF doc
<1>2. /\ doc.lairs \in [Lair -> Persistent \cup {"absent"}]
      /\ \A l \in Lair : doc.lairs[l] \in Persistent <=> lr[l] \in Persistent
  BY <1>1 DEF Persistent
<1>3. DOMAIN doc.leaves = kept
  BY <1>1
<1>4. \A s \in kept : doc.leaves[s] \in Leaf /\ doc.leaves[s].lair = lv[s].lair
  <2> TAKE s \in kept
  <2>1. lv[s] \in Leaf /\ doc.leaves[s] = [lv[s] EXCEPT !.state = "Exited"]
    BY <1>1 DEF IsLeaves
  <2> QED BY <2>1 DEF Leaf
<1>5. \A s \in kept : lv[s].lair \in Lair
  BY DEF IsLeaves, Leaf
<1>6. IsLeaves(doc.leaves)
  <2>1. doc.leaves = [s \in kept |-> doc.leaves[s]]
    BY <1>1
  <2> QED BY <2>1, <1>3, <1>4, Zenon DEF IsLeaves
<1>7. \A s \in DOMAIN doc.leaves : doc.lairs[doc.leaves[s].lair] \in Persistent
  BY <1>2, <1>3, <1>4, <1>5
<1> QED BY <1>2, <1>3, <1>6, <1>7 DEF doc, IsDocument, Structured

(* Structure depends on what exists and where, not on states. *)
LEMMA SameStructure ==
  ASSUME NEW doc, NEW lr, NEW lv, NEW mr, NEW mv,
         IsLeaves(lv), IsLeaves(mv), Structured(doc, lr, lv),
         \A l \in Lair : mr[l] \in Persistent <=> lr[l] \in Persistent,
         \A s \in DOMAIN lv : lr[lv[s].lair] \in Persistent =>
           s \in DOMAIN mv /\ mv[s].lair = lv[s].lair,
         \A s \in DOMAIN mv : mr[mv[s].lair] \in Persistent =>
           s \in DOMAIN lv /\ mv[s].lair = lv[s].lair
  PROVE Structured(doc, mr, mv)
<1>1. \A s \in DOMAIN lv : lv[s].lair \in Lair
  BY DEF IsLeaves, Leaf
<1>2. \A s \in DOMAIN mv : mv[s].lair \in Lair
  BY DEF IsLeaves, Leaf
<1>3. {s \in DOMAIN lv : lr[lv[s].lair] \in Persistent}
        = {s \in DOMAIN mv : mr[mv[s].lair] \in Persistent}
  BY <1>1, <1>2
<1> QED BY <1>3 DEF Structured

-----------------------------------------------------------------------------
(* The transaction.                                                        *)

(* The leaf being launched is the first to do. *)
LEMMA TargetIsFirst ==
  ASSUME transaction \in Transaction, transaction.todo # << >>
  PROVE /\ Target \in Splint /\ Target = transaction.todo[1]
        /\ transaction.todo \in Seq(Splint) /\ Len(transaction.todo) \in Nat
        /\ Len(transaction.todo) >= 1
BY DEF Transaction, Target

(* With the permit free there is no launch. *)
LEMMA FreeFacts ==
  /\ Free \in Transaction
  /\ Free.pc = "free" /\ Free.op = "none" /\ Free.todo = << >> /\ Free.retired = NoLair
  /\ Free.promote = FALSE
BY DEF Free, Transaction, Steps

LEMMA FreeShape ==
  /\ transaction = Free => Shape
  /\ transaction' = Free => Shape'
  /\ transaction' = Free => ~ Launching' /\ Pc' = "free" /\ ~ Holding' /\ ~ Early' /\ ~ Written' /\ Coming' = {}
  /\ transaction = Free => ~ Launching /\ Pc = "free" /\ ~ Holding /\ ~ Early /\ ~ Written /\ Coming = {}
BY FreeFacts DEF Shape, Pc, Op, Launching, Holding, Early, Written, Coming

(* A request that begins asks for its slot next. *)
LEMMA BeginDoes ==
  ASSUME NEW op \in Launches, NEW l \in Lair, NEW r \in Lair \cup {NoLair},
         NEW todo \in Seq(Splint), NEW promote \in BOOLEAN,
         Begin(op, l, r, todo, promote), todo # << >>,
         r # NoLair => op = "create_lair", promote => op = "new_dojo",
         \A i, j \in 1..Len(todo) : i # j => todo[i] # todo[j]
  PROVE /\ transaction' \in Transaction /\ Shape'
        /\ Pc' = "reserve" /\ Op' = op /\ transaction'.lair = l /\ transaction'.todo = todo
        /\ transaction'.retired = r
        /\ Launching' /\ ~ Holding' /\ ~ Early' /\ ~ Written' /\ transaction = Free
        /\ Coming' = IF op = "create_transient" THEN {l} ELSE {}
        /\ Target' = todo[1]
<1>1. /\ transaction'.op = op /\ transaction'.lair = l /\ transaction'.retired = r
      /\ transaction'.todo = todo /\ transaction'.pc = "reserve" /\ transaction'.promote = promote
  BY DEF Begin
<1>2. transaction' \in Transaction
  BY DEF Begin, Transaction, Steps
<1>3. Shape'
  BY <1>1 DEF Shape, Pc, Op, Launching
<1> QED BY <1>1, <1>2, <1>3 DEF Begin, PermitFree, Pc, Op, Launching, Holding, Early, Written, Coming, Target

(* A launch that is over frees the permit or goes on with the next leaf. *)
LEMMA NextLeafDoes ==
  ASSUME Types, Shape, Launching, NextLeaf
  PROVE /\ transaction' \in Transaction /\ Shape'
        /\ \/ transaction' = Free
           \/ /\ Pc' = "reserve" /\ Op = "preset" /\ Op' = "preset"
              /\ transaction'.lair = transaction.lair
              /\ Len(transaction.todo) > 1 /\ Target' = transaction.todo[2]
              /\ Len(transaction'.todo) = Len(transaction.todo) - 1
              /\ \A i \in 1..Len(transaction'.todo) : transaction'.todo[i] = transaction.todo[i + 1]
        /\ ~ Holding' /\ ~ Early' /\ ~ Written' /\ Coming' = {} /\ Pc' \in {"free", "reserve"}
        /\ Op' # "relaunch"
<1>1. CASE transaction' = Free
  BY <1>1, FreeFacts, FreeShape DEF Op
<1>2. CASE transaction' # Free
  <2>0. transaction \in Transaction /\ transaction.todo # << >> /\ transaction.todo \in Seq(Splint)
    BY DEF Types, Shape, Transaction
  <2>1. /\ Op = "preset" /\ Len(transaction.todo) > 1
        /\ transaction' = [transaction EXCEPT !.todo = Tail(transaction.todo), !.pc = "reserve",
                                              !.process = NoProcess]
    BY <1>2 DEF NextLeaf
  <2>2. /\ transaction'.op = transaction.op /\ transaction'.lair = transaction.lair
        /\ transaction'.retired = transaction.retired /\ transaction'.promote = transaction.promote
        /\ transaction'.todo = Tail(transaction.todo) /\ transaction'.pc = "reserve"
    BY <2>0, <2>1 DEF Transaction
  <2>3. /\ Tail(transaction.todo) \in Seq(Splint)
        /\ Len(Tail(transaction.todo)) = Len(transaction.todo) - 1
        /\ \A i \in 1..Len(Tail(transaction.todo)) : Tail(transaction.todo)[i] = transaction.todo[i + 1]
    BY <2>0, <2>1
  <2>4. transaction' \in Transaction
    BY <2>0, <2>1, <2>3, Zenon DEF Transaction, Steps
  <2>5. Tail(transaction.todo) # << >> /\ Head(Tail(transaction.todo)) = transaction.todo[2]
    <3>1. Len(Tail(transaction.todo)) >= 1 /\ 1 \in 1..Len(Tail(transaction.todo))
      BY <2>0, <2>1, <2>3
    <3>2. Tail(transaction.todo)[1] = transaction.todo[2]
      BY <2>3, <3>1
    <3> QED BY <2>3, <3>1, <3>2
  <2>6. \A i, j \in 1..Len(transaction'.todo) : i # j => transaction'.todo[i] # transaction'.todo[j]
    <3> TAKE i, j \in 1..Len(transaction'.todo)
    <3>1. i + 1 \in 1..Len(transaction.todo) /\ j + 1 \in 1..Len(transaction.todo)
      BY <2>0, <2>2, <2>3
    <3>2. transaction'.todo[i] = transaction.todo[i + 1] /\ transaction'.todo[j] = transaction.todo[j + 1]
      BY <2>2, <2>3
    <3>3. i # j => i + 1 # j + 1
      OBVIOUS
    <3> QED BY <3>1, <3>2, <3>3 DEF Shape
  <2>7. Shape'
    BY <2>1, <2>2, <2>5, <2>6 DEF Shape, Pc, Op, Launching
  <2> QED BY <2>1, <2>2, <2>3, <2>4, <2>5, <2>7 DEF Pc, Op, Holding, Early, Written, Coming, Launching, Target
<1> QED BY <1>1, <1>2, Zenon

(* The other steps change only how far the launch got. *)
LEMMA GotoDoes ==
  ASSUME transaction \in Transaction, NEW pc \in Steps, Goto(pc)
  PROVE /\ transaction' \in Transaction /\ Pc' = pc /\ Op' = Op /\ transaction'.lair = transaction.lair
        /\ transaction'.retired = transaction.retired /\ transaction'.todo = transaction.todo
        /\ transaction'.promote = transaction.promote /\ Target' = Target /\ InHand' = InHand
<1>1. transaction' = [transaction EXCEPT !.pc = pc]
  BY DEF Goto
<1>2. transaction' \in Transaction
  BY <1>1 DEF Transaction
<1>3. /\ transaction'.pc = pc /\ transaction'.op = transaction.op
      /\ transaction'.lair = transaction.lair /\ transaction'.process = transaction.process
      /\ transaction'.retired = transaction.retired /\ transaction'.todo = transaction.todo
      /\ transaction'.promote = transaction.promote
  BY <1>1 DEF Transaction
<1> QED BY <1>2, <1>3 DEF Pc, Op, Target, InHand

(* No leaf is in no Lair. *)
LEMMA NoLairIsEmpty ==
  ASSUME IsLeaves(leaves)
  PROVE LeavesOf(leaves, NoLair) = {}
BY LaunchAssumption DEF IsLeaves, Leaf, LeavesOf

(* The candidate of a launch is a topology. *)
LEMMA CandidateFits ==
  ASSUME Types, Shape, Launching
  PROVE /\ CandidateLairs \in [Lair -> Retention] /\ IsLeaves(CandidateLeaves)
        /\ DOMAIN CandidateLeaves = (DOMAIN leaves \ LeavesOf(leaves, transaction.retired)) \cup {Target}
        /\ CandidateLeaves[Target] = [lair |-> transaction.lair, state |-> "Running"]
        /\ \A s \in DOMAIN leaves \ LeavesOf(leaves, transaction.retired) :
             s # Target => CandidateLeaves[s] = leaves[s]
<1>1. transaction.lair \in Lair /\ Target \in Splint
  BY TargetIsFirst DEF Types, Shape
<1>2. CandidateLairs \in [Lair -> Retention]
  <2>1. lairs \in [Lair -> Retention]
    BY DEF Types
  <2>2. {"disposable", "absent", "transient"} \subseteq Retention
    BY DEF Retention, Persistent
  <2>3. CASE Op = "create_lair"
    <3>1. CandidateLairs = [m \in Lair |-> CASE m = transaction.lair -> "disposable"
                                             [] m = transaction.retired -> "absent"
                                             [] OTHER -> lairs[m]]
      BY <2>3 DEF CandidateLairs, Shape
    <3> QED BY <2>1, <2>2, <3>1, Zenon
  <2>4. CASE Op # "create_lair"
    BY <2>1, <2>2, <2>4 DEF CandidateLairs, Shape
  <2> QED BY <2>3, <2>4, Zenon
<1> DEFINE rest == Without(leaves, LeavesOf(leaves, transaction.retired))
           new == [lair |-> transaction.lair, state |-> "Running"]
<1>3. leaves \in [DOMAIN leaves -> Leaf] /\ DOMAIN leaves \subseteq Splint
  BY DEF Types, IsLeaves
<1>4. new \in Leaf
  BY <1>1 DEF Leaf
<1>5. /\ DOMAIN rest = DOMAIN leaves \ LeavesOf(leaves, transaction.retired)
      /\ rest \in [DOMAIN rest -> Leaf]
      /\ \A s \in DOMAIN rest : rest[s] = leaves[s]
  BY <1>3, WithoutTyped
<1>6. CandidateLeaves = Put(rest, Target, new)
  BY DEF CandidateLeaves
<1> HIDE DEF rest, new
<1>9. /\ DOMAIN Put(rest, Target, new) = DOMAIN rest \cup {Target}
      /\ Put(rest, Target, new) \in [DOMAIN rest \cup {Target} -> Leaf]
      /\ Put(rest, Target, new)[Target] = new
      /\ \A s \in DOMAIN rest : s # Target => Put(rest, Target, new)[s] = rest[s]
  BY <1>4, <1>5 DEF Put
<1>7. /\ DOMAIN CandidateLeaves = DOMAIN rest \cup {Target}
      /\ CandidateLeaves \in [DOMAIN rest \cup {Target} -> Leaf]
      /\ CandidateLeaves[Target] = new
      /\ \A s \in DOMAIN rest : s # Target => CandidateLeaves[s] = rest[s]
  BY <1>6, <1>9
<1>8. IsLeaves(CandidateLeaves)
  BY <1>1, <1>3, <1>5, <1>7 DEF IsLeaves
<1> QED BY <1>2, <1>5, <1>7, <1>8 DEF new

-----------------------------------------------------------------------------
(* Requests that begin.                                                    *)

(* A request that launches one leaf. *)
LEMMA BeginOne ==
  ASSUME NEW op \in Launches, NEW l \in Lair, NEW r \in Lair \cup {NoLair},
         NEW s \in Splint, NEW promote \in BOOLEAN,
         Begin(op, l, r, <<s>>, promote),
         r # NoLair => op = "create_lair", promote => op = "new_dojo"
  PROVE /\ transaction' \in Transaction /\ Shape'
        /\ Pc' = "reserve" /\ Op' = op /\ transaction'.lair = l /\ transaction'.todo = <<s>>
        /\ transaction'.retired = r
        /\ Launching' /\ ~ Holding' /\ ~ Early' /\ ~ Written' /\ transaction = Free
        /\ Coming' = IF op = "create_transient" THEN {l} ELSE {}
        /\ Target' = s
<1> DEFINE todo == <<s>>
<1>1. todo \in Seq(Splint) /\ todo # << >> /\ Len(todo) = 1 /\ todo[1] = s
  OBVIOUS
<1> HIDE DEF todo
<1>2. \A i, j \in 1..Len(todo) : i # j => todo[i] # todo[j]
  BY <1>1
<1>3. Begin(op, l, r, todo, promote)
  BY DEF todo
<1>4. /\ transaction' \in Transaction /\ Shape'
      /\ Pc' = "reserve" /\ Op' = op /\ transaction'.lair = l /\ transaction'.todo = todo
      /\ transaction'.retired = r
      /\ Launching' /\ ~ Holding' /\ ~ Early' /\ ~ Written' /\ transaction = Free
      /\ Coming' = IF op = "create_transient" THEN {l} ELSE {}
      /\ Target' = todo[1]
  BY <1>1, <1>2, <1>3, BeginDoes
<1> QED BY <1>1, <1>4 DEF todo

(* A request that has only taken the permit finds slots and processes as   *)
(* they were; nothing is registered for the leaves it is to launch.        *)
LEMMA BeginKeeps ==
  ASSUME IInv, transaction = Free, UNCHANGED <<processes, reserved>>,
         transaction' \in Transaction, Shape', Pc' = "reserve", ~ Holding', ~ Early',
         Op' = "relaunch" => Len(transaction'.todo) = 1,
         Op' # "relaunch" => \A i \in 1..Len(transaction'.todo) :
                               \A p \in Started : processes[p].splint # transaction'.todo[i]
  PROVE Hands' /\ Counts /\ GoneIsDead' /\ Unrivalled'
<1>1. Pc = "free" /\ ~ Holding /\ ~ Early
  BY FreeShape
<1>2. Hands'
  BY <1>1 DEF IInv, Hands, At, Started
<1>3. Counts
  <2>1. Owned' \subseteq Owned
    BY DEF Owned, Started
  <2> QED BY <2>1 DEF Counts, Shrinks
<1>4. GoneIsDead'
  BY DEF IInv, GoneIsDead, At, Started
<1>5. Unrivalled'
  <2>1. transaction'.todo # << >>
    BY DEF Shape, Launching
  <2>2. /\ Target' = transaction'.todo[1] /\ Len(transaction'.todo) \in Nat
        /\ Len(transaction'.todo) >= 1
    BY <2>1 DEF Transaction, Target
  <2>3. At("entry")' = At("entry") /\ At("entry") \subseteq Started
    BY DEF At, Started
  <2>4. \A p, q \in At("entry")' : processes'[p].splint = processes'[q].splint => p = q
    BY <2>3 DEF IInv, Unrivalled
  <2>5. Op' # "relaunch" => \A p \in At("entry")' : processes'[p].splint # Target'
    BY <2>2, <2>3
  <2>6. \A i \in 2..Len(transaction'.todo) :
          \A p \in At("entry")' : processes'[p].splint # transaction'.todo[i]
    <3> TAKE i \in 2..Len(transaction'.todo)
    <3> DEFINE n == Len(transaction'.todo)
    <3>0. n \in Nat /\ i \in 2..n
      BY <2>2
    <3> HIDE DEF n
    <3>2. i \in 1..n /\ n # 1
      BY <3>0
    <3>1. i \in 1..Len(transaction'.todo) /\ Len(transaction'.todo) # 1
      BY <3>2 DEF n
    <3> QED BY <2>3, <3>1, Zenon
  <2> QED BY <2>4, <2>5, <2>6 DEF Unrivalled
<1> QED BY <1>2, <1>3, <1>4, <1>5, Zenon

(* If the topology is as it was too, so is what can be seen and what is    *)
(* written; the request has only to bring what it was validated for.       *)
LEMMA RequestKeeps ==
  ASSUME IInv, transaction = Free, UNCHANGED <<lairs, leaves, saved, processes>>,
         Pc' = "reserve", ~ Early', ~ Written', Op' # "relaunch"
  PROVE Visible' /\ Durable'
<1>1. ~ Early /\ ~ Written
  BY FreeShape
<1>2. At("entry")' = At("entry")
  BY DEF At, Started
<1>3. Visible'
  BY <1>1, <1>2 DEF IInv, Visible
<1>4. Durable'
  BY <1>1 DEF IInv, Durable
<1> QED BY <1>3, <1>4, Zenon

(* CreateLair. *)
LEMMA CreateLairKeeps ==
  ASSUME IInv, NEW l \in Lair, NEW r \in Lair \cup {NoLair}, NEW s \in Splint, CreateLair(l, r, s)
  PROVE IInv' /\ Counts
<1>1. /\ lairs[l] = "absent" /\ Fresh(s) /\ Retirement(r) /\ Begin("create_lair", l, r, <<s>>, FALSE)
      /\ UNCHANGED <<lairs, leaves, saved, processes, reserved, leases, connected, cleaning>>
  BY Zenon DEF CreateLair
<1>2. Len(<<s>>) = 1 /\ <<s>>[1] = s
  OBVIOUS
<1>3. /\ transaction' \in Transaction /\ Shape'
      /\ Pc' = "reserve" /\ Op' = "create_lair" /\ transaction'.lair = l /\ transaction'.todo = <<s>>
      /\ transaction'.retired = r
      /\ Launching' /\ ~ Holding' /\ ~ Early' /\ ~ Written' /\ transaction = Free
      /\ Coming' = {} /\ Target' = s
  BY <1>1, BeginOne, Zenon DEF Launches
<1>4. Hands' /\ Counts /\ GoneIsDead' /\ Unrivalled'
  BY <1>1, <1>2, <1>3, BeginKeeps DEF Fresh
<1>5. Visible' /\ Durable'
  BY <1>1, <1>3, RequestKeeps
<1>6. Types'
  BY <1>1, <1>3 DEF IInv, Types
<1>7. Leased'
  BY <1>1, <1>3, FreeShape, Zenon DEF IInv, Leased
<1>8. Validated'
  <2>1. r \in Lair => lairs[r] = "disposable" /\ FullyExited(r)
    BY <1>1, LaunchAssumption, Zenon DEF Retirement
  <2>2. r \in Lair => FullyExited(transaction.retired)'
    BY <1>1, <1>3, <2>1 DEF FullyExited, LeavesOf
  <2> QED BY <1>1, <1>3, <2>1, <2>2, Zenon DEF Validated
<1> QED BY <1>3, <1>4, <1>5, <1>6, <1>7, <1>8, Zenon DEF IInv

(* SplitSplint, and NewDojo with or without a promotion. *)
LEMMA SplitKeeps ==
  ASSUME IInv, NEW l \in Lair, NEW s \in Splint, NEW op \in {"split", "new_dojo"}, NEW promote \in BOOLEAN,
         promote => op = "new_dojo", Fresh(s), Begin(op, l, NoLair, <<s>>, promote),
         UNCHANGED <<lairs, leaves, saved, processes, reserved, leases, connected, cleaning>>
  PROVE IInv' /\ Counts
<1>2. Len(<<s>>) = 1 /\ <<s>>[1] = s
  OBVIOUS
<1>3. /\ transaction' \in Transaction /\ Shape'
      /\ Pc' = "reserve" /\ Op' = op /\ transaction'.lair = l /\ transaction'.todo = <<s>>
      /\ Launching' /\ ~ Holding' /\ ~ Early' /\ ~ Written' /\ transaction = Free
      /\ Coming' = {} /\ Target' = s
  BY BeginOne DEF Launches
<1>4. Hands' /\ Counts /\ GoneIsDead' /\ Unrivalled'
  <2>1. /\ Op' # "relaunch"
        /\ \A i \in 1..Len(transaction'.todo) : \A p \in Started : processes[p].splint # transaction'.todo[i]
    BY <1>2, <1>3 DEF Fresh
  <2> QED BY <1>3, <2>1, BeginKeeps
<1>5. Visible' /\ Durable'
  BY <1>3, RequestKeeps
<1>6. Types'
  BY <1>3 DEF IInv, Types
<1>7. Leased'
  BY <1>3, FreeShape, Zenon DEF IInv, Leased
<1>8. Validated'
  BY <1>3 DEF Validated
<1> QED BY <1>3, <1>4, <1>5, <1>6, <1>7, <1>8, Zenon DEF IInv

(* CreateTransientLair reserves its lease. *)
LEMMA CreateTransientKeeps ==
  ASSUME IInv, NEW k \in Connection, NEW l \in Lair, NEW s \in Splint, CreateTransientLair(k, l, s)
  PROVE IInv' /\ Counts
<1> DEFINE lease == [owner |-> k, splint |-> s, incarnation |-> NoProcess]
<1>1. /\ k \in connected /\ lairs[l] = "absent" /\ Fresh(s)
      /\ \A m \in DOMAIN leases : leases[m].owner # k
      /\ Begin("create_transient", l, NoLair, <<s>>, FALSE)
      /\ leases' = Put(leases, l, lease)
      /\ UNCHANGED <<lairs, leaves, saved, processes, reserved, connected, cleaning>>
  BY Zenon DEF CreateTransientLair
<1>2. Len(<<s>>) = 1 /\ <<s>>[1] = s
  OBVIOUS
<1>3. /\ transaction' \in Transaction /\ Shape'
      /\ Pc' = "reserve" /\ Op' = "create_transient" /\ transaction'.lair = l /\ transaction'.todo = <<s>>
      /\ Launching' /\ ~ Holding' /\ ~ Early' /\ ~ Written' /\ transaction = Free
      /\ Coming' = {l} /\ Target' = s
  BY <1>1, BeginOne, Zenon DEF Launches
<1>4. Hands' /\ Counts /\ GoneIsDead' /\ Unrivalled'
  BY <1>1, <1>2, <1>3, BeginKeeps DEF Fresh
<1>5. Visible' /\ Durable'
  BY <1>1, <1>3, RequestKeeps, Zenon
<1>6. lease \in Lease /\ lease.owner = k
  BY DEF Lease
<1>7. leases \in [DOMAIN leases -> Lease] /\ DOMAIN leases \subseteq Lair
  BY DEF IInv, Types, IsLeases
<1> HIDE DEF lease
<1>8. /\ DOMAIN leases' = DOMAIN leases \cup {l}
      /\ leases' \in [DOMAIN leases \cup {l} -> Lease]
      /\ leases'[l] = lease
      /\ \A m \in DOMAIN leases : m # l => leases'[m] = leases[m]
  BY <1>1, <1>6, <1>7 DEF Put
<1>9. Types'
  BY <1>1, <1>3, <1>7, <1>8, Zenon DEF IInv, Types, IsLeases
<1>10. DOMAIN leases = {m \in Lair : lairs[m] = "transient"} /\ l \notin DOMAIN leases
  BY <1>1, <1>3, FreeShape DEF IInv, Leased
<1>11. Leased'
  <2>1. DOMAIN leases' = {m \in Lair : lairs'[m] = "transient"} \cup Coming'
    BY <1>1, <1>3, <1>8, <1>10, Zenon
  <2>2. \A m \in DOMAIN leases' : leases'[m].owner \in connected' \cup cleaning'
    BY <1>1, <1>6, <1>8, Zenon DEF IInv, Leased
  <2>3. \A m, n \in DOMAIN leases' : leases'[m].owner = leases'[n].owner => m = n
    BY <1>1, <1>6, <1>8 DEF IInv, Leased
  <2> QED BY <2>1, <2>2, <2>3 DEF Leased
<1>12. Validated'
  BY <1>1, <1>3, <1>8 DEF Validated, Fresh
<1> QED BY <1>3, <1>4, <1>5, <1>9, <1>11, <1>12, Zenon DEF IInv

(* RelaunchSplint: what is registered for its exited leaf does not run. *)
LEMMA RelaunchKeeps ==
  ASSUME IInv, NEW s \in Splint, RelaunchSplint(s)
  PROVE IInv' /\ Counts
<1>0. s \in DOMAIN leaves /\ leaves[s].lair \in Lair
  BY DEF RelaunchSplint, IInv, Types, IsLeaves, Leaf
<1>1. /\ leaves[s].state = "Exited" /\ Begin("relaunch", leaves[s].lair, NoLair, <<s>>, FALSE)
      /\ UNCHANGED <<lairs, leaves, saved, processes, reserved, leases, connected, cleaning>>
  BY Zenon DEF RelaunchSplint
<1>2. Len(<<s>>) = 1 /\ <<s>>[1] = s
  OBVIOUS
<1>3. /\ transaction' \in Transaction /\ Shape'
      /\ Pc' = "reserve" /\ Op' = "relaunch" /\ transaction'.todo = <<s>>
      /\ Launching' /\ ~ Holding' /\ ~ Early' /\ ~ Written' /\ transaction = Free
      /\ Coming' = {} /\ Target' = s
  BY <1>0, <1>1, BeginOne, Zenon DEF Launches
<1>4. Hands' /\ Counts /\ GoneIsDead' /\ Unrivalled'
  BY <1>1, <1>2, <1>3, BeginKeeps, Zenon
<1>5. Visible' /\ Durable'
  <2>1. At("entry")' = At("entry") /\ ~ Early /\ ~ Written
    BY <1>1, <1>3, FreeShape DEF At, Started
  <2> QED BY <1>0, <1>1, <1>3, <2>1, Zenon DEF IInv, Visible, Durable
<1>6. Types'
  BY <1>1, <1>3, Zenon DEF IInv, Types
<1>7. Leased'
  BY <1>1, <1>3, FreeShape, Zenon DEF IInv, Leased
<1>8. Validated'
  BY <1>3 DEF Validated
<1> QED BY <1>3, <1>4, <1>5, <1>6, <1>7, <1>8, Zenon DEF IInv

(* MaterializePreset commits its leaves with the permit. *)
LEMMA MaterializeKeeps ==
  ASSUME IInv, NEW l \in Lair, NEW s \in Splint, NEW t \in Splint, MaterializePreset(l, s, t)
  PROVE IInv' /\ Counts
<1> DEFINE lr == IF lairs[l] = "absent" THEN [lairs EXCEPT ![l] = "disposable"] ELSE lairs
           lv == [x \in DOMAIN leaves \cup {s, t} |->
                    IF x \in {s, t} THEN [lair |-> l, state |-> "Starting"] ELSE leaves[x]]
           todo == <<s, t>>
<1>1. /\ s # t /\ Fresh(s) /\ Fresh(t) /\ Begin("preset", l, NoLair, todo, FALSE)
      /\ saved' = Document(lr, lv) /\ lairs' = lr /\ leaves' = lv
      /\ UNCHANGED <<processes, reserved, leases, connected, cleaning>>
  BY Zenon DEF MaterializePreset, Persist
<1>2. todo \in Seq(Splint) /\ todo # << >> /\ Len(todo) = 2 /\ todo[1] = s /\ todo[2] = t
  OBVIOUS
<1>3. leaves \in [DOMAIN leaves -> Leaf] /\ DOMAIN leaves \subseteq Splint
  BY DEF IInv, Types, IsLeaves
<1>4. /\ lr \in [Lair -> Retention]
      /\ \A m \in Lair : lr[m] = "transient" <=> lairs[m] = "transient"
  BY DEF IInv, Types, Retention, Persistent
<1>5. /\ DOMAIN lv = DOMAIN leaves \cup {s, t} /\ lv \in [DOMAIN lv -> Leaf]
      /\ \A x \in DOMAIN leaves : x \notin {s, t} => lv[x] = leaves[x]
  <2>1. [lair |-> l, state |-> "Starting"] \in Leaf
    BY DEF Leaf
  <2> QED BY <1>3, <2>1, Zenon
<1> HIDE DEF lr, lv, todo
<1>6. IsLeaves(lv)
  BY <1>3, <1>5 DEF IsLeaves
<1>7. \A i \in 1..Len(todo) : todo[i] \in {s, t}
  BY <1>2
<1>8. /\ transaction' \in Transaction /\ Shape'
      /\ Pc' = "reserve" /\ Op' = "preset" /\ transaction'.lair = l /\ transaction'.todo = todo
      /\ Launching' /\ ~ Holding' /\ ~ Early' /\ ~ Written' /\ transaction = Free /\ Coming' = {}
  <2>1. \A i, j \in 1..Len(todo) : i # j => todo[i] # todo[j]
    BY <1>1, <1>2
  <2> QED BY <1>1, <1>2, <2>1, BeginDoes, Zenon DEF Launches
<1>9. Hands' /\ Counts /\ GoneIsDead' /\ Unrivalled'
  BY <1>1, <1>7, <1>8, BeginKeeps DEF Fresh
<1>10. IsDocument(saved') /\ Structured(saved', lairs', leaves')
  BY <1>1, <1>4, <1>6, DocumentFits
<1>11. Types'
  BY <1>1, <1>4, <1>6, <1>8, <1>10 DEF IInv, Types
<1>12. Visible'
  <2>1. At("entry")' = At("entry") /\ ~ Early /\ At("entry") \subseteq Started
    BY <1>1, <1>8, FreeShape DEF At, Started
  <2>2. ASSUME NEW p \in At("entry"), processes[p].alive
        PROVE processes[p].splint \in DOMAIN leaves' /\ leaves'[processes[p].splint].state = "Running"
    <3>1. processes[p].splint \in DOMAIN leaves /\ leaves[processes[p].splint].state = "Running"
      BY <2>1, <2>2 DEF IInv, Visible
    <3>2. processes[p].splint \notin {s, t}
      BY <1>1, <2>1 DEF Fresh
    <3> QED BY <1>1, <1>5, <3>1, <3>2, Zenon
  <2> QED BY <1>1, <1>8, <2>1, <2>2, Zenon DEF Visible
<1>13. Validated'
  BY <1>1, <1>5, <1>7, <1>8, Zenon DEF Validated
<1>14. Leased'
  BY <1>1, <1>4, <1>8, FreeShape DEF IInv, Leased
<1>15. Durable'
  BY <1>8, <1>10 DEF Durable
<1> QED BY <1>8, <1>9, <1>11, <1>12, <1>13, <1>14, <1>15, Zenon DEF IInv

-----------------------------------------------------------------------------
(* The steps of a launch.                                                  *)

(* Leaving the table alone is a way to rehouse. *)
LEMMA Unmoved ==
  ASSUME IsTable(processes), UNCHANGED processes, NEW place
  PROVE Rehoused(processes', processes, {}, place)
BY DEF Rehoused, IsTable

(* With nothing new registered, a launch that is over, or goes on with its *)
(* next leaf, has no rival.                                                *)
LEMMA NextUnrivalled ==
  ASSUME Types, Shape, Launching, Unrivalled, NextLeaf,
         \A p, q \in At("entry")' : processes'[p].splint = processes'[q].splint => p = q,
         \A p \in At("entry")' : processes'[p].splint = Target \/
                                 (p \in At("entry") /\ processes'[p].splint = processes[p].splint)
  PROVE Unrivalled'
<1>1. CASE transaction' = Free
  BY <1>1, FreeShape DEF Unrivalled
<1>2. CASE transaction' # Free
  <2> DEFINE n == Len(transaction.todo)
             m == Len(transaction'.todo)
  <2>1. /\ ~ Holding' /\ Pc' = "reserve" /\ n > 1 /\ Target' = transaction.todo[2]
        /\ m = n - 1 /\ \A i \in 1..m : transaction'.todo[i] = transaction.todo[i + 1]
    BY <1>2, NextLeafDoes
  <2>2. n \in Nat /\ Target = transaction.todo[1]
    BY TargetIsFirst DEF Types, Shape
  <2>3. \A i, j \in 1..n : i # j => transaction.todo[i] # transaction.todo[j]
    BY DEF Shape
  <2>4. \A i \in 2..n : \A p \in At("entry") : processes[p].splint # transaction.todo[i]
    BY DEF Unrivalled
  <2> HIDE DEF n, m
  <2>5. \A i \in 2..n : transaction.todo[i] # Target
    <3> TAKE i \in 2..n
    <3>1. i \in 1..n /\ 1 \in 1..n /\ i # 1
      BY <2>2
    <3> QED BY <2>2, <2>3, <3>1, Zenon
  <2>6. \A i \in 2..n : \A p \in At("entry")' : processes'[p].splint # transaction.todo[i]
    BY <2>4, <2>5
  <2>7. \A p \in At("entry")' : processes'[p].splint # Target'
    <3>1. 2 \in 2..n
      BY <2>1, <2>2
    <3> QED BY <2>1, <2>6, <3>1, Zenon
  <2>8. \A i \in 2..m : \A p \in At("entry")' : processes'[p].splint # transaction'.todo[i]
    <3> TAKE i \in 2..m
    <3>1. i + 1 \in 2..n /\ i \in 1..m
      BY <2>1, <2>2
    <3> QED BY <2>1, <2>6, <3>1
  <2> QED BY <2>1, <2>7, <2>8 DEF Unrivalled, m
<1> QED BY <1>1, <1>2, Zenon

(* A failed launch: its slot and its process are gone, the rest is as if   *)
(* it had not been asked for, but for the failed leaf of a preset.         *)
LEMMA GiveUpKeeps ==
  ASSUME IInv, Launching, ~ Written, GiveUp, UNCHANGED <<lairs, connected, cleaning>>,
         NEW P, Rehoused(processes', processes, P, "retiring"), P \subseteq Owned,
         reserved' = 0, At("held")' = {},
         \A p \in At("entry")' : ~ (Early /\ p = InHand),
         Op = "preset" => \A p \in At("entry") : processes[p].splint # Target
  PROVE IInv' /\ Counts
<1>1. NextLeaf /\ Types /\ Shape
  BY DEF GiveUp, IInv
<1>2. /\ transaction' \in Transaction /\ Shape'
      /\ ~ Holding' /\ ~ Early' /\ ~ Written' /\ Coming' = {} /\ Pc' \in {"free", "reserve"}
      /\ Op' # "relaunch"
  BY <1>1, NextLeafDoes
<1>3. /\ IsLeaves(leaves') /\ DOMAIN leaves' = DOMAIN leaves
      /\ \A x \in DOMAIN leaves : leaves'[x].lair = leaves[x].lair
      /\ \A x \in DOMAIN leaves : x # Target \/ Op # "preset" => leaves'[x] = leaves[x]
      /\ \/ leaves' = leaves /\ saved' = saved
         \/ saved' = Document(lairs, leaves') \/ saved' = saved
  <2>1. IsLeaves(leaves)
    BY <1>1 DEF Types
  <2>2. CASE Op = "preset"
    <3> DEFINE failed == [leaves EXCEPT ![Target] = [@ EXCEPT !.state = "Exited"]]
    <3>1. leaves' = failed /\ (saved' = Document(lairs, failed) \/ saved' = saved)
      BY <2>2 DEF GiveUp, Persist
    <3>2. /\ IsLeaves(failed) /\ DOMAIN failed = DOMAIN leaves
          /\ \A x \in DOMAIN leaves : failed[x].lair = leaves[x].lair
          /\ \A x \in DOMAIN leaves : x # Target => failed[x] = leaves[x]
      BY <2>1, ExitTyped
    <3> HIDE DEF failed
    <3> QED BY <2>2, <3>1, <3>2, Zenon
  <2>3. CASE Op # "preset"
    BY <2>1, <2>3 DEF GiveUp
  <2> QED BY <2>2, <2>3, Zenon
<1>4. IsDocument(saved') /\ Structured(saved', lairs', leaves')
  <2>1. CASE saved' = Document(lairs, leaves')
    BY <1>1, <1>3, <2>1, DocumentFits, Zenon DEF Types
  <2>2. CASE saved' = saved
    <3>1. Structured(saved, lairs, leaves) /\ IsDocument(saved) /\ IsLeaves(leaves)
      BY DEF IInv, Types, Durable
    <3> QED BY <1>3, <2>2, <3>1, SameStructure
  <2> QED BY <1>3, <2>1, <2>2, Zenon
<1>5. /\ IsLeases(leases') /\ DOMAIN leases' = {l \in Lair : lairs'[l] = "transient"}
      /\ \A l \in DOMAIN leases' : l \in DOMAIN leases /\ leases'[l] = leases[l]
  <2>1. leases \in [DOMAIN leases -> Lease] /\ DOMAIN leases \subseteq Lair
    BY <1>1 DEF Types, IsLeases
  <2>2. CASE Op = "create_transient"
    <3>1. leases' = Without(leases, {transaction.lair})
      BY <2>2, Zenon DEF GiveUp
    <3>2. lairs[transaction.lair] = "absent"
      BY <2>2 DEF IInv, Validated
    <3>3. DOMAIN leases = {l \in Lair : lairs[l] = "transient"} \cup {transaction.lair}
      BY <2>2 DEF IInv, Leased, Coming
    <3>4. /\ DOMAIN leases' = DOMAIN leases \ {transaction.lair}
          /\ leases' \in [DOMAIN leases' -> Lease]
          /\ \A l \in DOMAIN leases' : leases'[l] = leases[l]
      BY <2>1, <3>1 DEF Without
    <3> QED BY <2>1, <3>2, <3>3, <3>4 DEF IsLeases
  <2>3. CASE Op # "create_transient"
    BY <1>1, <2>3, Zenon DEF GiveUp, IInv, Leased, Coming, Types
  <2> QED BY <2>2, <2>3, Zenon
<1>6. Types'
  BY <1>2, <1>3, <1>4, <1>5 DEF IInv, Types, Rehoused
<1>7. Hands'
  BY <1>2 DEF Hands
<1>8. Counts
  <2>1. Owned' \subseteq Owned
    BY RehousedOwned
  <2> QED BY <1>2, <2>1 DEF Counts, Shrinks
<1>9. GoneIsDead'
  BY StillDead DEF IInv
<1>10. \A p \in At("entry")' : /\ p \in At("entry") /\ processes'[p].splint = processes[p].splint
                               /\ processes'[p].alive => processes[p].alive
  BY EntriesShrink
<1>11. Unrivalled'
  BY <1>1, <1>10, NextUnrivalled, Zenon DEF IInv, Unrivalled
<1>12. Visible'
  <2>1. ASSUME NEW p \in At("entry")', processes'[p].alive
        PROVE processes'[p].splint \in DOMAIN leaves' /\ leaves'[processes'[p].splint].state = "Running"
    <3>1. /\ p \in At("entry") /\ processes'[p].splint = processes[p].splint /\ processes[p].alive
          /\ ~ (Early /\ p = InHand)
      BY <1>10, <2>1, Zenon
    <3>2. processes[p].splint \in DOMAIN leaves /\ leaves[processes[p].splint].state = "Running"
      BY <3>1, Zenon DEF IInv, Visible
    <3>3. leaves'[processes[p].splint] = leaves[processes[p].splint]
      BY <1>3, <3>1, <3>2
    <3> QED BY <1>3, <3>1, <3>2, <3>3, Zenon
  <2> QED BY <1>2, <2>1 DEF Visible
<1>13. Validated'
  <2>1. CASE transaction' = Free
    BY <2>1, FreeShape DEF Validated
  <2>2. CASE transaction' # Free
    <3>1. /\ Op' = "preset" /\ Op = "preset"
          /\ \A i \in 1..Len(transaction'.todo) : transaction'.todo[i] = transaction.todo[i + 1]
          /\ Len(transaction'.todo) = Len(transaction.todo) - 1
      BY <1>1, <2>2, NextLeafDoes
    <3>2. Len(transaction.todo) \in Nat
      BY <1>1, TargetIsFirst DEF Types, Shape
    <3>3. \A i \in 1..Len(transaction.todo) : transaction.todo[i] \in DOMAIN leaves
      BY <3>1 DEF IInv, Validated
    <3>4. ASSUME NEW i \in 1..Len(transaction'.todo)
          PROVE transaction'.todo[i] \in DOMAIN leaves'
      <4>1. i + 1 \in 1..Len(transaction.todo)
        BY <3>1, <3>2
      <4> QED BY <1>3, <3>1, <3>3, <4>1, Zenon
    <3> QED BY <3>1, <3>4 DEF Validated
  <2> QED BY <2>1, <2>2, Zenon
<1>14. Leased'
  <2>1. \A l \in DOMAIN leases' : leases'[l].owner \in connected' \cup cleaning'
    BY <1>5, Zenon DEF IInv, Leased
  <2>2. \A l, m \in DOMAIN leases' : leases'[l].owner = leases'[m].owner => l = m
    BY <1>5 DEF IInv, Leased
  <2> QED BY <1>2, <1>5, <2>1, <2>2, Zenon DEF Leased
<1>15. Durable'
  BY <1>2, <1>4 DEF Durable
<1> QED BY <1>2, <1>6, <1>7, <1>8, <1>9, <1>11, <1>12, <1>13, <1>14, <1>15, Zenon DEF IInv

(* While a launch goes on, what it was validated for, the leases and the   *)
(* document stay.                                                          *)
LEMMA LaunchGoesOn ==
  ASSUME IInv, Launching, Launching', ~ Written, ~ Written',
         UNCHANGED <<lairs, leaves, saved, connected, cleaning>>,
         Op' = Op, transaction'.lair = transaction.lair, transaction'.retired = transaction.retired,
         transaction'.todo = transaction.todo, Target' = Target,
         DOMAIN leases' = DOMAIN leases,
         \A l \in DOMAIN leases : leases'[l].owner = leases[l].owner
  PROVE Validated' /\ Leased' /\ Durable'
<1>1. Validated'
  <2>1. FullyExited(transaction.retired)' = FullyExited(transaction.retired)
    BY DEF FullyExited, LeavesOf
  <2> QED BY <2>1 DEF IInv, Validated
<1>2. Coming' = Coming
  BY DEF Coming
<1>3. Leased'
  BY <1>2, Zenon DEF IInv, Leased
<1>4. Durable'
  BY DEF IInv, Durable
<1> QED BY <1>1, <1>3, <1>4, Zenon

(* ReserveSlot. *)
LEMMA ReserveKeeps ==
  ASSUME IInv, ReserveSlot
  PROVE IInv' /\ Counts
<1> DEFINE own == IF Op = "relaunch" THEN EntryOf(Target) ELSE {}
<1>1. /\ Pc = "reserve" /\ Launching /\ ~ Written /\ ~ Holding /\ ~ Early
      /\ UNCHANGED <<lairs, connected, cleaning>>
      /\ Types /\ Shape /\ transaction \in Transaction /\ IsTable(processes)
  BY DEF ReserveSlot, Pc, Launching, Written, Holding, Early, IInv, Types
<1>2. reserved = 0 /\ At("held") = {}
  BY <1>1 DEF IInv, Hands
<1>3. CASE AtCapacity(Cardinality(own))
  <2>1. GiveUp /\ UNCHANGED <<reserved, processes>>
    BY <1>3 DEF ReserveSlot
  <2>2. Rehoused(processes', processes, {}, "retiring")
    BY <1>1, <2>1, Unmoved
  <2>3. At("held")' = {}
    BY <1>2, <2>1 DEF At, Started
  <2>4. Op = "preset" => \A p \in At("entry") : processes[p].splint # Target
    BY <1>1 DEF IInv, Unrivalled
  <2> QED BY <1>1, <1>2, <2>1, <2>2, <2>3, <2>4, GiveUpKeeps
<1>4. CASE ~ AtCapacity(Cardinality(own))
  <2>1. /\ reserved' = reserved + 1 /\ processes' = Moved(own, "gone") /\ Goto("spawn")
        /\ UNCHANGED <<leaves, saved, leases>>
    BY <1>4 DEF ReserveSlot
  <2>2. own \subseteq At("entry")
    BY DEF EntryOf
  <2>3. \A p \in own : processes[p].splint = Target /\ ~ processes[p].alive
    <3>1. CASE Op = "relaunch"
      <4>1. Target \in DOMAIN leaves /\ leaves[Target].state = "Exited"
        BY <1>1, <3>1 DEF IInv, Visible
      <4> QED BY <1>1, <3>1, <4>1 DEF IInv, Visible, EntryOf
    <3>2. CASE Op # "relaunch"
      BY <3>2
    <3> QED BY <3>1, <3>2, Zenon
  <2>4. \A p \in At("entry") \ own : processes[p].splint # Target
    <3>1. CASE Op = "relaunch"
      BY <3>1 DEF EntryOf
    <3>2. CASE Op # "relaunch"
      BY <1>1, <3>2 DEF IInv, Unrivalled
    <3> QED BY <3>1, <3>2, Zenon
  <2> HIDE DEF own
  <2>6. Rehoused(processes', processes, own, "gone")
    BY <1>1, <2>1, MovedTable DEF Places
  <2>7. /\ transaction' \in Transaction /\ Pc' = "spawn" /\ Op' = Op /\ transaction'.lair = transaction.lair
        /\ transaction'.retired = transaction.retired /\ transaction'.todo = transaction.todo
        /\ transaction'.promote = transaction.promote /\ Target' = Target
    BY <1>1, <2>1, GotoDoes DEF Steps
  <2>8. Launching' /\ ~ Holding' /\ ~ Early' /\ ~ Written'
    BY <2>7, Zenon DEF Launching, Holding, Early, Written
  <2>9. Shape'
    BY <1>1, <2>7, <2>8 DEF Shape, Launching
  <2>10. Types'
    <3>1. IsTable(processes') /\ reserved' \in Nat
      BY <1>2, <2>1, <2>6 DEF Rehoused
    <3> QED BY <1>1, <2>1, <2>7, <3>1, Zenon DEF Types
  <2>11. At("held")' = {} /\ At("entry")' = At("entry") \ own
    BY <1>2, <2>6, RehousedAt
  <2>12. Hands'
    BY <1>2, <2>1, <2>7, <2>8, <2>11 DEF Hands
  <2>13. Counts
    <3>1. Owned' = Owned \ own
      BY <2>6, RehousedOwned
    <3>2. Reserves
      BY <1>2, <1>4, <2>2, <3>1, Zenon DEF Reserves
    <3> QED BY <3>2 DEF Counts
  <2>14. \A p \in At("entry")' : /\ p \in At("entry") /\ processes'[p].splint = processes[p].splint
                                 /\ processes'[p].alive => processes[p].alive
    BY <2>6, EntriesShrink
  <2>15. GoneIsDead'
    <3>1. \A p \in own \cap Started' : ~ processes'[p].alive
      BY <2>3, <2>6 DEF Rehoused, Started
    <3> QED BY <2>6, <3>1, StillDead, Zenon DEF IInv
  <2>16. Unrivalled'
    <3>1. \A p, q \in At("entry")' : processes'[p].splint = processes'[q].splint => p = q
      BY <2>14 DEF IInv, Unrivalled
    <3>2. \A p \in At("entry")' : processes'[p].splint # Target'
      BY <2>4, <2>7, <2>11, <2>14, Zenon
    <3>3. \A i \in 2..Len(transaction'.todo) :
            \A p \in At("entry")' : processes'[p].splint # transaction'.todo[i]
      BY <1>1, <2>7, <2>14, Zenon DEF IInv, Unrivalled
    <3> QED BY <3>1, <3>2, <3>3 DEF Unrivalled
  <2>17. Visible'
    BY <1>1, <2>1, <2>7, <2>14 DEF IInv, Visible
  <2>18. Validated' /\ Leased' /\ Durable'
    BY <1>1, <2>1, <2>7, <2>8, LaunchGoesOn
  <2> QED BY <2>9, <2>10, <2>12, <2>13, <2>15, <2>16, <2>17, <2>18, Zenon DEF IInv
<1> QED BY <1>3, <1>4, Zenon

(* SpawnRuntime: the slot becomes a process in hand. *)
LEMMA SpawnKeeps ==
  ASSUME IInv, SpawnRuntime
  PROVE IInv' /\ Counts
<1>1. /\ Pc = "spawn" /\ Launching /\ ~ Written /\ ~ Holding /\ ~ Early
      /\ UNCHANGED <<lairs, connected, cleaning>>
      /\ Types /\ Shape /\ transaction \in Transaction /\ IsTable(processes)
  BY Zenon DEF SpawnRuntime, Pc, Launching, Written, Holding, Early, IInv, Types
<1>2. reserved = 1 /\ At("held") = {}
  BY <1>1 DEF IInv, Hands
<1>3. \A p \in At("entry") : processes[p].splint # Target
  BY <1>1 DEF IInv, Unrivalled
<1>4. CASE GiveUp /\ reserved' = reserved - 1 /\ UNCHANGED processes
  <2>1. Rehoused(processes', processes, {}, "retiring")
    BY <1>1, <1>4, Unmoved
  <2>2. At("held")' = {}
    BY <1>2, <1>4 DEF At, Started
  <2> QED BY <1>1, <1>2, <1>3, <1>4, <2>1, <2>2, GiveUpKeeps
<1>5. ASSUME NEW p \in Process \ Started,
             processes' = Put(processes, p, [splint |-> Target, place |-> "held", alive |-> TRUE,
                                             watched |-> FALSE, killed |-> FALSE]),
             leases' = IF Op = "create_transient"
                       THEN [leases EXCEPT ![transaction.lair] = [@ EXCEPT !.incarnation = p]]
                       ELSE leases,
             transaction' = [transaction EXCEPT !.pc = AfterSpawn, !.process = p],
             UNCHANGED <<leaves, saved, reserved>>
      PROVE IInv' /\ Counts
  <2> DEFINE new == [splint |-> Target, place |-> "held", alive |-> TRUE, watched |-> FALSE, killed |-> FALSE]
  <2>1. Target \in Splint /\ Op \in Launches
    BY <1>1, TargetIsFirst DEF Shape
  <2>2. new \in Runtime /\ new.splint = Target /\ new.place = "held"
    BY <2>1 DEF Runtime
  <2> HIDE DEF new
  <2>3. /\ Started' = Started \cup {p} /\ processes' \in [Started \cup {p} -> Runtime]
        /\ processes'[p] = new
        /\ \A q \in Started : processes'[q] = processes[q]
    BY <1>1, <1>5, <2>2 DEF Put, IsTable, Started, new
  <2>4. IsTable(processes')
    BY <1>1, <2>3 DEF IsTable, Started
  <2>5. /\ At("held")' = {p} /\ At("entry")' = At("entry") /\ At("gone")' = At("gone")
        /\ Owned' = Owned \cup {p} /\ p \notin Owned
    BY <1>2, <2>2, <2>3 DEF At, Owned
  <2>6. AfterSpawn \in Steps /\ AfterSpawn \in {"insert", "admit", "persist"}
    BY DEF AfterSpawn, Steps
  <2>7. /\ Op = "create_lair" <=> AfterSpawn = "insert"
        /\ Op = "create_transient" <=> AfterSpawn = "admit"
    BY DEF AfterSpawn
  <2>8. /\ transaction' \in Transaction /\ Pc' = AfterSpawn /\ Op' = Op
        /\ transaction'.lair = transaction.lair /\ transaction'.retired = transaction.retired
        /\ transaction'.todo = transaction.todo /\ transaction'.promote = transaction.promote
        /\ Target' = Target /\ InHand' = p
    <3>1. transaction' \in Transaction
      BY <1>1, <1>5, <2>6, Zenon DEF Transaction
    <3> QED BY <1>1, <1>5, <2>6, <3>1 DEF Transaction, Pc, Op, Target, InHand
  <2>9. Launching' /\ Holding' /\ ~ Early' /\ ~ Written'
    BY <2>6, <2>7, <2>8 DEF Launching, Holding, Early, Written
  <2>10. Shape'
    <3>1. Pc' # "free" /\ Pc' # "install" /\ Pc' # "observe" /\ Pc' # "shutdown"
      BY <2>6, <2>8
    <3>2. /\ Pc' = "insert" => Op' = "create_lair"
          /\ Pc' = "admit" => Op' # "create_lair"
          /\ Pc' = "persist" => Op' # "create_transient"
      BY <2>7, <2>8
    <3>3. Op' \in Launches /\ transaction'.todo # << >> /\ transaction'.lair \in Lair
      BY <1>1, <2>8 DEF Shape
    <3>4. /\ transaction'.retired # NoLair => Op' = "create_lair"
          /\ transaction'.promote => Op' = "new_dojo"
          /\ \A i, j \in 1..Len(transaction'.todo) : i # j => transaction'.todo[i] # transaction'.todo[j]
      BY <1>1, <2>8 DEF Shape
    <3> QED BY <3>1, <3>2, <3>3, <3>4 DEF Shape
  <2>11. /\ IsLeases(leases') /\ DOMAIN leases' = DOMAIN leases
         /\ \A l \in DOMAIN leases : leases'[l].owner = leases[l].owner
    <3>1. leases \in [DOMAIN leases -> Lease] /\ DOMAIN leases \subseteq Lair
      BY <1>1 DEF Types, IsLeases
    <3>2. CASE Op = "create_transient"
      <4>1. transaction.lair \in DOMAIN leases
        BY <1>1, <3>2 DEF IInv, Validated
      <4>2. leases' = [leases EXCEPT ![transaction.lair] = [leases[transaction.lair] EXCEPT !.incarnation = p]]
        BY <1>5, <3>2
      <4>3. /\ [leases[transaction.lair] EXCEPT !.incarnation = p] \in Lease
            /\ [leases[transaction.lair] EXCEPT !.incarnation = p].owner = leases[transaction.lair].owner
        BY <3>1, <4>1 DEF Lease
      <4> QED BY <3>1, <4>1, <4>2, <4>3, Zenon DEF IsLeases
    <3>3. CASE Op # "create_transient"
      BY <1>5, <3>1, <3>3 DEF IsLeases
    <3> QED BY <3>2, <3>3, Zenon
  <2>12. Types'
    BY <1>1, <1>5, <2>4, <2>8, <2>11 DEF Types
  <2>13. Hands'
    <3>1. reserved' = 1 /\ Pc' # "observe"
      BY <1>2, <1>5, <2>6, <2>8
    <3>2. At("held")' = {InHand'} /\ processes'[InHand'].splint = Target'
      BY <2>2, <2>3, <2>5, <2>8
    <3> QED BY <2>9, <3>1, <3>2 DEF Hands
  <2>14. Counts
    <3>1. Spawns
      BY <1>1, <2>5, <2>6, <2>8 DEF Spawns
    <3> QED BY <3>1 DEF Counts
  <2>15. GoneIsDead'
    BY <2>3, <2>5, Zenon DEF IInv, GoneIsDead, At
  <2>16. Unrivalled'
    <3>1. \A q \in At("entry") : processes'[q] = processes[q]
      BY <2>3 DEF At
    <3> QED BY <1>1, <1>3, <2>5, <2>8, <3>1 DEF IInv, Unrivalled
  <2>17. Visible'
    <3>1. \A q \in At("entry") : processes'[q] = processes[q]
      BY <2>3 DEF At
    <3>2. Pc' # "reserve"
      BY <2>6, <2>8
    <3> QED BY <1>1, <1>5, <2>5, <3>1, <3>2, Zenon DEF IInv, Visible
  <2>18. Validated' /\ Leased' /\ Durable'
    BY <1>1, <1>5, <2>8, <2>9, <2>11, LaunchGoesOn
  <2> QED BY <2>10, <2>12, <2>13, <2>14, <2>15, <2>16, <2>17, <2>18, Zenon DEF IInv
<1> QED BY <1>1, <1>4, <1>5, Zenon DEF SpawnRuntime

(* InsertFirst: create_lair registers its process before the write. *)
LEMMA InsertKeeps ==
  ASSUME IInv, InsertFirst
  PROVE IInv' /\ Counts
<1>1. /\ Pc = "insert" /\ Op = "create_lair" /\ Launching /\ ~ Written /\ Holding /\ ~ Early
      /\ processes' = Moved({InHand}, "entry") /\ reserved' = reserved - 1 /\ Goto("persist")
      /\ UNCHANGED <<lairs, leaves, saved, leases, connected, cleaning>>
      /\ Types /\ Shape /\ transaction \in Transaction /\ IsTable(processes)
  BY Zenon DEF InsertFirst, Pc, Op, Launching, Written, Holding, Early, IInv, Types, Shape
<1>2. /\ reserved = 1 /\ At("held") = {InHand} /\ InHand \in Started
      /\ processes[InHand].splint = Target /\ InHand \in Owned
  BY <1>1, Zenon DEF IInv, Hands, At, Owned
<1>3. \A p \in At("entry") : processes[p].splint # Target
  BY <1>1, Zenon DEF IInv, Unrivalled
<1>4. Rehoused(processes', processes, {InHand}, "entry")
  BY <1>1, MovedTable DEF Places
<1>5. /\ transaction' \in Transaction /\ Pc' = "persist" /\ Op' = Op /\ transaction'.lair = transaction.lair
      /\ transaction'.retired = transaction.retired /\ transaction'.todo = transaction.todo
      /\ transaction'.promote = transaction.promote /\ Target' = Target /\ InHand' = InHand
  BY <1>1, GotoDoes DEF Steps
<1>6. Launching' /\ ~ Holding' /\ Early' /\ ~ Written'
  BY <1>1, <1>5, Zenon DEF Launching, Holding, Early, Written
<1>7. Shape'
  BY <1>1, <1>5, <1>6 DEF Shape, Launching
<1>8. Types'
  <2>1. IsTable(processes') /\ reserved' \in Nat
    BY <1>1, <1>2, <1>4 DEF Rehoused
  <2> QED BY <1>1, <1>5, <2>1, Zenon DEF Types
<1>9. At("held")' = {} /\ At("entry")' = At("entry") \cup {InHand}
  BY <1>2, <1>4, RehousedAt
<1>10. \A p \in At("entry")' : processes'[p].splint = processes[p].splint /\ (processes'[p].alive => processes[p].alive)
  BY <1>4 DEF Rehoused, At, Started
<1>11. Hands'
  <2>1. reserved' = 0 /\ Pc' # "observe" /\ Pc' # "spawn"
    BY <1>1, <1>2, <1>5
  <2>2. InHand' \in At("entry")'
    BY <1>5, <1>9, Zenon
  <2>3. processes'[InHand'].splint = Target'
    BY <1>2, <1>5, <1>10, <2>2
  <2> QED BY <1>6, <1>9, <2>1, <2>2, <2>3 DEF Hands
<1>12. Counts
  <2>1. Owned' \subseteq Owned
    BY <1>2, <1>4, RehousedOwned
  <2> QED BY <1>1, <1>5, <2>1 DEF Counts, Shrinks
<1>13. GoneIsDead'
  BY <1>4, StillDead, Zenon DEF IInv
<1>14. Unrivalled'
  <2>1. \A p, q \in At("entry")' : processes'[p].splint = processes'[q].splint => p = q
    BY <1>2, <1>3, <1>9, <1>10 DEF IInv, Unrivalled
  <2>2. \A i \in 2..Len(transaction.todo) : transaction.todo[i] # Target
    <3>1. Target = transaction.todo[1] /\ Len(transaction.todo) \in Nat
      BY <1>1, TargetIsFirst DEF Shape
    <3>2. \A i \in 2..Len(transaction.todo) :
            i \in 1..Len(transaction.todo) /\ 1 \in 1..Len(transaction.todo) /\ i # 1
      BY <3>1
    <3> QED BY <1>1, <3>1, <3>2, Zenon DEF Shape
  <2>3. \A i \in 2..Len(transaction'.todo) :
          \A p \in At("entry")' : processes'[p].splint # transaction'.todo[i]
    <3>1. \A i \in 2..Len(transaction.todo) :
            \A p \in At("entry") : processes[p].splint # transaction.todo[i]
      BY <1>1 DEF IInv, Unrivalled
    <3>2. \A p \in At("entry")' : p \in At("entry") \/ processes'[p].splint = Target
      BY <1>2, <1>9, <1>10
    <3> QED BY <1>5, <1>10, <2>2, <3>1, <3>2, Zenon
  <2> QED BY <1>5, <1>6, <2>1, <2>3, Zenon DEF Unrivalled
<1>15. Visible'
  BY <1>1, <1>5, <1>6, <1>9, <1>10, Zenon DEF IInv, Visible
<1>16. Validated' /\ Leased' /\ Durable'
  BY <1>1, <1>5, <1>6, LaunchGoesOn
<1> QED BY <1>7, <1>8, <1>11, <1>12, <1>13, <1>14, <1>15, <1>16, Zenon DEF IInv

(* A write changes how far the launch got and nothing it relies on. *)
LEMMA SameCandidate ==
  ASSUME UNCHANGED <<lairs, leaves>>, Op' = Op, transaction'.lair = transaction.lair,
         transaction'.retired = transaction.retired, transaction'.promote = transaction.promote,
         Target' = Target
  PROVE CandidateLairs' = CandidateLairs /\ CandidateLeaves' = CandidateLeaves
<1>1. CandidateLairs' = CandidateLairs
  BY DEF CandidateLairs
<1>2. CandidateLeaves' = CandidateLeaves
  BY DEF CandidateLeaves, LeavesOf, Without, Put
<1> QED BY <1>1, <1>2, Zenon

(* PersistLaunch: the document is ahead of the topology until the launch   *)
(* is installed, or the launch is given up and its process retired.        *)
LEMMA PersistKeeps ==
  ASSUME IInv, PersistLaunch
  PROVE IInv' /\ Counts
<1>1. /\ Pc = "persist" /\ Op # "create_transient" /\ Launching /\ ~ Written
      /\ UNCHANGED <<lairs, connected, cleaning>>
      /\ Types /\ Shape /\ transaction \in Transaction /\ IsTable(processes)
      /\ Holding <=> Op # "create_lair"
      /\ Early <=> Op = "create_lair"
  BY Zenon DEF PersistLaunch, Pc, Op, Launching, Written, Holding, Early, IInv, Types, Shape
<1>2. /\ reserved = IF Op = "create_lair" THEN 0 ELSE 1
      /\ At("held") \subseteq {InHand} /\ InHand \in Owned
  BY <1>1, Zenon DEF IInv, Hands, At, Owned
<1>3. CASE /\ GiveUp /\ processes' = Moved({InHand}, "retiring")
           /\ reserved' = IF Op = "create_lair" THEN reserved ELSE reserved - 1
  <2>1. Rehoused(processes', processes, {InHand}, "retiring")
    BY <1>1, <1>3, MovedTable DEF Places
  <2>2. At("held")' = {} /\ At("entry")' = At("entry") \ {InHand}
    BY <1>2, <2>1, RehousedAt
  <2>3. Op = "preset" => \A p \in At("entry") : processes[p].splint # Target
    BY <1>1 DEF IInv, Unrivalled
  <2>4. reserved' = 0
    BY <1>2, <1>3
  <2> QED BY <1>1, <1>2, <1>3, <2>1, <2>2, <2>3, <2>4, GiveUpKeeps
<1>4. CASE /\ Persist(CandidateLairs, CandidateLeaves)
           /\ Goto(IF Op = "create_lair" THEN "install" ELSE "admit")
           /\ UNCHANGED <<leaves, processes, reserved, leases>>
  <2>1. /\ transaction' \in Transaction /\ Pc' = (IF Op = "create_lair" THEN "install" ELSE "admit")
        /\ Op' = Op /\ transaction'.lair = transaction.lair
        /\ transaction'.retired = transaction.retired /\ transaction'.todo = transaction.todo
        /\ transaction'.promote = transaction.promote /\ Target' = Target /\ InHand' = InHand
    BY <1>1, <1>4, GotoDoes DEF Steps
  <2>2. Launching' /\ (Holding' <=> Holding) /\ (Early' <=> Early) /\ Written'
    BY <1>1, <2>1, Zenon DEF Launching, Holding, Early, Written
  <2>3. IsDocument(saved') /\ Structured(saved', CandidateLairs, CandidateLeaves)
    BY <1>1, <1>4, CandidateFits, DocumentFits DEF Persist
  <2>4. Types'
    BY <1>1, <1>4, <2>1, <2>3, Zenon DEF Types
  <2>5. Shape'
    BY <1>1, <2>1, <2>2 DEF Shape
  <2>6. \A q : At(q)' = At(q)
    BY <1>4, Zenon DEF At, Started
  <2>7. Hands'
    BY <1>1, <1>4, <2>1, <2>2, <2>6 DEF IInv, Hands
  <2>8. Counts
    <3>1. Owned' \subseteq Owned
      BY <1>4 DEF Owned, Started
    <3> QED BY <1>1, <2>1, <3>1 DEF Counts, Shrinks
  <2>9. GoneIsDead'
    BY <1>4, <2>6, Zenon DEF IInv, GoneIsDead
  <2>10. Unrivalled'
    BY <1>1, <1>4, <2>1, <2>2, <2>6 DEF IInv, Unrivalled
  <2>11. Visible'
    BY <1>4, <2>1, <2>2, <2>6, Zenon DEF IInv, Visible
  <2>12. Validated' /\ Leased'
    <3>1. FullyExited(transaction.retired)' = FullyExited(transaction.retired)
      BY <1>4, <2>1 DEF FullyExited, LeavesOf
    <3>2. Coming' = Coming
      BY <1>1, <2>1, <2>2 DEF Coming
    <3> QED BY <1>1, <1>4, <2>1, <2>2, <3>1, <3>2, Zenon DEF IInv, Validated, Leased
  <2>13. Durable'
    BY <1>1, <1>4, <2>1, <2>2, <2>3, SameCandidate DEF Durable
  <2> QED BY <2>4, <2>5, <2>7, <2>8, <2>9, <2>10, <2>11, <2>12, <2>13, Zenon DEF IInv
<1> QED BY <1>1, <1>3, <1>4 DEF PersistLaunch

(* A change to a rehoused process that leaves it where it is. *)
LEMMA Retouched ==
  ASSUME NEW ps, NEW T, NEW P, NEW place, Rehoused(T, ps, P, place), NEW p \in DOMAIN T,
         NEW r \in Runtime, r.splint = T[p].splint, r.alive => T[p].alive, r.place = T[p].place
  PROVE Rehoused([T EXCEPT ![p] = r], ps, P, place)
<1> DEFINE U == [T EXCEPT ![p] = r]
<1>1. IsTable(T)
  BY DEF Rehoused
<1>2. /\ DOMAIN U = DOMAIN T /\ U[p] = r
      /\ \A q \in DOMAIN T : q # p => U[q] = T[q]
  BY <1>1 DEF IsTable
<1>3. IsTable(U)
  BY <1>1, Zenon DEF IsTable
<1> HIDE DEF U
<1>4. \A q \in DOMAIN T : U[q].splint = T[q].splint /\ (U[q].alive => T[q].alive) /\ U[q].place = T[q].place
  BY <1>2, Zenon
<1>5. Rehoused(U, ps, P, place)
  BY <1>2, <1>3, <1>4 DEF Rehoused
<1> QED BY <1>5 DEF U

(* What an installation does to the registry: the process in hand is the   *)
(* one registered for its Splint.                                          *)
LEMMA InstallRegisters ==
  ASSUME IInv, Install
  PROVE /\ Rehoused(processes', processes, {InHand}, "entry") /\ reserved' = 0
        /\ At("held")' = {} /\ At("entry")' = At("entry") \cup {InHand}
        /\ InHand \in Owned /\ processes[InHand].splint = Target
        /\ \A p \in At("entry")' : /\ processes'[p].splint = processes[p].splint
                                   /\ processes'[p].alive => processes[p].alive
        /\ \A p \in At("entry") \ {InHand} : processes[p].splint # Target
<1>1. /\ Pc \in {"install", "admit"} /\ Launching /\ IsTable(processes)
      /\ Pc = "install" => Early /\ ~ Holding /\ Op = "create_lair"
      /\ Pc = "admit" => Holding /\ ~ Early /\ Op # "create_lair"
      /\ reserved' = IF Op = "create_lair" THEN reserved ELSE reserved - 1
  BY Zenon DEF Install, Pc, Op, Launching, Holding, Early, IInv, Types, Shape
<1>2. /\ reserved = IF Op = "create_lair" THEN 0 ELSE 1
      /\ At("held") \subseteq {InHand} /\ InHand \in Owned /\ InHand \in Started
      /\ processes[InHand].splint = Target
  BY <1>1 DEF IInv, Hands, At, Owned
<1>3. reserved' = 0
  BY <1>1, <1>2
<1> DEFINE T == Moved({InHand}, "entry")
           r == [T[InHand] EXCEPT !.watched = Op # "create_transient"]
<1>4. processes' = [T EXCEPT ![InHand] = r]
  BY DEF Install
<1>5. Rehoused(T, processes, {InHand}, "entry")
  BY <1>1, MovedTable DEF Places
<1>6. InHand \in DOMAIN T /\ T[InHand] \in Runtime
  BY <1>2, <1>5, Zenon DEF Rehoused, Started, IsTable
<1> HIDE DEF T
<1>7. /\ r \in Runtime /\ r.splint = T[InHand].splint /\ r.alive = T[InHand].alive
      /\ r.place = T[InHand].place
  BY <1>6, Zenon DEF Runtime
<1> HIDE DEF r
<1>8. Rehoused(processes', processes, {InHand}, "entry")
  BY <1>4, <1>5, <1>6, <1>7, Retouched, Zenon
<1>9. At("held")' = {} /\ At("entry")' = At("entry") \cup {InHand}
  BY <1>2, <1>8, RehousedAt
<1>10. \A p \in At("entry")' : /\ processes'[p].splint = processes[p].splint
                               /\ processes'[p].alive => processes[p].alive
  BY <1>8 DEF Rehoused, At, Started
<1>11. \A p \in At("entry") \ {InHand} : processes[p].splint # Target
  <2>1. CASE Pc = "install"
    <3>1. InHand \in At("entry")
      BY <1>1, <2>1, Zenon DEF IInv, Hands
    <3> QED BY <1>2, <3>1 DEF IInv, Unrivalled
  <2>2. CASE Pc = "admit"
    BY <1>1, <2>2 DEF IInv, Unrivalled
  <2> QED BY <1>1, <2>1, <2>2, Zenon
<1> QED BY <1>2, <1>3, <1>8, <1>9, <1>10, <1>11, Zenon

(* What is transient and what is leased after an installation. *)
LEMMA InstallLeases ==
  ASSUME IInv, Install
  PROVE /\ IsLeases(leases') /\ DOMAIN leases' = {l \in Lair : lairs'[l] = "transient"}
        /\ \A l \in DOMAIN leases' : l \in DOMAIN leases /\ leases'[l] = leases[l]
<1>1. /\ Pc \in {"install", "admit"} /\ Launching /\ transaction.lair \in Lair /\ Shape
      /\ lairs' = CandidateLairs
      /\ leases' = IF transaction.promote THEN Without(leases, {transaction.lair}) ELSE leases
  BY DEF Install, Pc, Launching, IInv, Shape
<1>2. /\ leases \in [DOMAIN leases -> Lease] /\ DOMAIN leases \subseteq Lair /\ IsLeases(leases)
      /\ lairs \in [Lair -> Retention]
      /\ DOMAIN leases = {l \in Lair : lairs[l] = "transient"} \cup Coming
  BY DEF IInv, Types, IsLeases, Leased
<1>3. CASE Op = "create_lair"
  <2>1. /\ ~ transaction.promote /\ Coming = {} /\ lairs[transaction.lair] = "absent"
        /\ transaction.retired \in Lair => lairs[transaction.retired] = "disposable"
    BY <1>1, <1>3 DEF Shape, Coming, IInv, Validated
  <2>2. lairs' = [m \in Lair |-> CASE m = transaction.lair -> "disposable"
                                   [] m = transaction.retired -> "absent"
                                   [] OTHER -> lairs[m]]
    BY <1>1, <1>3, <2>1 DEF CandidateLairs
  <2>3. \A m \in Lair : lairs'[m] = "transient" <=> lairs[m] = "transient"
    BY <2>1, <2>2
  <2> QED BY <1>1, <1>2, <2>1, <2>3, Zenon
<1>4. CASE Op = "create_transient"
  <2>1. ~ transaction.promote /\ Coming = {transaction.lair}
    BY <1>1, <1>4 DEF Shape, Coming
  <2>2. lairs' = [lairs EXCEPT ![transaction.lair] = "transient"]
    BY <1>1, <1>4, <2>1 DEF CandidateLairs
  <2> QED BY <1>1, <1>2, <2>1, <2>2, Zenon
<1>5. CASE transaction.promote
  <2>1. Op = "new_dojo" /\ Coming = {}
    BY <1>1, <1>5 DEF Shape, Coming
  <2>2. lairs' = [lairs EXCEPT ![transaction.lair] = "disposable"]
    BY <1>1, <1>5, <2>1 DEF CandidateLairs
  <2>3. leases' = Without(leases, {transaction.lair})
    BY <1>1, <1>5
  <2>4. /\ DOMAIN leases' = DOMAIN leases \ {transaction.lair}
        /\ leases' \in [DOMAIN leases' -> Lease]
        /\ \A l \in DOMAIN leases' : leases'[l] = leases[l]
    BY <1>2, <2>3 DEF Without
  <2> QED BY <1>1, <1>2, <2>1, <2>2, <2>4 DEF IsLeases
<1>6. CASE Op # "create_lair" /\ Op # "create_transient" /\ ~ transaction.promote
  <2>1. lairs' = lairs /\ leases' = leases /\ Coming = {}
    BY <1>1, <1>6 DEF CandidateLairs, Coming
  <2> QED BY <1>2, <2>1, Zenon
<1> QED BY <1>3, <1>4, <1>5, <1>6, Zenon

(* What an installation does to the topology. *)
LEMMA InstallTopology ==
  ASSUME IInv, Install
  PROVE /\ lairs' \in [Lair -> Retention] /\ IsLeaves(leaves')
        /\ DOMAIN leaves' = (DOMAIN leaves \ LeavesOf(leaves, transaction.retired)) \cup {Target}
        /\ leaves'[Target] = [lair |-> transaction.lair, state |-> "Running"]
        /\ \A s \in DOMAIN leaves \ LeavesOf(leaves, transaction.retired) :
             s # Target => leaves'[s] = leaves[s]
        /\ \A s \in LeavesOf(leaves, transaction.retired) : leaves[s].state = "Exited"
        /\ Op # "create_lair" => LeavesOf(leaves, transaction.retired) = {}
        /\ Structured(saved, lairs', leaves')
<1>1. /\ Pc \in {"install", "admit"} /\ Launching /\ Shape /\ Types /\ IsLeaves(leaves)
      /\ lairs' = CandidateLairs /\ leaves' = CandidateLeaves
  BY DEF Install, Pc, Launching, IInv, Types
<1>2. /\ lairs' \in [Lair -> Retention] /\ IsLeaves(leaves')
      /\ DOMAIN leaves' = (DOMAIN leaves \ LeavesOf(leaves, transaction.retired)) \cup {Target}
      /\ leaves'[Target] = [lair |-> transaction.lair, state |-> "Running"]
      /\ \A s \in DOMAIN leaves \ LeavesOf(leaves, transaction.retired) :
           s # Target => leaves'[s] = leaves[s]
  BY <1>1, CandidateFits, Zenon
<1>3. Op # "create_lair" => LeavesOf(leaves, transaction.retired) = {}
  BY <1>1, NoLairIsEmpty, Zenon DEF Shape
<1>4. \A s \in LeavesOf(leaves, transaction.retired) : leaves[s].state = "Exited"
  <2>1. CASE transaction.retired \in Lair
    <3>1. Op = "create_lair"
      BY <1>1, <2>1, LaunchAssumption, Zenon DEF Shape
    <3> QED BY <1>1, <2>1, <3>1 DEF IInv, Validated, FullyExited
  <2>2. CASE transaction.retired = NoLair
    BY <1>1, <2>2, NoLairIsEmpty
  <2> QED BY <1>1, <2>1, <2>2, Zenon DEF Types, Transaction
<1>5. Structured(saved, lairs', leaves')
  <2>1. CASE Written
    BY <1>1, <2>1 DEF IInv, Durable
  <2>2. CASE ~ Written
    <3>1. /\ Op = "create_transient" /\ Structured(saved, lairs, leaves)
          /\ lairs[transaction.lair] = "absent" /\ Target \notin DOMAIN leaves /\ transaction.lair \in Lair
      BY <1>1, <2>2 DEF IInv, Durable, Written, Validated, Shape
    <3>2. lairs' = [lairs EXCEPT ![transaction.lair] = "transient"]
      BY <1>1, <3>1 DEF CandidateLairs, Shape
    <3>3. lairs \in [Lair -> Retention]
      BY <1>1 DEF Types
    <3>4. \A l \in Lair : lairs'[l] \in Persistent <=> lairs[l] \in Persistent
      BY <3>1, <3>2, <3>3 DEF Persistent
    <3>5. lairs'[leaves'[Target].lair] = "transient"
      <4>1. leaves'[Target] = [lair |-> transaction.lair, state |-> "Running"]
        BY <1>2, Zenon
      <4>2. leaves'[Target].lair = transaction.lair
        BY <4>1
      <4> QED BY <3>1, <3>2, <3>3, <4>2, Zenon
    <3>6. \A s \in DOMAIN leaves : s \in DOMAIN leaves' /\ leaves'[s] = leaves[s]
      BY <1>2, <1>3, <3>1, Zenon
    <3>7. \A s \in DOMAIN leaves' : lairs'[leaves'[s].lair] \in Persistent =>
            s \in DOMAIN leaves /\ leaves'[s].lair = leaves[s].lair
      BY <1>2, <3>5, <3>6 DEF Persistent
    <3> QED BY <1>1, <1>2, <3>1, <3>4, <3>6, <3>7, SameStructure, Zenon
  <2> QED BY <2>1, <2>2, Zenon
<1> QED BY <1>2, <1>3, <1>4, <1>5, Zenon

(* Install. *)
LEMMA InstallKeeps ==
  ASSUME IInv, Install
  PROVE IInv' /\ Counts
<1>1. /\ Launching /\ Shape /\ Types /\ transaction \in Transaction
      /\ UNCHANGED <<saved, connected, cleaning>>
      /\ IF Op = "create_transient" THEN Goto("observe") ELSE NextLeaf
  BY Zenon DEF Install, Pc, Launching, IInv, Types
<1>2. /\ Rehoused(processes', processes, {InHand}, "entry") /\ reserved' = 0
      /\ At("held")' = {} /\ At("entry")' = At("entry") \cup {InHand}
      /\ InHand \in Owned /\ processes[InHand].splint = Target
      /\ \A p \in At("entry")' : /\ processes'[p].splint = processes[p].splint
                                 /\ processes'[p].alive => processes[p].alive
      /\ \A p \in At("entry") \ {InHand} : processes[p].splint # Target
  BY InstallRegisters
<1>3. /\ lairs' \in [Lair -> Retention] /\ IsLeaves(leaves')
      /\ DOMAIN leaves' = (DOMAIN leaves \ LeavesOf(leaves, transaction.retired)) \cup {Target}
      /\ leaves'[Target] = [lair |-> transaction.lair, state |-> "Running"]
      /\ \A s \in DOMAIN leaves \ LeavesOf(leaves, transaction.retired) :
           s # Target => leaves'[s] = leaves[s]
      /\ \A s \in LeavesOf(leaves, transaction.retired) : leaves[s].state = "Exited"
      /\ Op # "create_lair" => LeavesOf(leaves, transaction.retired) = {}
      /\ Structured(saved, lairs', leaves')
  BY InstallTopology, Zenon
<1>4. /\ IsLeases(leases') /\ DOMAIN leases' = {l \in Lair : lairs'[l] = "transient"}
      /\ \A l \in DOMAIN leases' : l \in DOMAIN leases /\ leases'[l] = leases[l]
  BY InstallLeases
<1>5. /\ transaction' \in Transaction /\ Shape'
      /\ ~ Holding' /\ ~ Early' /\ ~ Written' /\ Coming' = {}
      /\ Pc' \in {"free", "reserve", "observe"} /\ Op' # "relaunch"
      /\ Pc' = "observe" => InHand' = InHand
      /\ Pc' # "observe" => NextLeaf
  <2>1. CASE Op = "create_transient"
    <3>1. /\ transaction' \in Transaction /\ Pc' = "observe" /\ Op' = Op
          /\ transaction'.retired = transaction.retired /\ transaction'.todo = transaction.todo
          /\ transaction'.promote = transaction.promote /\ InHand' = InHand
      BY <1>1, <2>1, GotoDoes DEF Steps
    <3>2. ~ Launching' /\ ~ Holding' /\ ~ Early' /\ ~ Written' /\ Coming' = {}
      BY <3>1 DEF Launching, Holding, Early, Written, Coming
    <3>3. Shape'
      BY <1>1, <2>1, <3>1, <3>2, Zenon DEF Shape
    <3> QED BY <2>1, <3>1, <3>2, <3>3, Zenon
  <2>2. CASE Op # "create_transient"
    <3>1. NextLeaf
      BY <1>1, <2>2
    <3> QED BY <1>1, <3>1, NextLeafDoes, Zenon
  <2> QED BY <2>1, <2>2, Zenon
<1>6. Types'
  BY <1>1, <1>2, <1>3, <1>4, <1>5, Zenon DEF Types, Rehoused
<1>7. Hands'
  BY <1>2, <1>5 DEF Hands
<1>8. Counts
  <2>1. Owned' \subseteq Owned
    BY <1>2, RehousedOwned
  <2> QED BY <1>1, <1>5, <2>1, Zenon DEF Counts, Shrinks
<1>9. GoneIsDead'
  BY <1>2, StillDead DEF IInv
<1>10. Unrivalled'
  <2>1. \A p, q \in At("entry")' : processes'[p].splint = processes'[q].splint => p = q
    BY <1>2, Zenon DEF IInv, Unrivalled
  <2>2. CASE Pc' = "observe"
    BY <1>5, <2>1, <2>2 DEF Unrivalled, Launching
  <2>3. CASE Pc' # "observe"
    <3>1. \A p \in At("entry")' : processes'[p].splint = Target \/
            (p \in At("entry") /\ processes'[p].splint = processes[p].splint)
      BY <1>2, Zenon
    <3> QED BY <1>1, <1>5, <2>1, <2>3, <3>1, NextUnrivalled, Zenon DEF IInv
  <2> QED BY <2>2, <2>3, Zenon
<1>11. Visible'
  <2>1. ASSUME NEW p \in At("entry")', processes'[p].alive
        PROVE processes'[p].splint \in DOMAIN leaves' /\ leaves'[processes'[p].splint].state = "Running"
    <3>1. CASE p = InHand
      <4>1. processes'[InHand].splint = Target
        BY <1>2, Zenon
      <4>2. Target \in DOMAIN leaves' /\ leaves'[Target] = [lair |-> transaction.lair, state |-> "Running"]
        BY <1>3, Zenon
      <4>3. leaves'[Target].state = "Running"
        BY <4>2
      <4> QED BY <3>1, <4>1, <4>2, <4>3, Zenon
    <3>2. CASE p # InHand
      <4>1. p \in At("entry") /\ processes[p].alive /\ processes'[p].splint = processes[p].splint
        BY <1>2, <2>1, <3>2, Zenon
      <4>2. processes[p].splint \in DOMAIN leaves /\ leaves[processes[p].splint].state = "Running"
        BY <3>2, <4>1, Zenon DEF IInv, Visible
      <4>3. processes[p].splint # Target
        BY <1>2, <3>2, <4>1, Zenon
      <4>4. processes[p].splint \notin LeavesOf(leaves, transaction.retired)
        BY <1>3, <4>2
      <4> QED BY <1>3, <4>1, <4>2, <4>3, <4>4, Zenon
    <3> QED BY <3>1, <3>2, Zenon
  <2> QED BY <1>5, <2>1 DEF Visible
<1>12. Validated'
  <2>1. CASE transaction' = Free
    BY <2>1, FreeShape DEF Validated
  <2>2. CASE Pc' = "observe"
    BY <2>2 DEF Validated, Launching
  <2>3. CASE transaction' # Free /\ Pc' # "observe"
    <3>1. /\ Op' = "preset" /\ Op = "preset"
          /\ \A i \in 1..Len(transaction'.todo) : transaction'.todo[i] = transaction.todo[i + 1]
          /\ Len(transaction'.todo) = Len(transaction.todo) - 1
      BY <1>1, <1>5, <2>3, NextLeafDoes
    <3>2. Len(transaction.todo) \in Nat
      BY <1>1, TargetIsFirst, Zenon DEF Shape
    <3>3. \A i \in 1..Len(transaction.todo) : transaction.todo[i] \in DOMAIN leaves
      BY <1>1, <3>1 DEF IInv, Validated
    <3>4. DOMAIN leaves \subseteq DOMAIN leaves'
      BY <1>3, <3>1, Zenon
    <3>5. ASSUME NEW i \in 1..Len(transaction'.todo)
          PROVE transaction'.todo[i] \in DOMAIN leaves'
      <4>1. i + 1 \in 1..Len(transaction.todo)
        BY <3>1, <3>2
      <4> QED BY <3>1, <3>3, <3>4, <4>1, Zenon
    <3> QED BY <3>1, <3>5, Zenon DEF Validated
  <2> QED BY <2>1, <2>2, <2>3, Zenon
<1>13. Leased'
  <2>1. \A l \in DOMAIN leases' : leases'[l].owner \in connected' \cup cleaning'
    BY <1>1, <1>4, Zenon DEF IInv, Leased
  <2>2. \A l, m \in DOMAIN leases' : leases'[l].owner = leases'[m].owner => l = m
    BY <1>4 DEF IInv, Leased
  <2> QED BY <1>4, <1>5, <2>1, <2>2, Zenon DEF Leased
<1>14. Durable'
  BY <1>1, <1>3, <1>5, Zenon DEF Durable
<1> QED BY <1>5, <1>6, <1>7, <1>8, <1>9, <1>10, <1>11, <1>12, <1>13, <1>14, Zenon DEF IInv

-----------------------------------------------------------------------------
(* Steps beside a transaction.                                             *)

(* What a step may do to leaves: one that goes takes its process along,    *)
(* but for the exited leaves of the Lair that a new Lair replaces.         *)
TakesProcess ==
  \A s \in DOMAIN leaves \ DOMAIN leaves' : \A p \in EntryOf(s) :
    \/ p \notin At("entry")'
    \/ Op = "create_lair" /\ leaves[s].lair = transaction.retired /\ ~ processes[p].alive

(* What only depends on the transaction stays with it. *)
LEMMA SameTransaction ==
  ASSUME UNCHANGED transaction
  PROVE /\ Pc' = Pc /\ Op' = Op /\ InHand' = InHand /\ Target' = Target
        /\ Shape' = Shape /\ Launching' = Launching /\ Holding' = Holding /\ Early' = Early
        /\ Written' = Written /\ Coming' = Coming
<1>1. Pc' = Pc /\ Op' = Op /\ InHand' = InHand /\ Target' = Target
  BY DEF Pc, Op, InHand, Target
<1>2. Launching' = Launching /\ Holding' = Holding /\ Early' = Early /\ Written' = Written
  BY <1>1 DEF Launching, Holding, Early, Written
<1> QED BY <1>1, <1>2 DEF Shape, Coming

(* A process that exits, is reaped or is asked to die leaves every list    *)
(* but that of the retiring and the orphans as it is.                      *)
LEMMA ProcessesOnly ==
  ASSUME IInv, NEW P, Rehoused(processes', processes, P, "gone"),
         P \subseteq At("retiring") \cup At("orphan"),
         \A p \in P \cap Started' : ~ processes'[p].alive,
         UNCHANGED <<lairs, leaves, saved, reserved, leases, connected, cleaning, transaction>>
  PROVE IInv' /\ Counts
<1>1. /\ Pc' = Pc /\ Op' = Op /\ InHand' = InHand /\ Target' = Target
      /\ Shape' = Shape /\ Launching' = Launching /\ Holding' = Holding /\ Early' = Early
      /\ Written' = Written /\ Coming' = Coming
  BY SameTransaction
<1>2. P \cap At("entry") = {} /\ P \cap At("held") = {}
  BY DEF At
<1>3. At("entry")' = At("entry") /\ At("held")' = At("held")
  <2>1. At("entry")' = At("entry") \ P
    BY RehousedAt
  <2>2. At("held")' = At("held") \ P
    BY RehousedAt
  <2> QED BY <1>2, <2>1, <2>2, Zenon
<1>4. \A p \in At("entry") \cup At("held") : /\ processes'[p].splint = processes[p].splint
                                             /\ processes'[p].alive => processes[p].alive
  <2>1. At("entry") \cup At("held") \subseteq Started'
    BY <1>3 DEF At
  <2> QED BY <2>1 DEF Rehoused, Started
<1>5. Types'
  BY DEF IInv, Types, Rehoused
<1>6. Hands'
  BY <1>1, <1>3, <1>4, Zenon DEF IInv, Hands
<1>7. Counts
  <2>1. Owned' \subseteq Owned
    BY RehousedOwned
  <2> QED BY <1>1, <2>1 DEF Counts, Shrinks
<1>8. GoneIsDead'
  BY StillDead DEF IInv
<1>9. Unrivalled'
  <2>1. transaction'.todo = transaction.todo
    OBVIOUS
  <2>2. \A p \in At("entry") : processes'[p].splint = processes[p].splint
    BY <1>4
  <2>3. \A p, q \in At("entry")' : processes'[p].splint = processes'[q].splint => p = q
    BY <1>3, <2>2, Zenon DEF IInv, Unrivalled
  <2>4. Pc' = "spawn" \/ Holding' \/ (Pc' = "reserve" /\ Op' # "relaunch") =>
          \A p \in At("entry")' : processes'[p].splint # Target'
    BY <1>1, <1>3, <2>2 DEF IInv, Unrivalled
  <2>5. Launching' => \A i \in 2..Len(transaction'.todo) :
          \A p \in At("entry")' : processes'[p].splint # transaction'.todo[i]
    BY <1>1, <1>3, <2>1, <2>2, Zenon DEF IInv, Unrivalled
  <2> QED BY <2>3, <2>4, <2>5, Zenon DEF Unrivalled
<1>10. Visible'
  BY <1>1, <1>3, <1>4, Zenon DEF IInv, Visible
<1>11. Validated'
  <2>1. FullyExited(transaction.retired)' = FullyExited(transaction.retired)
    BY Zenon DEF FullyExited, LeavesOf
  <2> QED BY <1>1, <2>1, Zenon DEF IInv, Validated
<1>12. Leased'
  BY <1>1, Zenon DEF IInv, Leased
<1>13. Durable'
  <2>1. CandidateLairs' = CandidateLairs /\ CandidateLeaves' = CandidateLeaves
    BY <1>1, SameCandidate
  <2> QED BY <1>1, <2>1 DEF IInv, Durable
<1> QED BY <1>1, <1>5, <1>6, <1>7, <1>8, <1>9, <1>10, <1>11, <1>12, <1>13, Zenon DEF IInv

(* A process that is put where it is stays there. *)
LEMMA PutBack ==
  ASSUME NEW T, NEW ps, NEW p, Rehoused(T, ps, {p}, ps[p].place), NEW place
  PROVE Rehoused(T, ps, {}, place)
BY DEF Rehoused

(* ProcessExit, RetireDone and KillSplint. *)
LEMMA ExitKeeps ==
  ASSUME IInv, NEW p \in Process, ProcessExit(p)
  PROVE IInv' /\ Counts
<1> DEFINE r == [processes[p] EXCEPT !.alive = FALSE,
                   !.place = IF p \in At("orphan") THEN "gone" ELSE processes[p].place]
           T == [processes EXCEPT ![p] = r]
<1>1. /\ p \in Started /\ processes' = Kept(T) /\ IsTable(processes)
      /\ UNCHANGED <<lairs, leaves, saved, reserved, leases, connected, cleaning, transaction>>
  BY DEF ProcessExit, IInv, Types
<1>2. processes[p] \in Runtime
  BY <1>1 DEF IsTable, Started
<1>3. /\ r \in Runtime /\ r.splint = processes[p].splint /\ r.alive = FALSE
      /\ r.place = IF p \in At("orphan") THEN "gone" ELSE processes[p].place
  <2>1. r.splint = processes[p].splint /\ r.alive = FALSE
        /\ r.place = IF p \in At("orphan") THEN "gone" ELSE processes[p].place
    BY <1>2 DEF Runtime
  <2>2. r \in Runtime
    BY <1>2, Zenon DEF Runtime
  <2> QED BY <2>1, <2>2, Zenon
<1>4. T[p] = r /\ DOMAIN T = Started
  BY <1>1 DEF IsTable, Started
<1> HIDE DEF r
<1>5. Rehoused(T, processes, {p}, r.place) /\ IsTable(T)
  BY <1>1, <1>3, ChangedOne DEF Started
<1> HIDE DEF T
<1>6. Rehoused(processes', processes, {p}, r.place)
  BY <1>1, <1>5, KeptRehoused
<1>7. p \in Started' => ~ processes'[p].alive
  BY <1>1, <1>3, <1>4, <1>5, KeptTable DEF Started
<1>8. CASE p \in At("orphan")
  <2>1. Rehoused(processes', processes, {p}, "gone")
    BY <1>3, <1>6, <1>8, Zenon
  <2>2. {p} \subseteq At("retiring") \cup At("orphan")
    BY <1>8
  <2> QED BY <1>1, <1>7, <2>1, <2>2, ProcessesOnly
<1>9. CASE p \notin At("orphan")
  <2>1. Rehoused(processes', processes, {}, "gone")
    BY <1>3, <1>6, <1>9, PutBack
  <2> QED BY <1>1, <2>1, ProcessesOnly
<1> QED BY <1>8, <1>9, Zenon

LEMMA RetireDoneKeeps ==
  ASSUME IInv, NEW p \in Process, RetireDone(p)
  PROVE IInv' /\ Counts
<1>1. /\ p \in At("retiring") /\ ~ processes[p].alive /\ processes' = Moved({p}, "gone")
      /\ UNCHANGED <<lairs, leaves, saved, reserved, leases, connected, cleaning, transaction>>
  BY DEF RetireDone
<1>2. Rehoused(processes', processes, {p}, "gone")
  BY <1>1, MovedTable DEF IInv, Types, Places
<1>3. \A q \in {p} \cap Started' : ~ processes'[q].alive
  BY <1>1, <1>2 DEF Rehoused, Started
<1> QED BY <1>1, <1>2, <1>3, ProcessesOnly

LEMMA KillKeeps ==
  ASSUME IInv, NEW s \in Splint, KillSplint(s)
  PROVE IInv' /\ Counts
<1>1. /\ processes' = [p \in Started |-> [processes[p] EXCEPT !.killed = @ \/ p \in EntryOf(s)]]
      /\ UNCHANGED <<lairs, leaves, saved, reserved, leases, connected, cleaning, transaction>>
      /\ IsTable(processes)
  BY DEF KillSplint, IInv, Types
<1>2. \A p \in Started : processes[p] \in Runtime /\ processes'[p] = [processes[p] EXCEPT !.killed = @ \/ p \in EntryOf(s)]
  BY <1>1 DEF IsTable, Started
<1>3. \A p \in Started : /\ processes'[p] \in Runtime /\ processes'[p].splint = processes[p].splint
                         /\ processes'[p].alive = processes[p].alive
                         /\ processes'[p].place = processes[p].place
  <2> TAKE p \in Started
  <2> DEFINE k == processes[p].killed \/ p \in EntryOf(s)
  <2>1. processes[p] \in Runtime /\ processes'[p] = [processes[p] EXCEPT !.killed = k]
    BY <1>2
  <2>2. k \in BOOLEAN
    BY <1>2, Zenon DEF Runtime
  <2> HIDE DEF k
  <2> QED BY <2>1, <2>2 DEF Runtime
<1>4. DOMAIN processes' = Started /\ processes' = [p \in Started |-> processes'[p]]
  BY <1>1
<1>5. IsTable(processes')
  BY <1>1, <1>3, <1>4 DEF IsTable, Started
<1>6. Rehoused(processes', processes, {}, "gone")
  BY <1>3, <1>4, <1>5 DEF Rehoused, Started
<1> QED BY <1>1, <1>6, ProcessesOnly

(* A step that ends with the permit free, nothing reserved and nothing in  *)
(* hand, and lets go of no process that runs.                              *)
LEMMA Settles ==
  ASSUME IInv, transaction' = Free, NEW P, NEW place, Rehoused(processes', processes, P, place),
         place # "entry", place = "gone" \/ P \subseteq Owned,
         place # "gone" \/ \A p \in P \cap Started' : ~ processes'[p].alive,
         reserved' = 0, At("held")' = {}
  PROVE /\ Shape' /\ Hands' /\ Counts /\ GoneIsDead' /\ Unrivalled' /\ Validated'
        /\ ~ Early /\ UNCHANGED leaves => Visible'
<1>1. ~ Launching' /\ Pc' = "free" /\ ~ Holding' /\ ~ Early' /\ Shape'
  BY FreeShape
<1>2. \A p \in At("entry")' : /\ p \in At("entry") /\ processes'[p].splint = processes[p].splint
                              /\ processes'[p].alive => processes[p].alive
  BY EntriesShrink, Zenon
<1>3. Counts
  <2>1. Owned' \subseteq Owned
    BY RehousedOwned
  <2> QED BY <1>1, <2>1 DEF Counts, Shrinks
<1>4. GoneIsDead'
  BY StillDead DEF IInv
<1>5. Unrivalled'
  BY <1>1, <1>2, Zenon DEF IInv, Unrivalled
<1>6. Hands' /\ Validated'
  BY <1>1 DEF Hands, Validated
<1>7. ~ Early /\ UNCHANGED leaves => Visible'
  BY <1>1, <1>2, Zenon DEF IInv, Visible
<1> QED BY <1>1, <1>3, <1>4, <1>5, <1>6, <1>7, Zenon

(* ObserveTransient: the request is over, its process watched. *)
LEMMA ObserveTransientKeeps ==
  ASSUME IInv, ObserveTransient
  PROVE IInv' /\ Counts
<1>1. /\ Pc = "observe" /\ ~ Early /\ ~ Holding /\ ~ Written /\ transaction' = Free
      /\ UNCHANGED <<lairs, leaves, saved, reserved, leases, connected, cleaning>>
      /\ Types /\ IsTable(processes) /\ Coming = {}
      /\ processes' = [processes EXCEPT ![InHand] = [@ EXCEPT !.watched = TRUE]]
  BY DEF ObserveTransient, Pc, Early, Holding, Written, IInv, Types, Coming, Launching
<1>2. /\ reserved = 0 /\ At("held") = {} /\ InHand \in Started
  BY <1>1 DEF IInv, Hands, At
<1> DEFINE r == [processes[InHand] EXCEPT !.watched = TRUE]
<1>3. r \in Runtime /\ r.splint = processes[InHand].splint /\ r.alive = processes[InHand].alive
      /\ r.place = processes[InHand].place
  BY <1>1, <1>2, Zenon DEF IsTable, Runtime, Started
<1>4. processes' = [processes EXCEPT ![InHand] = r]
  BY <1>1
<1> HIDE DEF r
<1>5. Rehoused(processes', processes, {InHand}, r.place)
  <2>1. r.alive => processes[InHand].alive
    BY <1>3
  <2>2. InHand \in DOMAIN processes
    BY <1>2 DEF Started
  <2>3. Rehoused([processes EXCEPT ![InHand] = r], processes, {InHand}, r.place)
    BY <1>1, <1>3, <2>1, <2>2, ChangedOne, Zenon
  <2> QED BY <1>4, <2>3, Zenon
<1>6. Rehoused(processes', processes, {}, "retiring")
  BY <1>3, <1>5, PutBack
<1>7. At("held")' = {}
  BY <1>2, <1>6, RehousedAt
<1>8. Shape' /\ Hands' /\ Counts /\ GoneIsDead' /\ Unrivalled' /\ Validated' /\ Visible'
  BY <1>1, <1>2, <1>6, <1>7, Settles, Zenon
<1>9. Types'
  BY <1>1, <1>6, FreeFacts DEF Types, Rehoused
<1>10. Leased' /\ Durable'
  BY <1>1, FreeShape DEF IInv, Leased, Durable
<1> QED BY <1>8, <1>9, <1>10, Zenon DEF IInv

(* ShutdownRetired: what a retirement holds goes to the retiring. *)
LEMMA ShutdownKeeps ==
  ASSUME IInv, ShutdownRetired
  PROVE IInv' /\ Counts
<1>1. /\ Pc = "shutdown" /\ ~ Early /\ ~ Holding /\ ~ Written /\ transaction' = Free
      /\ UNCHANGED <<lairs, leaves, saved, reserved, leases, connected, cleaning>>
      /\ Types /\ IsTable(processes) /\ Coming = {}
      /\ processes' = Moved(At("held"), "retiring")
  BY DEF ShutdownRetired, Pc, Early, Holding, Written, IInv, Types, Coming, Launching
<1>2. reserved = 0
  BY <1>1 DEF IInv, Hands
<1>3. Rehoused(processes', processes, At("held"), "retiring") /\ At("held") \subseteq Owned
  BY <1>1, MovedTable DEF Places, At, Owned
<1>4. At("held")' = {}
  BY <1>3, RehousedAt
<1>5. Shape' /\ Hands' /\ Counts /\ GoneIsDead' /\ Unrivalled' /\ Validated' /\ Visible'
  BY <1>1, <1>2, <1>3, <1>4, Settles
<1>6. Types'
  BY <1>1, <1>3, FreeFacts, Zenon DEF Types, Rehoused
<1>7. Leased' /\ Durable'
  BY <1>1, FreeShape, Zenon DEF IInv, Leased, Durable
<1> QED BY <1>5, <1>6, <1>7, Zenon DEF IInv

(* Only who is there changes, and whoever holds a lease is there or still  *)
(* to be cleaned up.                                                       *)
LEMMA ConnectionsOnly ==
  ASSUME IInv, UNCHANGED <<lairs, leaves, saved, processes, reserved, leases, transaction>>,
         connected' \subseteq Connection, cleaning' \subseteq Connection,
         \A l \in DOMAIN leases : leases[l].owner \in connected' \cup cleaning'
  PROVE IInv' /\ Counts
<1>1. /\ Pc' = Pc /\ Op' = Op /\ InHand' = InHand /\ Target' = Target
      /\ Shape' = Shape /\ Launching' = Launching /\ Holding' = Holding /\ Early' = Early
      /\ Written' = Written /\ Coming' = Coming
  BY SameTransaction
<1>2. (\A q : At(q)' = At(q)) /\ Owned' = Owned
  BY DEF At, Owned, Started
<1>3. Types'
  BY DEF IInv, Types
<1>4. Hands' /\ Counts /\ GoneIsDead'
  BY <1>1, <1>2 DEF IInv, Hands, GoneIsDead, Counts, Shrinks
<1>5. Unrivalled' /\ Visible'
  BY <1>1, <1>2, Zenon DEF IInv, Unrivalled, Visible
<1>6. Validated'
  <2>1. FullyExited(transaction.retired)' = FullyExited(transaction.retired)
    BY DEF FullyExited, LeavesOf
  <2> QED BY <1>1, <2>1, Zenon DEF IInv, Validated
<1>7. Leased'
  BY <1>1, Zenon DEF IInv, Leased
<1>8. Durable'
  <2>1. CandidateLairs' = CandidateLairs /\ CandidateLeaves' = CandidateLeaves
    BY <1>1, SameCandidate
  <2> QED BY <1>1, <2>1 DEF IInv, Durable
<1> QED BY <1>1, <1>3, <1>4, <1>5, <1>6, <1>7, <1>8, Zenon DEF IInv

(* Disconnect: a creation of a transient Lair is cut at any of its steps.  *)
LEMMA DisconnectKeeps ==
  ASSUME IInv, NEW k \in Connection, Disconnect(k)
  PROVE IInv' /\ Counts
<1>1. /\ k \in connected /\ connected' = connected \ {k} /\ cleaning' = cleaning \cup {k}
      /\ UNCHANGED <<lairs, leaves, saved>>
      /\ connected' \subseteq Connection /\ cleaning' \subseteq Connection
      /\ connected' \cup cleaning' = connected \cup cleaning
      /\ Types /\ Shape /\ IsTable(processes) /\ IsLeases(leases)
  BY DEF Disconnect, IInv, Types
<1>2. CASE ~ Creating(k)
  <2>1. UNCHANGED <<transaction, leases, reserved, processes>>
    BY <1>2 DEF Disconnect
  <2>2. \A l \in DOMAIN leases : leases[l].owner \in connected' \cup cleaning'
    BY <1>1, Zenon DEF IInv, Leased
  <2> QED BY <1>1, <2>1, <2>2, ConnectionsOnly
<1>3. CASE Creating(k) /\ Pc = "observe"
  <2>1. transaction' = Free /\ UNCHANGED <<leases, reserved, processes>>
    BY <1>3 DEF Disconnect, Pc
  <2>2. ~ Early /\ ~ Holding /\ ~ Written /\ Coming = {}
    BY <1>3 DEF Early, Holding, Written, Coming, Launching
  <2>3. reserved' = 0 /\ At("held") = {} /\ At("held")' = {}
    BY <1>3, <2>1, <2>2 DEF IInv, Hands, At, Started
  <2>4. Rehoused(processes', processes, {}, "retiring")
    BY <1>1, <2>1, Unmoved
  <2>5. Shape' /\ Hands' /\ Counts /\ GoneIsDead' /\ Unrivalled' /\ Validated' /\ Visible'
    BY <1>1, <2>1, <2>2, <2>3, <2>4, Settles
  <2>6. Types'
    BY <1>1, <2>1, FreeFacts, Zenon DEF Types, IInv
  <2>7. Leased' /\ Durable'
    BY <1>1, <2>1, <2>2, FreeShape, Zenon DEF IInv, Leased, Durable
  <2> QED BY <2>5, <2>6, <2>7, Zenon DEF IInv
<1>4. CASE Creating(k) /\ Pc # "observe"
  <2>1. /\ transaction' = Free /\ leases' = Without(leases, {transaction.lair})
        /\ reserved' = IF Pc = "reserve" THEN reserved ELSE reserved - 1
        /\ IF Pc = "admit" THEN \E place \in {"retiring", "orphan"} : processes' = Moved({InHand}, place)
           ELSE UNCHANGED processes
        /\ Op = "create_transient" /\ transaction.lair \in DOMAIN leases
    BY <1>4, Zenon DEF Disconnect, Pc, Creating
  <2>2. /\ Pc \in {"reserve", "spawn", "admit"} /\ Launching /\ ~ Early /\ ~ Written
        /\ Holding <=> Pc = "admit"
        /\ Coming = {transaction.lair}
    <3>1. Op = "create_transient" => Pc \in {"reserve", "spawn", "admit", "observe"}
      <4>1. Pc \in Steps
        BY <1>1 DEF Types, Transaction, Pc
      <4>2. Pc = "free" => Op = "none"
        BY <1>1, FreeFacts DEF Shape, Op
      <4> QED BY <1>1, <4>1, <4>2, Zenon DEF Steps, Shape
    <3> QED BY <1>4, <2>1, <3>1, Zenon DEF Launching, Early, Holding, Written, Coming
  <2>3. /\ reserved = IF Pc = "reserve" THEN 0 ELSE 1
        /\ At("held") = IF Pc = "admit" THEN {InHand} ELSE {}
        /\ Pc = "admit" => InHand \in Owned
    BY <2>2 DEF IInv, Hands, At, Owned
  <2>4. reserved' = 0
    BY <2>1, <2>3
  <2>5. \E P \in SUBSET Owned, place \in {"retiring", "orphan"} :
          Rehoused(processes', processes, P, place) /\ At("held")' = {}
    <3>1. CASE Pc = "admit"
      <4>1. PICK place \in {"retiring", "orphan"} : processes' = Moved({InHand}, place)
        BY <2>1, <3>1
      <4>2. Rehoused(processes', processes, {InHand}, place)
        BY <1>1, <4>1, MovedTable DEF Places
      <4>3. At("held")' = {}
        BY <2>3, <3>1, <4>2, RehousedAt
      <4> QED BY <2>3, <3>1, <4>2, <4>3, Zenon
    <3>2. CASE Pc # "admit"
      <4>1. Rehoused(processes', processes, {}, "retiring")
        BY <1>1, <2>1, <3>2, Unmoved, Zenon
      <4>2. At("held")' = {}
        BY <2>1, <2>3, <3>2 DEF At, Started
      <4> QED BY <4>1, <4>2, Zenon
    <3> QED BY <3>1, <3>2, Zenon
  <2>6. PICK P \in SUBSET Owned, place \in {"retiring", "orphan"} :
          Rehoused(processes', processes, P, place) /\ At("held")' = {}
    BY <2>5
  <2>7. Shape' /\ Hands' /\ Counts /\ GoneIsDead' /\ Unrivalled' /\ Validated' /\ Visible'
    BY <1>1, <2>1, <2>2, <2>4, <2>6, Settles, Zenon
  <2>8. lairs[transaction.lair] = "absent"
    BY <2>1, <2>2, Zenon DEF IInv, Validated
  <2>9. /\ DOMAIN leases' = DOMAIN leases \ {transaction.lair}
        /\ leases' \in [DOMAIN leases' -> Lease]
        /\ \A l \in DOMAIN leases' : leases'[l] = leases[l]
    BY <1>1, <2>1 DEF Without, IsLeases
  <2>10. IsLeases(leases')
    BY <1>1, <2>9 DEF IsLeases
  <2>11. Types'
    <3>1. transaction' \in Transaction /\ reserved' \in Nat
      BY <2>1, <2>4, FreeFacts
    <3>2. IsTable(processes')
      BY <2>6, Zenon DEF Rehoused
    <3> QED BY <1>1, <2>10, <3>1, <3>2, Zenon DEF Types
  <2>12. Leased'
    <3>1. DOMAIN leases' = {l \in Lair : lairs'[l] = "transient"} \cup Coming'
      BY <1>1, <2>1, <2>2, <2>8, <2>9, FreeShape, Zenon DEF IInv, Leased
    <3>2. \A l \in DOMAIN leases' : leases'[l].owner \in connected' \cup cleaning'
      BY <1>1, <2>9 DEF IInv, Leased
    <3>3. \A l, m \in DOMAIN leases' : leases'[l].owner = leases'[m].owner => l = m
      BY <2>9 DEF IInv, Leased
    <3> QED BY <3>1, <3>2, <3>3, Zenon DEF Leased
  <2>13. Durable'
    BY <1>1, <2>1, <2>2, FreeShape, Zenon DEF IInv, Durable
  <2> QED BY <2>7, <2>11, <2>12, <2>13, Zenon DEF IInv
<1> QED BY <1>2, <1>3, <1>4, Zenon

(* Connect. *)
LEMMA ConnectKeeps ==
  ASSUME IInv, NEW k \in Connection, Connect(k)
  PROVE IInv' /\ Counts
<1>1. /\ connected' = connected \cup {k}
      /\ UNCHANGED <<lairs, leaves, saved, processes, reserved, leases, cleaning, transaction>>
  BY DEF Connect
<1>2. connected' \subseteq Connection /\ cleaning' \subseteq Connection
  BY <1>1 DEF IInv, Types
<1>3. \A l \in DOMAIN leases : leases[l].owner \in connected' \cup cleaning'
  BY <1>1 DEF IInv, Leased
<1> QED BY <1>1, <1>2, <1>3, ConnectionsOnly

-----------------------------------------------------------------------------
(* Requests and observers that hold the permit for one step.               *)

(* With the permit free, nothing is reserved, held or half written. *)
LEMMA AtRest ==
  ASSUME IInv, PermitFree
  PROVE /\ transaction = Free /\ reserved = 0 /\ At("held") = {} /\ ~ Early /\ ~ Written
        /\ DOMAIN leases = {l \in Lair : lairs[l] = "transient"}
        /\ Structured(saved, lairs, leaves)
        /\ \A p \in At("entry") : processes[p].alive =>
             /\ processes[p].splint \in DOMAIN leaves
             /\ leaves[processes[p].splint].state = "Running"
<1>1. transaction = Free /\ Pc = "free" /\ ~ Holding /\ ~ Early /\ ~ Written /\ Coming = {}
  BY FreeShape DEF PermitFree
<1>2. reserved = 0 /\ At("held") = {}
  BY <1>1 DEF IInv, Hands
<1>3. DOMAIN leases = {l \in Lair : lairs[l] = "transient"}
  BY <1>1, Zenon DEF IInv, Leased
<1>4. Structured(saved, lairs, leaves)
  BY <1>1 DEF IInv, Durable
<1>5. \A p \in At("entry") : processes[p].alive =>
        /\ processes[p].splint \in DOMAIN leaves
        /\ leaves[processes[p].splint].state = "Running"
  BY <1>1 DEF IInv, Visible
<1> QED BY <1>1, <1>2, <1>3, <1>4, <1>5, Zenon

(* A transient Lair is retired: it and its leaves are gone, its processes  *)
(* in the hands of the retirement.                                         *)
LEMMA RetireKeeps ==
  ASSUME IInv, PermitFree, NEW l \in DOMAIN leases, Retire(l), UNCHANGED <<saved, reserved>>,
         Rehoused(processes', processes, EntriesOf(LeavesOf(leaves, l)), "held"),
         connected' \subseteq Connection, cleaning' \subseteq Connection,
         \A m \in DOMAIN leases \ {l} : leases[m].owner \in connected' \cup cleaning'
  PROVE IInv' /\ Counts /\ TakesProcess
<1> DEFINE P == EntriesOf(LeavesOf(leaves, l))
<1>1. /\ lairs' = [lairs EXCEPT ![l] = "absent"]
      /\ leaves' = Without(leaves, LeavesOf(leaves, l))
      /\ leases' = Without(leases, {l})
      /\ transaction' = [Free EXCEPT !.op = "retire", !.pc = "shutdown"]
  BY DEF Retire
<1>2. /\ reserved = 0 /\ ~ Early /\ Structured(saved, lairs, leaves) /\ l \in Lair
      /\ lairs[l] = "transient" /\ DOMAIN leases = {m \in Lair : lairs[m] = "transient"}
  BY AtRest, Zenon
<1>3. /\ lairs \in [Lair -> Retention] /\ leaves \in [DOMAIN leaves -> Leaf] /\ DOMAIN leaves \subseteq Splint
      /\ leases \in [DOMAIN leases -> Lease] /\ DOMAIN leases \subseteq Lair /\ IsLeaves(leaves)
  BY DEF IInv, Types, IsLeaves, IsLeases
<1>4. /\ transaction' \in Transaction /\ Pc' = "shutdown" /\ Op' = "retire"
      /\ transaction'.retired = NoLair /\ transaction'.promote = FALSE /\ transaction'.todo = << >>
  <2>1. transaction' \in Transaction
    BY <1>1, FreeFacts, Zenon DEF Transaction, Steps
  <2> QED BY <1>1, <2>1 DEF Free, Pc, Op
<1>5. ~ Launching' /\ ~ Holding' /\ ~ Early' /\ ~ Written' /\ Coming' = {}
  BY <1>4 DEF Launching, Holding, Early, Written, Coming
<1>6. Shape'
  <2>1. \A i, j \in 1..Len(transaction'.todo) : i # j => transaction'.todo[i] # transaction'.todo[j]
    BY <1>4
  <2> QED BY <1>4, <1>5, <2>1, Zenon DEF Shape
<1>7. /\ DOMAIN leaves' = DOMAIN leaves \ LeavesOf(leaves, l) /\ leaves' \in [DOMAIN leaves' -> Leaf]
      /\ \A s \in DOMAIN leaves' : leaves'[s] = leaves[s]
  BY <1>1, <1>3 DEF Without
<1>8. /\ DOMAIN leases' = DOMAIN leases \ {l} /\ leases' \in [DOMAIN leases' -> Lease]
      /\ \A m \in DOMAIN leases' : leases'[m] = leases[m]
  BY <1>1, <1>3 DEF Without
<1>9. IsLeaves(leaves') /\ IsLeases(leases') /\ lairs' \in [Lair -> Retention]
  BY <1>1, <1>3, <1>7, <1>8, Zenon DEF IsLeaves, IsLeases, Retention
<1>10. Types'
  BY <1>4, <1>9, Zenon DEF IInv, Types, Rehoused
<1>11. Hands' /\ Validated'
  BY <1>2, <1>4, <1>5, Zenon DEF Hands, Validated
<1>12. Counts
  <2>1. P \subseteq Owned
    BY DEF EntriesOf, At, Owned
  <2>2. Owned' \subseteq Owned
    BY <2>1, RehousedOwned
  <2> QED BY <1>4, <2>2, Zenon DEF Counts, Shrinks
<1>13. GoneIsDead'
  BY StillDead, Zenon DEF IInv
<1>14. \A p \in At("entry")' : /\ p \in At("entry") /\ processes'[p].splint = processes[p].splint
                               /\ processes'[p].alive => processes[p].alive
  BY EntriesShrink, Zenon
<1>15. At("entry")' = At("entry") \ P
  BY RehousedAt
<1>16. Unrivalled'
  BY <1>4, <1>5, <1>14, Zenon DEF IInv, Unrivalled
<1>17. Visible'
  <2>1. ASSUME NEW p \in At("entry")', processes'[p].alive
        PROVE processes'[p].splint \in DOMAIN leaves' /\ leaves'[processes'[p].splint].state = "Running"
    <3>1. p \in At("entry") /\ processes'[p].splint = processes[p].splint /\ processes[p].alive /\ p \notin P
      BY <1>14, <1>15, <2>1, Zenon
    <3>2. processes[p].splint \in DOMAIN leaves /\ leaves[processes[p].splint].state = "Running"
      BY <3>1, AtRest, Zenon
    <3>3. processes[p].splint \notin LeavesOf(leaves, l)
      BY <3>1, Zenon DEF EntriesOf
    <3> QED BY <1>7, <3>1, <3>2, <3>3, Zenon
  <2> QED BY <1>4, <2>1, Zenon DEF Visible
<1>18. Leased'
  <2>1. DOMAIN leases' = {m \in Lair : lairs'[m] = "transient"} \cup Coming'
    BY <1>1, <1>2, <1>3, <1>5, <1>8, Zenon
  <2>2. \A m \in DOMAIN leases' : leases'[m].owner \in connected' \cup cleaning'
    BY <1>8
  <2>3. \A m, n \in DOMAIN leases' : leases'[m].owner = leases'[n].owner => m = n
    BY <1>8 DEF IInv, Leased
  <2> QED BY <2>1, <2>2, <2>3, Zenon DEF Leased
<1>19. Durable'
  <2>1. \A m \in Lair : lairs'[m] \in Persistent <=> lairs[m] \in Persistent
    BY <1>1, <1>2, <1>3 DEF Persistent
  <2>2. \A s \in LeavesOf(leaves, l) : lairs[leaves[s].lair] \notin Persistent
    BY <1>2, Zenon DEF LeavesOf, Persistent
  <2>3. Structured(saved, lairs', leaves')
    BY <1>2, <1>3, <1>7, <1>9, <2>1, <2>2, SameStructure
  <2> QED BY <1>5, <2>3 DEF Durable
<1>20. TakesProcess
  BY <1>7, <1>15 DEF TakesProcess, EntryOf, EntriesOf
<1> QED BY <1>6, <1>10, <1>11, <1>12, <1>13, <1>16, <1>17, <1>18, <1>19, <1>20, Zenon DEF IInv

(* CleanupConnection: a connection has at most one lease. *)
LEMMA CleanupKeeps ==
  ASSUME IInv, NEW k \in Connection, CleanupConnection(k)
  PROVE IInv' /\ Counts /\ TakesProcess
<1> DEFINE owned == {l \in DOMAIN leases : leases[l].owner = k}
<1>1. /\ k \in cleaning /\ PermitFree /\ cleaning' = cleaning \ {k}
      /\ UNCHANGED <<saved, reserved, connected>> /\ IsTable(processes)
      /\ connected' \subseteq Connection /\ cleaning' \subseteq Connection
  BY DEF CleanupConnection, IInv, Types
<1>2. \A m \in DOMAIN leases : m \notin owned => leases[m].owner \in connected' \cup cleaning'
  BY <1>1 DEF IInv, Leased
<1>3. CASE owned = {} /\ UNCHANGED <<lairs, leaves, leases, processes, transaction>>
  <2>1. \A m \in DOMAIN leases : leases[m].owner \in connected' \cup cleaning'
    BY <1>2, <1>3
  <2>2. TakesProcess
    BY <1>3 DEF TakesProcess
  <2> QED BY <1>1, <1>3, <2>1, <2>2, ConnectionsOnly
<1>4. ASSUME NEW l \in owned, Retire(l), processes' = Moved(EntriesOf(LeavesOf(leaves, l)), "held")
      PROVE IInv' /\ Counts /\ TakesProcess
  <2>1. Rehoused(processes', processes, EntriesOf(LeavesOf(leaves, l)), "held")
    BY <1>1, <1>4, MovedTable DEF Places
  <2>2. \A m \in DOMAIN leases \ {l} : leases[m].owner \in connected' \cup cleaning'
    <3>1. \A m \in DOMAIN leases \ {l} : m \notin owned
      BY DEF IInv, Leased
    <3> QED BY <1>2, <3>1, Zenon
  <2> QED BY <1>1, <1>4, <2>1, <2>2, RetireKeeps
<1> QED BY <1>3, <1>4 DEF CleanupConnection

(* Moving after a process was let go of, within what is moved. *)
LEMMA MovedAfter ==
  ASSUME NEW ps, NEW T, NEW Q, Rehoused(T, ps, Q, "gone"), DOMAIN T = DOMAIN ps,
         NEW P, Q \subseteq P, NEW place \in Places
  PROVE Rehoused(Kept(MovedIn(T, P, place)), ps, P, place)
<1> DEFINE U == MovedIn(T, P, place)
<1>1. IsTable(T)
  BY DEF Rehoused
<1>2. Rehoused(U, T, P, place) /\ DOMAIN U = DOMAIN T
  BY <1>1, MovedInTable
<1> HIDE DEF U
<1>3. IsTable(U) /\ DOMAIN U \subseteq DOMAIN ps
  BY <1>2, Zenon DEF Rehoused
<1>4. \A p \in DOMAIN U :
        /\ U[p].splint = ps[p].splint
        /\ U[p].alive => ps[p].alive
        /\ U[p].place = IF p \in P THEN place ELSE ps[p].place
  BY <1>2 DEF Rehoused
<1>5. Rehoused(U, ps, P, place)
  BY <1>2, <1>3, <1>4, Zenon DEF Rehoused
<1> QED BY <1>5, KeptRehoused, Zenon DEF U

(* Where none had been moved before. *)
LEMMA MovedAlone ==
  ASSUME NEW ps, NEW T, Rehoused(T, ps, {}, "gone"), DOMAIN T = DOMAIN ps,
         NEW P, NEW place \in Places
  PROVE Rehoused(Kept(MovedIn(T, P, place)), ps, P, place)
<1> DEFINE Q == {}
<1>1. Rehoused(T, ps, Q, "gone") /\ Q \subseteq P
  OBVIOUS
<1> HIDE DEF Q
<1> QED BY <1>1, MovedAfter, Zenon

(* An exit that is recorded, or not: nothing that runs is registered for   *)
(* the leaf.                                                               *)
LEMMA RecordKeeps ==
  ASSUME IInv, PermitFree, NEW p \in Started, ~ processes[p].alive,
         RecordExit(p) \/ UNCHANGED <<leaves, saved>>,
         NEW Q, Rehoused(processes', processes, Q, "gone"), \A q \in Q : ~ processes[q].alive,
         UNCHANGED <<lairs, leases, transaction, reserved, connected, cleaning>>
  PROVE IInv' /\ Counts /\ TakesProcess
<1> DEFINE s == processes[p].splint
           exited == [leaves EXCEPT ![s] = [@ EXCEPT !.state = "Exited"]]
<1>1. /\ transaction' = Free /\ reserved' = 0 /\ At("held") = {} /\ ~ Early /\ ~ Written
      /\ Structured(saved, lairs, leaves) /\ IsLeaves(leaves) /\ IsDocument(saved)
      /\ lairs \in [Lair -> Retention]
  BY AtRest, Zenon DEF IInv, Types
<1>2. At("held")' = {}
  BY <1>1, RehousedAt
<1>3. \A q \in Q \cap Started' : ~ processes'[q].alive
  BY Zenon DEF Rehoused, Started
<1>4. Shape' /\ Hands' /\ Counts /\ GoneIsDead' /\ Unrivalled' /\ Validated'
  BY <1>1, <1>2, <1>3, Settles, Zenon
<1>5. \/ UNCHANGED <<leaves, saved>>
      \/ /\ s \in DOMAIN leaves /\ ~ AnotherIsCurrent(p) /\ leaves' = exited
         /\ saved' = saved \/ saved' = Document(lairs, exited)
  BY DEF RecordExit, Persist
<1>6. /\ IsLeaves(exited) /\ DOMAIN exited = DOMAIN leaves
      /\ \A t \in DOMAIN leaves : exited[t].lair = leaves[t].lair
      /\ \A t \in DOMAIN leaves : t # s => exited[t] = leaves[t]
  BY <1>1, ExitTyped, Zenon
<1> HIDE DEF exited
<1>7. IsLeaves(leaves') /\ IsDocument(saved') /\ Structured(saved', lairs', leaves')
  <2>1. CASE UNCHANGED <<leaves, saved>>
    BY <1>1, <2>1
  <2>2. CASE leaves' = exited /\ saved' = saved
    BY <1>1, <1>6, <2>2, SameStructure, Zenon
  <2>3. CASE leaves' = exited /\ saved' = Document(lairs, exited)
    BY <1>1, <1>6, <2>3, DocumentFits, Zenon
  <2> QED BY <1>5, <2>1, <2>2, <2>3, Zenon
<1>8. Types'
  BY <1>7, Zenon DEF IInv, Types, Rehoused
<1>9. Visible'
  <2>1. ASSUME NEW q \in At("entry")', processes'[q].alive
        PROVE processes'[q].splint \in DOMAIN leaves' /\ leaves'[processes'[q].splint].state = "Running"
    <3>1. q \in At("entry") /\ processes'[q].splint = processes[q].splint /\ processes[q].alive
      BY <2>1, EntriesShrink, Zenon
    <3>2. processes[q].splint \in DOMAIN leaves /\ leaves[processes[q].splint].state = "Running"
      BY <3>1, AtRest, Zenon
    <3>3. CASE UNCHANGED <<leaves, saved>>
      BY <3>1, <3>2, <3>3, Zenon
    <3>4. CASE ~ AnotherIsCurrent(p) /\ leaves' = exited
      <4>1. processes[q].splint # s
        BY <3>1, <3>4 DEF AnotherIsCurrent, EntryOf
      <4> QED BY <1>6, <3>1, <3>2, <3>4, <4>1, Zenon
    <3> QED BY <1>5, <3>3, <3>4, Zenon
  <2>2. Pc' = "free"
    BY <1>1, FreeShape
  <2> QED BY <2>1, <2>2, Zenon DEF Visible
<1>10. Leased'
  BY <1>1, FreeShape, AtRest, Zenon DEF IInv, Leased
<1>11. Durable'
  BY <1>1, <1>7, FreeShape DEF Durable
<1>12. TakesProcess
  BY <1>5, <1>6, Zenon DEF TakesProcess
<1> QED BY <1>4, <1>8, <1>9, <1>10, <1>11, <1>12, Zenon DEF IInv

(* The first process of a transient Lair names that Lair's lease. *)
LEMMA InitialExitLease ==
  ASSUME IInv, PermitFree, NEW p, InitialExit(p)
  PROVE /\ leaves[processes[p].splint].lair \in DOMAIN leases
        /\ processes[p].splint \in LeavesOf(leaves, leaves[processes[p].splint].lair)
BY DEF InitialExit, LeavesOf

(* ObserveExit. *)
LEMMA ObserveExitKeeps ==
  ASSUME IInv, NEW p \in Process, ObserveExit(p)
  PROVE IInv' /\ Counts /\ TakesProcess
<1> DEFINE r == [processes[p] EXCEPT !.watched = FALSE]
           seen == [processes EXCEPT ![p] = r]
           s == processes[p].splint
           P == EntriesOf(LeavesOf(leaves, leaves[s].lair))
<1>1. /\ p \in Started /\ ~ processes[p].alive /\ PermitFree /\ IsTable(processes)
      /\ UNCHANGED <<reserved, connected, cleaning>>
      /\ connected' \subseteq Connection /\ cleaning' \subseteq Connection
  BY DEF ObserveExit, IInv, Types
<1>2. processes[p] \in Runtime
  BY <1>1 DEF IsTable, Started
<1>3. /\ r \in Runtime /\ r.splint = processes[p].splint /\ r.place = processes[p].place
      /\ r.alive => processes[p].alive
  BY <1>2, Zenon DEF Runtime
<1>4. DOMAIN seen = DOMAIN processes
  BY <1>1 DEF IsTable
<1>5. \/ Retire(leaves[s].lair) /\ InitialExit(p) /\ processes' = Kept(MovedIn(seen, P, "held")) /\ UNCHANGED saved
      \/ RecordExit(p) /\ processes' = Kept(seen) /\ UNCHANGED <<lairs, leases, transaction>>
  BY DEF ObserveExit
<1> HIDE DEF r
<1>6. Rehoused(seen, processes, {p}, r.place)
  BY <1>1, <1>3, ChangedOne DEF Started
<1> HIDE DEF seen
<1>7. Rehoused(seen, processes, {}, "gone")
  BY <1>3, <1>6, PutBack
<1>8. CASE Retire(leaves[s].lair) /\ InitialExit(p) /\ processes' = Kept(MovedIn(seen, P, "held")) /\ UNCHANGED saved
  <2>1. leaves[s].lair \in DOMAIN leases
    BY <1>1, <1>8, InitialExitLease, Zenon
  <2>2. Rehoused(processes', processes, P, "held")
    <3>1. "held" \in Places
      BY DEF Places
    <3>2. Rehoused(Kept(MovedIn(seen, P, "held")), processes, P, "held")
      BY <1>4, <1>7, <3>1, MovedAlone, Zenon
    <3> QED BY <1>8, <3>2, Zenon
  <2>3. \A m \in DOMAIN leases : leases[m].owner \in connected' \cup cleaning'
    BY <1>1, Zenon DEF IInv, Leased
  <2> QED BY <1>1, <1>8, <2>1, <2>2, <2>3, RetireKeeps, Zenon
<1>9. CASE RecordExit(p) /\ processes' = Kept(seen) /\ UNCHANGED <<lairs, leases, transaction>>
  <2>1. Rehoused(processes', processes, {}, "gone")
    BY <1>7, <1>9, KeptRehoused
  <2> QED BY <1>1, <1>9, <2>1, RecordKeeps
<1> QED BY <1>5, <1>8, <1>9, Zenon

(* FinishKill unregisters the very process it waited for. *)
LEMMA FinishKillKeeps ==
  ASSUME IInv, NEW p \in Process, FinishKill(p)
  PROVE IInv' /\ Counts /\ TakesProcess
<1> DEFINE r == [processes[p] EXCEPT !.killed = FALSE,
                   !.place = IF p \in At("entry") THEN "gone" ELSE processes[p].place]
           removed == [processes EXCEPT ![p] = r]
           s == processes[p].splint
           P == EntriesOf(LeavesOf(leaves, leaves[s].lair))
           Q == {p} \cap At("entry")
<1>1. /\ p \in Started /\ ~ processes[p].alive /\ PermitFree /\ IsTable(processes)
      /\ UNCHANGED <<reserved, connected, cleaning>>
      /\ connected' \subseteq Connection /\ cleaning' \subseteq Connection
  BY DEF FinishKill, IInv, Types
<1>2. processes[p] \in Runtime
  BY <1>1 DEF IsTable, Started
<1>3. /\ r \in Runtime /\ r.splint = processes[p].splint
      /\ r.place = IF p \in At("entry") THEN "gone" ELSE processes[p].place
      /\ r.alive => processes[p].alive
  <2>1. r.splint = processes[p].splint /\ r.alive = processes[p].alive
        /\ r.place = IF p \in At("entry") THEN "gone" ELSE processes[p].place
    BY <1>2 DEF Runtime
  <2>2. r \in Runtime
    BY <1>2, Zenon DEF Runtime
  <2> QED BY <2>1, <2>2, Zenon
<1>4. DOMAIN removed = DOMAIN processes
  BY <1>1 DEF IsTable
<1>5. \/ Retire(leaves[s].lair) /\ InitialExit(p) /\ processes' = Kept(MovedIn(removed, P, "held")) /\ UNCHANGED saved
      \/ /\ RecordExit(p) \/ UNCHANGED <<leaves, saved>>
         /\ processes' = Kept(removed) /\ UNCHANGED <<lairs, leases, transaction>>
  BY DEF FinishKill
<1> HIDE DEF r
<1>6. Rehoused(removed, processes, {p}, r.place)
  BY <1>1, <1>3, ChangedOne DEF Started
<1> HIDE DEF removed
<1>7. Rehoused(removed, processes, Q, "gone")
  <2>1. CASE p \in At("entry")
    <3>1. Q = {p} /\ r.place = "gone"
      BY <1>3, <2>1
    <3> QED BY <1>6, <3>1, Zenon
  <2>2. CASE p \notin At("entry")
    <3>1. Q = {} /\ r.place = processes[p].place
      BY <1>3, <2>2
    <3> QED BY <1>6, <3>1, PutBack
  <2> QED BY <2>1, <2>2, Zenon
<1>8. CASE Retire(leaves[s].lair) /\ InitialExit(p) /\ processes' = Kept(MovedIn(removed, P, "held")) /\ UNCHANGED saved
  <2>1. leaves[s].lair \in DOMAIN leases /\ s \in LeavesOf(leaves, leaves[s].lair)
    BY <1>1, <1>8, InitialExitLease, Zenon
  <2>2. Q \subseteq P
    BY <2>1, Zenon DEF EntriesOf
  <2> HIDE DEF P, Q
  <2>3. Rehoused(processes', processes, P, "held")
    BY <1>4, <1>7, <1>8, <2>2, MovedAfter, Zenon DEF Places
  <2>4. \A m \in DOMAIN leases : leases[m].owner \in connected' \cup cleaning'
    BY <1>1, Zenon DEF IInv, Leased
  <2> QED BY <1>1, <1>8, <2>1, <2>3, <2>4, RetireKeeps, Zenon DEF P
<1>9. CASE /\ RecordExit(p) \/ UNCHANGED <<leaves, saved>>
           /\ processes' = Kept(removed) /\ UNCHANGED <<lairs, leases, transaction>>
  <2>1. Rehoused(processes', processes, Q, "gone")
    BY <1>7, <1>9, KeptRehoused
  <2>2. \A q \in Q : ~ processes[q].alive
    BY <1>1
  <2> HIDE DEF Q
  <2> QED BY <1>1, <1>9, <2>1, <2>2, RecordKeeps
<1> QED BY <1>5, <1>8, <1>9, Zenon

(* Remove: leaves, their Lairs and their processes go together. *)
LEMMA RemoveKeeps ==
  ASSUME IInv, NEW S, NEW L \in SUBSET Lair, Remove(S, L)
  PROVE IInv' /\ Counts /\ TakesProcess
<1> DEFINE lr == [l \in Lair |-> IF l \in L THEN "absent" ELSE lairs[l]]
           lv == Without(leaves, S)
<1>1. /\ PermitFree /\ saved' = Document(lr, lv) /\ lairs' = lr /\ leaves' = lv
      /\ leases' = Without(leases, L) /\ processes' = Moved(EntriesOf(S), "retiring")
      /\ UNCHANGED <<reserved, connected, cleaning, transaction>>
  BY DEF Remove, Persist
<1>2. /\ lairs \in [Lair -> Retention] /\ leaves \in [DOMAIN leaves -> Leaf] /\ DOMAIN leaves \subseteq Splint
      /\ leases \in [DOMAIN leases -> Lease] /\ DOMAIN leases \subseteq Lair /\ IsTable(processes)
  BY DEF IInv, Types, IsLeaves, IsLeases
<1>3. lr \in [Lair -> Retention] /\ \A l \in Lair : lr[l] = "transient" <=> lairs[l] = "transient" /\ l \notin L
  BY <1>2 DEF Retention
<1>4. /\ DOMAIN lv = DOMAIN leaves \ S /\ lv \in [DOMAIN lv -> Leaf]
      /\ \A s \in DOMAIN lv : lv[s] = leaves[s]
  BY <1>2 DEF Without
<1> HIDE DEF lr, lv
<1>5. IsLeaves(lv)
  BY <1>2, <1>4 DEF IsLeaves
<1>6. IsDocument(saved') /\ Structured(saved', lairs', leaves')
  BY <1>1, <1>3, <1>5, DocumentFits
<1>7. /\ DOMAIN leases' = DOMAIN leases \ L /\ leases' \in [DOMAIN leases' -> Lease]
      /\ \A l \in DOMAIN leases' : leases'[l] = leases[l]
  BY <1>1, <1>2 DEF Without
<1>8. /\ transaction' = Free /\ reserved' = 0 /\ At("held") = {}
      /\ DOMAIN leases = {l \in Lair : lairs[l] = "transient"}
  BY <1>1, AtRest, Zenon
<1>9. Rehoused(processes', processes, EntriesOf(S), "retiring") /\ EntriesOf(S) \subseteq Owned
  BY <1>1, <1>2, MovedTable DEF Places, EntriesOf, At, Owned
<1>10. At("held")' = {} /\ At("entry")' = At("entry") \ EntriesOf(S)
  <2>1. At("held")' = At("held") \ EntriesOf(S)
    BY <1>9, RehousedAt
  <2>2. At("entry")' = At("entry") \ EntriesOf(S)
    BY <1>9, RehousedAt
  <2> QED BY <1>8, <2>1, <2>2, Zenon
<1>11. Shape' /\ Hands' /\ Counts /\ GoneIsDead' /\ Unrivalled' /\ Validated'
  BY <1>8, <1>9, <1>10, Settles, Zenon
<1>12. IsLeases(leases')
  BY <1>2, <1>7 DEF IsLeases
<1>13. Types'
  BY <1>1, <1>3, <1>5, <1>6, <1>9, <1>12, Zenon DEF IInv, Types, Rehoused
<1>14. Visible'
  <2>1. ASSUME NEW p \in At("entry")', processes'[p].alive
        PROVE processes'[p].splint \in DOMAIN leaves' /\ leaves'[processes'[p].splint].state = "Running"
    <3>1. /\ p \in At("entry") /\ processes'[p].splint = processes[p].splint /\ processes[p].alive
      BY <1>9, <2>1, EntriesShrink
    <3>2. processes[p].splint \in DOMAIN leaves /\ leaves[processes[p].splint].state = "Running"
      BY <1>1, <3>1, AtRest, Zenon
    <3>3. processes[p].splint \notin S
      BY <1>10, <3>1 DEF EntriesOf
    <3> QED BY <1>1, <1>4, <3>1, <3>2, <3>3, Zenon
  <2>2. Pc' = "free"
    BY <1>8, FreeShape
  <2> QED BY <2>1, <2>2 DEF Visible
<1>15. Leased'
  <2>1. DOMAIN leases' = {l \in Lair : lairs'[l] = "transient"} \cup Coming'
    BY <1>1, <1>3, <1>7, <1>8, FreeShape
  <2>2. \A l \in DOMAIN leases' : leases'[l].owner \in connected' \cup cleaning'
    BY <1>1, <1>7 DEF IInv, Leased
  <2>3. \A l, m \in DOMAIN leases' : leases'[l].owner = leases'[m].owner => l = m
    BY <1>7 DEF IInv, Leased
  <2> QED BY <2>1, <2>2, <2>3 DEF Leased
<1>16. Durable'
  BY <1>6, <1>8, FreeShape, Zenon DEF Durable
<1>17. TakesProcess
  BY <1>1, <1>4, <1>10 DEF TakesProcess, EntryOf, EntriesOf
<1> QED BY <1>11, <1>13, <1>14, <1>15, <1>16, <1>17, Zenon DEF IInv

(* SetLairRetention and PromoteLair: only the kind of a Lair changes. *)
LEMMA RekindKeeps ==
  ASSUME IInv, PermitFree, NEW l \in Lair, NEW kind \in Persistent,
         lairs' = [lairs EXCEPT ![l] = kind], Persist(lairs', leaves),
         \/ lairs[l] \in Persistent /\ leases' = leases
         \/ lairs[l] = "transient" /\ leases' = Without(leases, {l}),
         UNCHANGED <<leaves, processes, reserved, connected, cleaning, transaction>>
  PROVE IInv' /\ Counts
<1>1. /\ lairs \in [Lair -> Retention] /\ leases \in [DOMAIN leases -> Lease] /\ IsLeases(leases)
      /\ DOMAIN leases \subseteq Lair /\ IsTable(processes) /\ IsLeaves(leaves)
  BY DEF IInv, Types, IsLeases
<1>2. lairs' \in [Lair -> Retention] /\ lairs'[l] = kind /\ kind # "transient"
      /\ \A m \in Lair : m # l => lairs'[m] = lairs[m]
  BY <1>1 DEF Retention, Persistent
<1>3. IsDocument(saved') /\ Structured(saved', lairs', leaves')
  BY <1>1, <1>2, DocumentFits, Zenon DEF Persist
<1>4. /\ transaction' = Free /\ reserved' = 0 /\ At("held") = {} /\ ~ Early
      /\ DOMAIN leases = {m \in Lair : lairs[m] = "transient"}
  BY AtRest, Zenon
<1>5. /\ IsLeases(leases') /\ DOMAIN leases' = DOMAIN leases \ {l}
      /\ \A m \in DOMAIN leases' : leases'[m] = leases[m]
  <2>1. CASE lairs[l] \in Persistent /\ leases' = leases
    BY <1>1, <1>4, <2>1 DEF Persistent
  <2>2. CASE leases' = Without(leases, {l})
    <3>1. /\ DOMAIN leases' = DOMAIN leases \ {l} /\ leases' \in [DOMAIN leases' -> Lease]
          /\ \A m \in DOMAIN leases' : leases'[m] = leases[m]
      BY <1>1, <2>2 DEF Without
    <3> QED BY <1>1, <3>1 DEF IsLeases
  <2> QED BY <2>1, <2>2, Zenon
<1>6. Rehoused(processes', processes, {}, "retiring")
  BY <1>1, Unmoved
<1>7. At("held")' = {}
  BY <1>4 DEF At, Started
<1>8. Shape' /\ Hands' /\ Counts /\ GoneIsDead' /\ Unrivalled' /\ Validated' /\ Visible'
  BY <1>4, <1>6, <1>7, Settles, Zenon
<1>9. Types'
  BY <1>2, <1>3, <1>5, Zenon DEF IInv, Types
<1>10. Leased'
  <2>1. DOMAIN leases' = {m \in Lair : lairs'[m] = "transient"} \cup Coming'
    BY <1>2, <1>4, <1>5, FreeShape, Zenon
  <2>2. \A m \in DOMAIN leases' : leases'[m].owner \in connected' \cup cleaning'
    BY <1>5, Zenon DEF IInv, Leased
  <2>3. \A m, n \in DOMAIN leases' : leases'[m].owner = leases'[n].owner => m = n
    BY <1>5, Zenon DEF IInv, Leased
  <2> QED BY <2>1, <2>2, <2>3, Zenon DEF Leased
<1>11. Durable'
  BY <1>3, <1>4, FreeShape, Zenon DEF Durable
<1> QED BY <1>8, <1>9, <1>10, <1>11, Zenon DEF IInv

(* The empty daemon, at first and after a restart, fits any document that  *)
(* holds what it was started from.                                         *)
Empty ==
  /\ lairs \in [Lair -> Persistent \cup {"absent"}] /\ IsLeaves(leaves) /\ IsDocument(saved)
  /\ Structured(saved, lairs, leaves) /\ processes = << >> /\ reserved = 0 /\ leases = << >>
  /\ connected = Connection /\ cleaning = {} /\ transaction = Free

LEMMA EmptyFits == Empty => IInv
<1> SUFFICES ASSUME Empty PROVE IInv
  OBVIOUS
<1> USE DEF Empty
<1>1. Started = {} /\ DOMAIN leases = {}
  BY NothingIsTyped DEF Started
<1>2. Owned = {} /\ \A q : At(q) = {}
  BY <1>1 DEF Owned, At
<1>3. IsTable(processes) /\ IsLeases(leases)
  BY NothingIsTyped DEF IsTable, IsLeases
<1>4. Types
  BY <1>3, FreeFacts DEF Types, Retention
<1>5. Shape /\ ~ Launching /\ Pc = "free" /\ ~ Holding /\ ~ Early /\ ~ Written /\ Coming = {}
  BY FreeShape
<1>7. Hands /\ GoneIsDead /\ Unrivalled /\ Visible /\ Validated
  BY <1>2, <1>5, Zenon DEF Hands, GoneIsDead, Unrivalled, Visible, Validated
<1>8. Leased
  BY <1>1, <1>5 DEF Leased, Persistent
<1>9. Durable
  BY <1>5 DEF Durable
<1> QED BY <1>4, <1>5, <1>7, <1>8, <1>9, Zenon DEF IInv

(* Restart: the document brings back the persistent Lairs. *)
LEMMA RestartKeeps ==
  ASSUME IInv, Restart
  PROVE IInv' /\ Counts /\ TakesProcess
<1>1. /\ lairs' = saved.lairs /\ leaves' = saved.leaves /\ processes' = << >> /\ reserved' = 0
      /\ leases' = << >> /\ connected' = Connection /\ cleaning' = {} /\ transaction' = Free
      /\ saved' = saved
  BY DEF Restart
<1>2. IsDocument(saved)
  BY DEF IInv, Types
<1>3. Structured(saved, saved.lairs, saved.leaves)
  BY <1>2 DEF IsDocument, Structured
<1>4. Empty'
  BY <1>1, <1>2, <1>3, Zenon DEF Empty, IsDocument
<1>5. IInv'
  BY <1>4, EmptyFits, PTL
<1>6. At("entry")' = {} /\ Owned' = {}
  BY <1>1, NothingIsTyped DEF At, Owned, Started
<1>7. Pc' # "spawn"
  BY <1>1 DEF Pc, Free
<1> QED BY <1>5, <1>6, <1>7 DEF TakesProcess, Counts, Shrinks

(* Every step of a launch leaves the leaves, but for the last. *)
LEMMA InstallTakes ==
  ASSUME IInv, Install
  PROVE TakesProcess
<1> SUFFICES ASSUME NEW s \in DOMAIN leaves \ DOMAIN leaves', NEW p \in EntryOf(s)
             PROVE Op = "create_lair" /\ leaves[s].lair = transaction.retired /\ ~ processes[p].alive
  BY Zenon DEF TakesProcess
<1>1. /\ s \in LeavesOf(leaves, transaction.retired) /\ s # Target /\ leaves[s].state = "Exited"
      /\ Op = "create_lair"
  BY InstallTopology, Zenon
<1>2. processes[InHand].splint = Target
  BY InstallRegisters
<1>3. p \in At("entry") /\ processes[p].splint = s /\ p # InHand
  BY <1>1, <1>2 DEF EntryOf
<1>4. ~ processes[p].alive
  BY <1>1, <1>3 DEF IInv, Visible
<1> QED BY <1>1, <1>4, Zenon DEF LeavesOf

LEMMA GiveUpTakes ==
  ASSUME Types, GiveUp
  PROVE TakesProcess
<1>1. DOMAIN leaves' = DOMAIN leaves
  <2>1. CASE Op = "preset"
    BY <2>1 DEF GiveUp, Types, IsLeaves
  <2>2. CASE Op # "preset"
    BY <2>2 DEF GiveUp
  <2> QED BY <2>1, <2>2, Zenon
<1> QED BY <1>1 DEF TakesProcess

LEMMA LaunchStepKeeps ==
  ASSUME IInv, LaunchStep
  PROVE IInv' /\ Counts /\ TakesProcess
<1>0. Types /\ (UNCHANGED leaves => TakesProcess)
  BY DEF IInv, TakesProcess
<1>1. CASE ReserveSlot
  <2>1. GiveUp \/ UNCHANGED leaves
    BY <1>1 DEF ReserveSlot
  <2> QED BY <1>0, <1>1, <2>1, ReserveKeeps, GiveUpTakes
<1>2. CASE SpawnRuntime
  <2>1. GiveUp \/ UNCHANGED leaves
    BY <1>2, Zenon DEF SpawnRuntime
  <2> QED BY <1>0, <1>2, <2>1, SpawnKeeps, GiveUpTakes
<1>3. CASE InsertFirst
  BY <1>0, <1>3, InsertKeeps DEF InsertFirst
<1>4. CASE PersistLaunch
  <2>1. GiveUp \/ UNCHANGED leaves
    BY <1>4 DEF PersistLaunch
  <2> QED BY <1>0, <1>4, <2>1, PersistKeeps, GiveUpTakes
<1>5. CASE Install
  BY <1>5, InstallKeeps, InstallTakes
<1>6. CASE ObserveTransient
  BY <1>0, <1>6, ObserveTransientKeeps DEF ObserveTransient
<1>7. CASE ShutdownRetired
  BY <1>0, <1>7, ShutdownKeeps DEF ShutdownRetired
<1> QED BY <1>1, <1>2, <1>3, <1>4, <1>5, <1>6, <1>7 DEF LaunchStep

(* The requests that begin a launch. *)
LEMMA RequestsKeep ==
  ASSUME IInv, NEW l \in Lair, NEW s \in Splint,
         \/ \E r \in Lair \cup {NoLair} : CreateLair(l, r, s)
         \/ \E k \in Connection :
              \/ CreateTransientLair(k, l, s)
              \/ \E promote \in BOOLEAN : NewDojo(k, l, s, promote)
         \/ SplitSplint(l, s)
         \/ \E t \in Splint : MaterializePreset(l, s, t)
  PROVE IInv' /\ Counts /\ TakesProcess
<1>0. DOMAIN leaves \subseteq DOMAIN leaves' => TakesProcess
  BY Zenon DEF TakesProcess
<1>1. ASSUME NEW r \in Lair \cup {NoLair}, CreateLair(l, r, s)
      PROVE IInv' /\ Counts /\ TakesProcess
  BY <1>0, <1>1, CreateLairKeeps, Zenon DEF CreateLair
<1>2. ASSUME NEW k \in Connection, CreateTransientLair(k, l, s)
      PROVE IInv' /\ Counts /\ TakesProcess
  BY <1>0, <1>2, CreateTransientKeeps, Zenon DEF CreateTransientLair
<1>3. ASSUME NEW k \in Connection, NEW promote \in BOOLEAN, NewDojo(k, l, s, promote)
      PROVE IInv' /\ Counts /\ TakesProcess
  <2>1. /\ Fresh(s) /\ Begin("new_dojo", l, NoLair, <<s>>, promote)
        /\ UNCHANGED <<lairs, leaves, saved, processes, reserved, leases, connected, cleaning>>
    BY <1>3 DEF NewDojo
  <2> QED BY <1>0, <2>1, SplitKeeps
<1>4. ASSUME SplitSplint(l, s)
      PROVE IInv' /\ Counts /\ TakesProcess
  <2>1. /\ Fresh(s) /\ Begin("split", l, NoLair, <<s>>, FALSE)
        /\ UNCHANGED <<lairs, leaves, saved, processes, reserved, leases, connected, cleaning>>
    BY <1>4, Zenon DEF SplitSplint
  <2> QED BY <1>0, <2>1, SplitKeeps, Zenon
<1>5. ASSUME NEW t \in Splint, MaterializePreset(l, s, t)
      PROVE IInv' /\ Counts /\ TakesProcess
  <2>1. DOMAIN leaves \subseteq DOMAIN leaves'
    BY <1>5, Zenon DEF MaterializePreset
  <2> QED BY <1>0, <1>5, <2>1, MaterializeKeeps, Zenon
<1> QED BY <1>1, <1>2, <1>3, <1>4, <1>5, Zenon

(* The requests that end one, by Splint and by Lair. *)
LEMMA RemovalsKeep ==
  ASSUME IInv,
         \/ \E s \in Splint : \/ RelaunchSplint(s) \/ KillSplint(s)
                              \/ \E generated \in BOOLEAN : CloseUnusedDojo(s, generated)
         \/ \E S \in SUBSET Splint : CloseSplints(S)
         \/ \E l \in Lair :
              \/ TerminateLair(l)
              \/ \E retention \in Persistent : SetLairRetention(l, retention)
              \/ \E k \in Connection : PromoteLair(k, l)
  PROVE IInv' /\ Counts /\ TakesProcess
<1>0. UNCHANGED leaves => TakesProcess
  BY Zenon DEF TakesProcess
<1>1. ASSUME NEW s \in Splint, RelaunchSplint(s) PROVE IInv' /\ Counts /\ TakesProcess
  BY <1>0, <1>1, RelaunchKeeps, Zenon DEF RelaunchSplint
<1>2. ASSUME NEW s \in Splint, KillSplint(s) PROVE IInv' /\ Counts /\ TakesProcess
  BY <1>0, <1>2, KillKeeps, Zenon DEF KillSplint
<1>3. ASSUME NEW s \in Splint, NEW generated \in BOOLEAN, CloseUnusedDojo(s, generated)
      PROVE IInv' /\ Counts /\ TakesProcess
  <2>1. leaves[s].lair \in Lair
    BY <1>3 DEF CloseUnusedDojo, IInv, Types, IsLeaves, Leaf
  <2>2. \E L \in SUBSET Lair : Remove({s}, L)
    BY <1>3, <2>1, Zenon DEF CloseUnusedDojo
  <2> QED BY <2>2, RemoveKeeps
<1>4. ASSUME NEW S \in SUBSET Splint, CloseSplints(S) PROVE IInv' /\ Counts /\ TakesProcess
  <2>1. Remove(S, {})
    BY <1>4, Zenon DEF CloseSplints
  <2> QED BY <2>1, RemoveKeeps
<1>5. ASSUME NEW l \in Lair, TerminateLair(l) PROVE IInv' /\ Counts /\ TakesProcess
  <2>1. Remove(LeavesOf(leaves, l), {l})
    BY <1>5 DEF TerminateLair
  <2> QED BY <2>1, RemoveKeeps
<1>6. ASSUME NEW l \in Lair, NEW retention \in Persistent, SetLairRetention(l, retention)
      PROVE IInv' /\ Counts /\ TakesProcess
  <2>1. /\ PermitFree /\ lairs[l] \in Persistent /\ lairs' = [lairs EXCEPT ![l] = retention]
        /\ Persist(lairs', leaves)
        /\ UNCHANGED <<leaves, processes, reserved, leases, connected, cleaning, transaction>>
    BY <1>6 DEF SetLairRetention
  <2> QED BY <1>0, <2>1, RekindKeeps, Zenon
<1>7. ASSUME NEW l \in Lair, NEW k \in Connection, PromoteLair(k, l)
      PROVE IInv' /\ Counts /\ TakesProcess
  <2>1. /\ PermitFree /\ lairs[l] = "transient" /\ lairs' = [lairs EXCEPT ![l] = "disposable"]
        /\ Persist(lairs', leaves) /\ leases' = Without(leases, {l})
        /\ UNCHANGED <<leaves, processes, reserved, connected, cleaning, transaction>>
    BY <1>7 DEF PromoteLair, MayPromote
  <2>2. "disposable" \in Persistent
    BY DEF Persistent
  <2> QED BY <1>0, <2>1, <2>2, RekindKeeps, Zenon
<1> QED BY <1>1, <1>2, <1>3, <1>4, <1>5, <1>6, <1>7, Zenon

(* Connections and processes. *)
LEMMA EventsKeep ==
  ASSUME IInv,
         \/ \E k \in Connection : Connect(k) \/ Disconnect(k) \/ CleanupConnection(k)
         \/ \E p \in Process : ProcessExit(p) \/ RetireDone(p) \/ ObserveExit(p) \/ FinishKill(p)
  PROVE IInv' /\ Counts /\ TakesProcess
<1>0. UNCHANGED leaves => TakesProcess
  BY DEF TakesProcess
<1>1. ASSUME NEW k \in Connection, Connect(k) PROVE IInv' /\ Counts /\ TakesProcess
  BY <1>0, <1>1, ConnectKeeps DEF Connect
<1>2. ASSUME NEW k \in Connection, Disconnect(k) PROVE IInv' /\ Counts /\ TakesProcess
  BY <1>0, <1>2, DisconnectKeeps, Zenon DEF Disconnect
<1>3. ASSUME NEW k \in Connection, CleanupConnection(k) PROVE IInv' /\ Counts /\ TakesProcess
  BY <1>3, CleanupKeeps
<1>4. ASSUME NEW p \in Process, ProcessExit(p) PROVE IInv' /\ Counts /\ TakesProcess
  BY <1>0, <1>4, ExitKeeps, Zenon DEF ProcessExit
<1>5. ASSUME NEW p \in Process, RetireDone(p) PROVE IInv' /\ Counts /\ TakesProcess
  BY <1>0, <1>5, RetireDoneKeeps DEF RetireDone
<1>6. ASSUME NEW p \in Process, ObserveExit(p) PROVE IInv' /\ Counts /\ TakesProcess
  BY <1>6, ObserveExitKeeps
<1>7. ASSUME NEW p \in Process, FinishKill(p) PROVE IInv' /\ Counts /\ TakesProcess
  BY <1>7, FinishKillKeeps
<1> QED BY <1>1, <1>2, <1>3, <1>4, <1>5, <1>6, <1>7, Zenon

-----------------------------------------------------------------------------
(* Theorems.                                                               *)

(* Nothing happens. *)
LEMMA StutterKeeps ==
  ASSUME IInv, UNCHANGED vars
  PROVE IInv' /\ Counts
<1>1. /\ UNCHANGED <<lairs, leaves, saved, processes, reserved, leases, transaction>>
      /\ UNCHANGED <<connected, cleaning>>
  BY DEF vars
<1>2. connected' \subseteq Connection /\ cleaning' \subseteq Connection
  BY <1>1 DEF IInv, Types
<1>3. \A l \in DOMAIN leases : leases[l].owner \in connected' \cup cleaning'
  BY <1>1 DEF IInv, Leased
<1> QED BY <1>1, <1>2, <1>3, ConnectionsOnly

(* Every step keeps the invariant and takes processes with their leaves. *)
LEMMA NextKeeps ==
  ASSUME IInv, Next
  PROVE IInv' /\ Counts /\ TakesProcess
BY LaunchStepKeeps, RequestsKeep, RemovalsKeep, EventsKeep, RestartKeeps DEF Next

LEMMA InitFits == Init => IInv
<1> SUFFICES ASSUME Init PROVE IInv
  OBVIOUS
<1>1. lairs = [l \in Lair |-> "absent"] /\ leaves = << >> /\ saved = Document(lairs, leaves)
  BY DEF Init
<1>2. lairs \in [Lair -> Persistent \cup {"absent"}] /\ lairs \in [Lair -> Retention]
  BY <1>1 DEF Retention
<1>3. IsLeaves(leaves)
  BY <1>1, NothingIsTyped DEF IsLeaves
<1>4. IsDocument(saved) /\ Structured(saved, lairs, leaves)
  BY <1>1, <1>2, <1>3, DocumentFits
<1>5. Empty
  BY <1>2, <1>3, <1>4 DEF Init, Empty
<1> QED BY <1>5, EmptyFits

(* The inductive invariant of RuntimeRegistry, the leases, the topology    *)
(* and its document holds wherever a request fails or is cut.              *)
THEOREM LaunchInvariant == Spec => []IInv
<1>1. IInv /\ [Next]_vars => IInv'
  BY NextKeeps, StutterKeeps
<1> QED BY <1>1, InitFits, PTL DEF Spec

(* The invariant says what a free permit means. *)
LEMMA InvariantMeans == IInv => NoSlotLeaks /\ RegistriesAgree
<1> SUFFICES ASSUME IInv, PermitFree
             PROVE /\ reserved = 0 /\ At("held") = {}
                   /\ LiveProcessIsVisible /\ DurableStructure /\ TransientHasOwner
  BY Zenon DEF NoSlotLeaks, RegistriesAgree, LiveProcessIsVisible, DurableStructure, TransientHasOwner
<1>1. /\ reserved = 0 /\ At("held") = {}
      /\ DOMAIN leases = {l \in Lair : lairs[l] = "transient"}
      /\ Structured(saved, lairs, leaves)
      /\ \A p \in At("entry") : processes[p].alive =>
           /\ processes[p].splint \in DOMAIN leaves
           /\ leaves[processes[p].splint].state = "Running"
  BY AtRest, Zenon
<1>2. Structured(Document(lairs, leaves), lairs, leaves)
  BY DocumentFits DEF IInv, Types
<1>3. DurableStructure
  BY <1>1, <1>2 DEF DurableStructure, Structured
<1>4. TransientHasOwner
  BY <1>1 DEF TransientHasOwner, IInv, Leased
<1>5. LiveProcessIsVisible
  BY <1>1, Zenon DEF LiveProcessIsVisible
<1> QED BY <1>1, <1>3, <1>4, <1>5, Zenon

-----------------------------------------------------------------------------
INSTANCE FiniteSetTheorems

(* The count with the slot that is not used yet stays within the limit.    *)
Counted == /\ IsFiniteSet(Owned)
           /\ Cardinality(Owned) + (IF Pc = "spawn" THEN 1 ELSE 0) <= MaxLive

(* Below the limit there is room for one more. *)
LEMMA Room ==
  ASSUME IsFiniteSet(Owned), Reserves
  PROVE IsFiniteSet(Owned') /\ Cardinality(Owned') + 1 <= MaxLive
<1> DEFINE E == At("entry")
           R == At("retiring")
<1>1. PICK own \in SUBSET E : ~ AtCapacity(Cardinality(own)) /\ Owned' = Owned \ own
  BY DEF Reserves
<1>2. Owned = E \cup R /\ E \cap R = {}
  BY Zenon DEF Reserves, Owned, At
<1>3. Used = Cardinality(E) + Cardinality(R)
  <2>1. Used = Cardinality(E) + Cardinality(R) + reserved /\ reserved = 0
    BY DEF Used, Reserves
  <2>2. Cardinality(E) \in Nat /\ Cardinality(R) \in Nat
    BY <1>2, FS_Subset, FS_CardinalityType
  <2> QED BY <2>1, <2>2
<1> HIDE DEF E, R
<1>4. IsFiniteSet(E) /\ IsFiniteSet(R) /\ IsFiniteSet(own)
  BY <1>2, FS_Subset
<1>5. Cardinality(Owned) = Cardinality(E) + Cardinality(R)
  <2>1. Cardinality(E \cup R) = Cardinality(E) + Cardinality(R) - Cardinality(E \cap R)
    BY <1>4, FS_Union
  <2>2. Cardinality(E \cap R) = 0
    BY <1>2, FS_EmptySet
  <2>3. Cardinality(E) \in Nat /\ Cardinality(R) \in Nat
    BY <1>4, FS_CardinalityType
  <2> QED BY <1>2, <2>1, <2>2, <2>3
<1>6. IsFiniteSet(Owned') /\ Cardinality(Owned') = Cardinality(Owned) - Cardinality(own)
  <2>1. Owned \cap own = own
    BY <1>2
  <2>2. IsFiniteSet(Owned \ own) /\ Cardinality(Owned \ own) = Cardinality(Owned) - Cardinality(Owned \cap own)
    BY FS_Difference, Zenon
  <2> QED BY <1>1, <2>1, <2>2, Zenon
<1>7. /\ Cardinality(Owned) \in Nat /\ Cardinality(own) \in Nat /\ MaxLive \in Nat
  BY <1>4, FS_CardinalityType, LaunchAssumption
<1>8. ~ (Cardinality(Owned) - Cardinality(own) >= MaxLive)
  BY <1>1, <1>3, <1>5 DEF AtCapacity
<1> QED BY <1>6, <1>7, <1>8

(* Every step keeps the count. *)
LEMMA CountKept ==
  ASSUME Counted, Counts
  PROVE Counted'
<1>1. Cardinality(Owned) \in Nat /\ MaxLive \in Nat
  BY FS_CardinalityType, LaunchAssumption DEF Counted
<1>2. CASE Shrinks
  <2>1. /\ IsFiniteSet(Owned') /\ Cardinality(Owned') \in Nat
        /\ Cardinality(Owned') <= Cardinality(Owned)
    BY <1>2, FS_Subset, FS_CardinalityType DEF Counted, Shrinks
  <2> QED BY <1>1, <1>2, <2>1 DEF Counted, Shrinks
<1>3. CASE Reserves
  <2>1. IsFiniteSet(Owned') /\ Cardinality(Owned') + 1 <= MaxLive
    BY <1>3, Room DEF Counted
  <2>2. Cardinality(Owned') \in Nat
    BY <2>1, FS_CardinalityType
  <2> QED BY <1>1, <2>1, <2>2 DEF Counted
<1>4. CASE Spawns
  <2>1. PICK p : Owned' = Owned \cup {p}
    BY <1>4 DEF Spawns
  <2>2. /\ IsFiniteSet(Owned \cup {p})
        /\ Cardinality(Owned \cup {p}) = IF p \in Owned THEN Cardinality(Owned) ELSE Cardinality(Owned) + 1
    BY FS_AddElement, Zenon DEF Counted
  <2>3. IsFiniteSet(Owned') /\ Cardinality(Owned') \in Nat /\ Cardinality(Owned') <= Cardinality(Owned) + 1
    BY <1>1, <2>1, <2>2
  <2>4. Cardinality(Owned) + 1 <= MaxLive /\ Pc' # "spawn"
    BY <1>4 DEF Counted, Spawns
  <2> QED BY <1>1, <2>3, <2>4 DEF Counted
<1> QED BY <1>2, <1>3, <1>4 DEF Counts

LEMMA InitCounts == Init => Counted
<1> SUFFICES ASSUME Init PROVE Counted
  OBVIOUS
<1>1. Owned = {}
  BY NothingIsTyped DEF Init, Owned, Started
<1>2. Pc # "spawn"
  BY DEF Init, Pc, Free
<1> QED BY <1>1, <1>2, FS_EmptySet, LaunchAssumption DEF Counted

(* The limit counts what RuntimeRegistry, RetiringRuntimes and a launch    *)
(* own; the slot of a launch is in the count before its process is.        *)
THEOREM CountHolds == Spec => [](IInv /\ Counted)
<1>1. IInv /\ Counted /\ [Next]_vars => (IInv /\ Counted)'
  BY NextKeeps, StutterKeeps, CountKept
<1> QED BY <1>1, InitFits, InitCounts, PTL DEF Spec

LEMMA InvariantBounds == IInv /\ Counted => LiveLimit
<1> SUFFICES ASSUME IInv, Counted PROVE LiveLimit
  OBVIOUS
<1> DEFINE A == {p \in Started \ At("orphan") : processes[p].alive}
<1>1. A \subseteq Owned
  <2> SUFFICES ASSUME NEW p \in A PROVE p \in Owned
    OBVIOUS
  <2>1. p \in Started /\ processes[p].alive /\ p \notin At("orphan")
    OBVIOUS
  <2>2. processes[p].place \in {"entry", "held", "retiring", "gone", "orphan"}
    BY <2>1 DEF IInv, Types, IsTable, Runtime, Started
  <2>3. processes[p].place # "gone" /\ processes[p].place # "orphan"
    BY <2>1 DEF IInv, GoneIsDead, At
  <2> QED BY <2>1, <2>2, <2>3 DEF Owned
<1> HIDE DEF A
<1>2. IsFiniteSet(Owned) /\ Cardinality(Owned) \in Nat
  BY FS_CardinalityType DEF Counted
<1>3. Cardinality(A) \in Nat /\ Cardinality(A) <= Cardinality(Owned)
  BY <1>1, <1>2, FS_Subset, FS_CardinalityType
<1>4. Cardinality(A) <= MaxLive
  BY <1>2, <1>3, LaunchAssumption DEF Counted
<1>5. ASSUME NEW s \in Splint PROVE Cardinality(EntryOf(s)) <= 1
  <2>1. CASE EntryOf(s) = {}
    BY <2>1, FS_EmptySet
  <2>2. CASE EntryOf(s) # {}
    <3>1. PICK p \in EntryOf(s) : TRUE
      BY <2>2
    <3>2. EntryOf(s) = {p}
      BY <3>1 DEF EntryOf, IInv, Unrivalled
    <3>3. Cardinality({p}) = 1
      BY FS_Singleton, Zenon
    <3> QED BY <3>2, <3>3
  <2> QED BY <2>1, <2>2, Zenon
<1> QED BY <1>4, <1>5 DEF LiveLimit, A

(* RuntimeRegistry never owns more than MAX_LIVE_SPLINTS running           *)
(* processes, nor two for one Splint, for any limit.                       *)
THEOREM LiveLimitHolds == Spec => []LiveLimit
BY CountHolds, InvariantBounds, PTL

(* No LaunchSlot outlives its request. *)
THEOREM SlotsAreReturned == Spec => []NoSlotLeaks
BY LaunchInvariant, InvariantMeans, PTL

(* Between transactions the registry, the topology, its document and the   *)
(* transient leases agree.                                                 *)
THEOREM RegistriesStayInStep == Spec => []RegistriesAgree
BY LaunchInvariant, InvariantMeans, PTL

(* A leaf leaves with its registered process, but for the exited ones of   *)
(* a Lair that create_lair replaces.                                       *)
THEOREM ProcessesLeaveWithLeaves == Spec => LeavesTakeProcesses
<1>1. IInv /\ [Next]_vars =>
        [\A s \in DOMAIN leaves \ DOMAIN leaves' : \A p \in EntryOf(s) :
           \/ p \notin At("entry")'
           \/ Op = "create_lair" /\ leaves[s].lair = transaction.retired
                /\ ~processes[p].alive]_vars
  BY NextKeeps DEF TakesProcess
<1> QED BY <1>1, LaunchInvariant, PTL DEF Spec, LeavesTakeProcesses

=============================================================================

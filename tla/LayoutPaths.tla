----------------------------- MODULE LayoutPaths -----------------------------
(***************************************************************************)
(* What a Dojo's layout tree promises, without recursion: every leaf sits  *)
(* at a path of turns from the root, FALSE to the first child and TRUE to  *)
(* the second, and every proper prefix of a leaf's path is a branch with   *)
(* an axis and a ratio.                                                    *)
(***************************************************************************)
EXTENDS Naturals, Sequences, FiniteSets, TLC, SequencesExt

CONSTANTS Splint, Axis, Ratio

VARIABLES leaf,   \* path -> the Splint at that path
          branch  \* path -> the axis and the ratio of the branch there

vars == <<leaf, branch>>

PathOf(s) == CHOOSE p \in DOMAIN leaf : leaf[p] = s

Shown == {leaf[p] : p \in DOMAIN leaf}

Init == \E s \in Splint : leaf = (<<>> :> s) /\ branch = <<>>

(* The leaf becomes a branch holding it and the new Splint. *)
Split(target, s, axis, ratio, second) ==
  /\ target \in Shown /\ s \notin Shown
  /\ LET p == PathOf(target)
     IN  /\ leaf' = [q \in DOMAIN leaf \ {p} |-> leaf[q]]
                       @@ (Append(p, ~second) :> target) @@ (Append(p, second) :> s)
         /\ branch' = branch @@ (p :> [axis |-> axis, ratio |-> ratio])

(* Every path through the sibling loses the turn at the collapsed branch. *)
Close(target) ==
  /\ target \in Shown /\ Cardinality(Shown) > 1
  /\ LET p       == PathOf(target)
         parent  == Front(p)
         sibling == Append(parent, ~Last(p))
         Kept(q)  == q # p /\ q # parent
         Moved(q) == IF IsPrefix(sibling, q)
                     THEN parent \o SubSeq(q, Len(sibling) + 1, Len(q)) ELSE q
         Before(q, f) == CHOOSE o \in DOMAIN f : Kept(o) /\ Moved(o) = q
         Collapse(f)  == [q \in {Moved(o) : o \in {x \in DOMAIN f : Kept(x)}} |-> f[Before(q, f)]]
     IN  leaf' = Collapse(leaf) /\ branch' = Collapse(branch)

(* The ratio of the branch `ancestor` levels above the leaf's parent. *)
SetRatio(target, ancestor, ratio) ==
  /\ target \in Shown
  /\ LET p == PathOf(target)
     IN  /\ ancestor < Len(p)
         /\ branch' = [branch EXCEPT ![SubSeq(p, 1, Len(p) - 1 - ancestor)].ratio = ratio]
         /\ UNCHANGED leaf

Next == \E s \in Splint :
          \/ \E t \in Splint, a \in Axis, r \in Ratio, second \in BOOLEAN :
               Split(t, s, a, r, second)
          \/ Close(s)
          \/ \E k \in 0 .. Cardinality(Splint), r \in Ratio : SetRatio(s, k, r)

Spec == Init /\ [][Next]_vars
=============================================================================

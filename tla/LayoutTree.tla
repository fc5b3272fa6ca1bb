------------------------------ MODULE LayoutTree ------------------------------
(***************************************************************************)
(* The layout tree of a Dojo (layout.rs), with the recursive operations of *)
(* the code, under any sequence of splits, closes and ratio changes.       *)
(***************************************************************************)
EXTENDS Naturals, Sequences, FiniteSets, TLC

CONSTANTS Splint, Axis, Ratio

VARIABLE root

(* A node is a leaf or a branch. *)
Leaf(s) == [kind |-> "leaf", splint |-> s]
Branch(axis, ratio, first, second) ==
  [kind |-> "branch", axis |-> axis, ratio |-> ratio, first |-> first, second |-> second]

IsLeaf(n) == n.kind = "leaf"

(* find_splint. *)
RECURSIVE Holds(_, _)
Holds(n, s) == IF IsLeaf(n) THEN n.splint = s ELSE Holds(n.first, s) \/ Holds(n.second, s)

(* splint_count. *)
RECURSIVE SplintCount(_)
SplintCount(n) == IF IsLeaf(n) THEN 1 ELSE SplintCount(n.first) + SplintCount(n.second)

(* first_splint_id. *)
RECURSIVE FirstSplint(_)
FirstSplint(n) == IF IsLeaf(n) THEN n.splint ELSE FirstSplint(n.first)

(* layout_splint_ids: the leaves in order. *)
RECURSIVE Leaves(_)
Leaves(n) == IF IsLeaf(n) THEN <<n.splint>> ELSE Leaves(n.first) \o Leaves(n.second)

(* split. *)
RECURSIVE SplitNode(_, _, _, _, _, _)
SplitNode(n, target, s, axis, ratio, side) ==
  IF IsLeaf(n)
  THEN IF n.splint # target THEN n
       ELSE IF side = "first" THEN Branch(axis, ratio, Leaf(s), n)
                              ELSE Branch(axis, ratio, n, Leaf(s))
  ELSE IF Holds(n.first, target)
    THEN [n EXCEPT !.first = SplitNode(@, target, s, axis, ratio, side)]
    ELSE [n EXCEPT !.second = SplitNode(@, target, s, axis, ratio, side)]

(* remove: "gone" when the node itself went, else whether the target was   *)
(* found and the node that is left.                                        *)
Gone == [kind |-> "gone"]

(* The Branch arm of remove, from the results for its two children. *)
Removed(n, first, second) ==
  IF first.found /\ first.node = Gone THEN [found |-> TRUE, node |-> n.second]
  ELSE IF first.found THEN [found |-> TRUE, node |-> [n EXCEPT !.first = first.node]]
  ELSE IF second.found /\ second.node = Gone THEN [found |-> TRUE, node |-> n.first]
  ELSE [found |-> second.found, node |-> [n EXCEPT !.second = second.node]]

RECURSIVE RemoveNode(_, _)
RemoveNode(n, target) ==
  IF IsLeaf(n)
  THEN [found |-> n.splint = target, node |-> IF n.splint = target THEN Gone ELSE n]
  ELSE Removed(n, RemoveNode(n.first, target), RemoveNode(n.second, target))

(* path_to_target; the target is in the node. *)
RECURSIVE PathTo(_, _)
PathTo(n, target) ==
  IF IsLeaf(n) THEN <<>>
  ELSE IF Holds(n.first, target) THEN <<FALSE>> \o PathTo(n.first, target)
                                 ELSE <<TRUE>> \o PathTo(n.second, target)

(* The walk of set_ancestor_ratio down the first turns of the path. *)
RECURSIVE SetRatioAt(_, _, _)
SetRatioAt(n, path, ratio) ==
  IF path = <<>> THEN [n EXCEPT !.ratio = ratio]
  ELSE IF Head(path) THEN [n EXCEPT !.second = SetRatioAt(@, Tail(path), ratio)]
                     ELSE [n EXCEPT !.first = SetRatioAt(@, Tail(path), ratio)]

\* Mutant: the ancestor is counted from the root.
BranchDepthFromLeaf(path, ancestor) == ancestor

BranchDepth(path, ancestor) == Len(path) - 1 - ancestor

-----------------------------------------------------------------------------
Init == \E s \in Splint : root = Leaf(s)

(* split_splint_at, once the Dojo of the target is found. *)
Split(target, s, axis, ratio, side) ==
  /\ Holds(root, target) /\ ~Holds(root, s)
  /\ root' = SplitNode(root, target, s, axis, ratio, side)

(* close_splint_at; a Dojo whose last leaf goes is removed by the caller. *)
Close(s) ==
  LET result == RemoveNode(root, s)
  IN  /\ result.found /\ result.node # Gone
      /\ root' = result.node

(* set_split_ratio_at. *)
SetAncestorRatio(target, ancestor, ratio) ==
  /\ Holds(root, target)
  /\ LET path == PathTo(root, target)
     IN  /\ ancestor < Len(path)
         /\ root' = SetRatioAt(root, SubSeq(path, 1, BranchDepth(path, ancestor)), ratio)

Next == \E s \in Splint :
          \/ \E t \in Splint, a \in Axis, r \in Ratio, side \in {"first", "second"} :
               Split(t, s, a, r, side)
          \/ Close(s)
          \/ \E k \in 0 .. Cardinality(Splint), r \in Ratio : SetAncestorRatio(s, k, r)

Spec == Init /\ [][Next]_root

-----------------------------------------------------------------------------
(* The leaf and branch maps of a node. *)
RECURSIVE LeafMap(_)
LeafMap(n) ==
  LET Under(turn, f) == [p \in {<<turn>> \o q : q \in DOMAIN f} |-> f[Tail(p)]]
  IN  IF IsLeaf(n) THEN <<>> :> n.splint
      ELSE Under(FALSE, LeafMap(n.first)) @@ Under(TRUE, LeafMap(n.second))

RECURSIVE BranchMap(_)
BranchMap(n) ==
  LET Under(turn, f) == [p \in {<<turn>> \o q : q \in DOMAIN f} |-> f[Tail(p)]]
  IN  IF IsLeaf(n) THEN <<>>
      ELSE Under(FALSE, BranchMap(n.first)) @@ Under(TRUE, BranchMap(n.second))
             @@ (<<>> :> [axis |-> n.axis, ratio |-> n.ratio])

Paths == INSTANCE LayoutPaths WITH leaf <- LeafMap(root), branch <- BranchMap(root)

(* split, remove and set_ancestor_ratio do to the tree what LayoutPaths    *)
(* says for the same arguments: a split replaces one leaf in place, a      *)
(* close moves exactly the sibling's subtree up and keeps every other      *)
(* branch's axis and ratio, and a ratio change reaches the named ancestor  *)
(* of the leaf and no other.                                               *)
ImplementsPaths ==
  [][\A s \in Splint :
       /\ \A t \in Splint, a \in Axis, r \in Ratio, second \in BOOLEAN :
            Split(t, s, a, r, IF second THEN "second" ELSE "first")
              => Paths!Split(t, s, a, r, second)
       /\ Close(s) => Paths!Close(s)
       /\ \A k \in 0 .. Cardinality(Splint), r \in Ratio :
            SetAncestorRatio(s, k, r) => Paths!SetRatio(s, k, r)]_root

=============================================================================

----------------------------- MODULE TreeOrder -----------------------------
(***************************************************************************)
(* What the comments of tree.h promise of ForEach, as a recursive          *)
(* definition, and the properties that hold the loop against it.           *)
(***************************************************************************)
EXTENDS TreeWalk, FiniteSets, SequencesExt

(* The visits below the slots from..to of n, visits[m] those below m.      *)
BelowSlots(visits, n, from, to) ==
  FlattenSeq([k \in 1..(to - from + 1) |->
                LET m == sub[n][from + k - 1]
                IN  IF m = Nil THEN <<>> ELSE visits[m]])

(* The traversal of n and the nodes below: order 0 is pre-order, k visits  *)
(* a node after its k-th sub-node, a negative or too large order is        *)
(* post-order; the sub-nodes after the visit of an ignored node are not    *)
(* entered.                                                                *)
BelowNode(visits, n, ign) ==
  LET c == SubNodeCount(n)
  IN  IF order < 0 \/ order >= c THEN BelowSlots(visits, n, 1, c) \o <<n>>
      ELSE BelowSlots(visits, n, 1, order) \o <<n>>
           \o (IF n \in ign THEN <<>> ELSE BelowSlots(visits, n, order + 1, c))

Below(n, ign) ==
  LET visits[m \in Node] == BelowNode(visits, m, ign) IN visits[n]

(* At every moment of a traversal the callbacks made are the first ones of *)
(* the promised traversal: nothing is visited twice, out of order, or      *)
(* below an ignored node (tree.h, ForEach).  The promise ends where a      *)
(* callback answers > 0 on leaving a node: the code then walks the         *)
(* parent's sub-nodes again, as tree.h:242 says of post-order mode, but in *)
(* pre-order mode, too, for a node without sub-nodes, where tree.h:241     *)
(* promises that the answer only has sub-nodes ignored.                    *)
WalkOrder ==
  (pc # "idle" /\ purpose = "each" /\ stale = 0 /\ ~Reentered) =>
     IsPrefix(visited, Below(root, ignored))

(* A traversal that is neither broken off nor sent back visits everything: *)
(* when the loop of ForEach runs out of work the whole promised traversal  *)
(* has been made.                                                          *)
WalkComplete ==
  [][(AtEnd /\ stack = <<>> /\ purpose = "each" /\ stale = 0 /\ ~Reentered
      /\ pc' = "idle")
       => visited' = Below(root, ignored)]_vars
=============================================================================

------------------------------ MODULE TreeWalk ------------------------------
(***************************************************************************)
(* tree.h: the tree<T> container and its non-recursive traversal ForEach.  *)
(*                                                                         *)
(* A node is a model value; sub[n] is its mSubNodes buffer.  FixedN = 0    *)
(* stands for tree_node<VT,0>, whose buffer is a vector filled up to the   *)
(* capacity the client reserved, any other value for tree_node<VT,N>,      *)
(* whose buffer is an array of N slots that start null.                    *)
(*                                                                         *)
(* A traversal is a sequence of steps, one per callback or examined slot,  *)
(* so that what the client's callback answers is chosen at the moment the  *)
(* code asks for it.  Clear() is the traversal whose callback destroys the *)
(* node (node_deleter).                                                    *)
(***************************************************************************)
EXTENDS Integers, Sequences

CONSTANTS
  Node,      (* node addresses                                             *)
  Nil,       (* the null pointer                                           *)
  FixedN,    (* 0: tree_node<VT,0>;  N > 0: tree_node<VT,N>                *)
  Capacity,  (* what the client passes to SetSubNodeCapacity()             *)
  Orders,    (* the values of ForEach's "order" argument                   *)
  Outcomes,  (* how an onTraversal() of the client may end                 *)
  OneReentry,(* bound: TRUE if a client sends a traversal back to a        *)
             (* parent's first sub-node at most once                       *)
  MaxStale   (* bound: a client starts no traversal over a longer leftover *)
             (* of exceptions                                              *)

ASSUME TreeAssumption ==
  /\ Nil \notin Node
  /\ FixedN \in Nat
  /\ Capacity \in Nat
  /\ Orders \subseteq Int
  /\ MaxStale \in Nat
  /\ OneReentry \in BOOLEAN
  /\ Outcomes \subseteq {"zero", "positive", "negative", "throw"}

VARIABLES
  alive,    (* the nodes created and not destroyed yet                     *)
  sub,      (* mSubNodes of every node                                     *)
  root,     (* mRootNode                                                   *)
  stack,    (* mStackBuf: the suspended ancestors                          *)
  top,      (* the local stackTop: its mTreeNode and mNextSubNodeIdx       *)
  i,        (* the local i of the inner loop                               *)
  order,    (* the argument                                                *)
  purpose,  (* "each": a client's ForEach;  "clear": Clear();  "lend": a   *)
            (* ForEach whose caller takes the root back when it returns    *)
  pc,       (* "idle", "at" slot i before the order test, "past" that test *)
  visited,  (* history: the nodes onTraversal was called for, in order     *)
  ignored,  (* history: those whose pre- or in-order visit returned > 0,   *)
            (* and Nil once an answer > 0 on leaving a node has sent the   *)
            (* walk back to its parent's first sub-node                    *)
  stale     (* history: the items an exception had left on the stack       *)
            (* before this traversal started                               *)

nodeVars == <<alive, sub, root>>
walkVars == <<stack, top, i, order, purpose, pc, visited, ignored,
              stale>>
vars == <<nodeVars, walkVars>>

NodeOrNil == Node \cup {Nil}
StackItem == [node : NodeOrNil, next : Nat]
Item(n, k) == [node |-> n, next |-> k]

TypeOK ==
  /\ alive \in SUBSET Node
  /\ sub \in [Node -> Seq(NodeOrNil)]
  /\ root \in NodeOrNil
  /\ stack \in Seq(StackItem)
  /\ top \in StackItem
  /\ i \in Nat
  /\ order \in Int
  /\ purpose \in {"each", "clear", "lend"}
  /\ pc \in {"idle", "at", "past"}
  /\ visited \in Seq(Node)
  /\ ignored \in SUBSET NodeOrNil
  /\ stale \in Nat

Init ==
  /\ alive = {}
  /\ sub = [n \in Node |-> <<>>]
  /\ root = Nil
  /\ stack = <<>>
  /\ top = Item(Nil, 0)
  /\ i = 0
  /\ order = 0
  /\ purpose = "each"
  /\ pc = "idle"
  /\ visited = <<>>
  /\ ignored = {}
  /\ stale = 0

-----------------------------------------------------------------------------
(***************************************************************************)
(* Building the tree, between traversals.                                  *)
(***************************************************************************)
SubNodeCount(n) == Len(sub[n])

(* c hangs below some node. *)
Attached(c) == \E n \in Node : \E k \in 1..Len(sub[n]) : sub[n][k] = c

Slots == IF FixedN = 0 THEN Capacity ELSE FixedN

(* SetSubNode(idx, c): overwrite an existing slot, append while there is   *)
(* room, otherwise refuse (the code returns 0).                            *)
SlotsAfterSet(s, idx, c) ==
  IF idx < Len(s) THEN [s EXCEPT ![idx + 1] = c]
  ELSE IF FixedN = 0 /\ Len(s) < Capacity THEN Append(s, c)
  ELSE s

(* The histories describe the last traversal until the tree changes.       *)
BetweenWalks ==
  /\ pc = "idle"
  /\ visited' = <<>>
  /\ ignored' = {}
  /\ UNCHANGED <<stack, top, i, order, purpose, pc, stale>>

CreateNode(n) ==
  /\ BetweenWalks
  /\ n \notin alive
  /\ alive' = alive \cup {n}
  /\ sub' = [sub EXCEPT ![n] = [k \in 1..FixedN |-> Nil]]
  /\ UNCHANGED root

(* The client keeps the structure a tree: it links a fresh node, which has *)
(* no sub-node yet, and never overwrites a sub-node it would then leak.    *)
SetSubNode(n, idx, c) ==
  /\ BetweenWalks
  /\ n \in alive
  /\ c \in (alive \ {n, root}) \cup {Nil}
  /\ c # Nil => ~Attached(c) /\ \A k \in 1..Len(sub[c]) : sub[c][k] = Nil
  /\ idx < Len(sub[n]) => sub[n][idx + 1] = Nil
  /\ sub' = [sub EXCEPT ![n] = SlotsAfterSet(@, idx, c)]
  /\ UNCHANGED <<alive, root>>

(* tree(rootNode), or the assignment through GetRootNodeAddr(). *)
SetRoot(n) ==
  /\ BetweenWalks
  /\ root = Nil
  /\ n \in alive
  /\ ~Attached(n)
  /\ root' = n
  /\ UNCHANGED <<alive, sub>>

-----------------------------------------------------------------------------
(***************************************************************************)
(* ForEach: an iteration of the outer loop takes the item in stackTop; the *)
(* inner loop moves i over its slots.                                      *)
(***************************************************************************)
StartWalk(o, p) ==
  /\ pc = "idle"
  /\ root # Nil
  /\ Len(stack) <= MaxStale
  /\ top' = Item(root, 0)
  /\ i' = 0
  /\ order' = o
  /\ purpose' = p
  /\ pc' = "at"
  /\ visited' = <<>>
  /\ ignored' = {}
  /\ stale' = Len(stack)
  /\ UNCHANGED <<nodeVars, stack>>

(* Mutant: the nodes are destroyed on the way down. *)
Clear_PreOrder == StartWalk(0, "clear")

ForEach(o) == StartWalk(o, "each")
Clear == StartWalk(-1, "clear")

CallbackOutcomes == IF purpose = "clear" THEN {"zero"} ELSE Outcomes
Reentered == Nil \in ignored
LeaveOutcomes ==
  IF OneReentry /\ Reentered THEN CallbackOutcomes \ {"positive"}
  ELSE CallbackOutcomes

(* onTraversal(&stackTop): node_deleter destroys the node, a client only   *)
(* sees it.                                                                *)
OnTraversal ==
  /\ visited' = Append(visited, top.node)
  /\ IF purpose = "clear"
     THEN /\ alive' = alive \ {top.node}
          /\ sub' = [sub EXCEPT ![top.node] = <<>>]
     ELSE UNCHANGED <<alive, sub>>

(* ForEach returns: whatever is left on the stack is dropped, and Clear()  *)
(* and a caller that only lent the tree its root set mRootNode to 0.       *)
Finish ==
  /\ pc' = "idle"
  /\ stack' = <<>>
  /\ top' = Item(Nil, 0)
  /\ i' = 0
  /\ root' = IF purpose = "each" THEN root ELSE Nil
  /\ order' = 0
  /\ purpose' = "each"
  /\ stale' = 0

(* An exception leaves ForEach with mStackBuf as it is. *)
Unwind ==
  /\ pc' = "idle"
  /\ top' = Item(Nil, 0)
  /\ i' = 0
  /\ order' = 0
  /\ purpose' = "each"
  /\ stale' = 0
  /\ UNCHANGED <<root, stack>>

(* The order test succeeds at slot i. *)
VisitAt(r) ==
  /\ pc = "at"
  /\ i < SubNodeCount(top.node)
  /\ i = order
  /\ OnTraversal
  /\ ignored' = IF r = "positive" THEN ignored \cup {top.node} ELSE ignored
  /\ \/ /\ r = "zero"
        /\ pc' = "past"
        /\ UNCHANGED <<root, stack, top, i, order, purpose, stale>>
     \/ /\ r = "positive"
        /\ i' = SubNodeCount(top.node)
        /\ UNCHANGED <<root, stack, top, order, purpose, pc, stale>>
     \/ /\ r = "negative"
        /\ Finish
     \/ /\ r = "throw"
        /\ Unwind

(* Mutant: the loop goes on without getting past the order test. *)
PassOrder_Stays ==
  /\ pc = "at"
  /\ i < SubNodeCount(top.node)
  /\ i # order
  /\ UNCHANGED vars

(* The order test fails at slot i. *)
PassOrder ==
  /\ pc = "at"
  /\ i < SubNodeCount(top.node)
  /\ i # order
  /\ pc' = "past"
  /\ UNCHANGED <<nodeVars, stack, top, i, order, purpose, visited, ignored,
                 stale>>

(* Mutant: the null slot is met again. *)
SkipNull_Stays ==
  /\ pc = "past"
  /\ sub[top.node][i + 1] = Nil
  /\ pc' = "at"
  /\ UNCHANGED <<nodeVars, stack, top, i, order, purpose, visited, ignored,
                 stale>>

(* A null slot is passed over. *)
SkipNull ==
  /\ pc = "past"
  /\ sub[top.node][i + 1] = Nil
  /\ i' = i + 1
  /\ pc' = "at"
  /\ UNCHANGED <<nodeVars, stack, top, order, purpose, visited, ignored,
                 stale>>

(* Mutant: the parent is suspended before the slot it is in. *)
PushStack_SlotBefore ==
  /\ pc = "past"
  /\ sub[top.node][i + 1] # Nil
  /\ stack' = Append(stack, Item(top.node, i - 1))
  /\ top' = Item(sub[top.node][i + 1], 0)
  /\ i' = 0
  /\ pc' = "at"
  /\ UNCHANGED <<nodeVars, order, purpose, visited, ignored,
                 stale>>

(* Suspend the node and enter its sub-node; onPushStack is called here. *)
PushStack ==
  /\ pc = "past"
  /\ sub[top.node][i + 1] # Nil
  /\ stack' = Append(stack, Item(top.node, i + 1))
  /\ top' = Item(sub[top.node][i + 1], 0)
  /\ i' = 0
  /\ pc' = "at"
  /\ UNCHANGED <<nodeVars, order, purpose, visited, ignored,
                 stale>>

(* Mutant: the parent resumes at the slot it was suspended in. *)
PopStack_SameSlot(reenter) ==
  IF stack = <<>> THEN Finish
  ELSE LET back == stack[Len(stack)]
           from == IF reenter THEN 0 ELSE back.next - 1
       IN  /\ stack' = SubSeq(stack, 1, Len(stack) - 1)
           /\ top' = Item(back.node, from)
           /\ i' = from
           /\ pc' = "at"
           /\ UNCHANGED <<root, order, purpose, stale>>

(* Mutant: the parent loses a slot. *)
PopStack_NextSlot(reenter) ==
  IF stack = <<>> THEN Finish
  ELSE LET back == stack[Len(stack)]
           from == IF reenter THEN 0 ELSE back.next + 1
       IN  /\ stack' = SubSeq(stack, 1, Len(stack) - 1)
           /\ top' = Item(back.node, from)
           /\ i' = from
           /\ pc' = "at"
           /\ UNCHANGED <<root, order, purpose, stale>>

(* popStackItem: resume the parent, at its first sub-node if the callback  *)
(* of the finished node answered > 0 ("re-enter") or the client's          *)
(* afterPopStack asked for it ("rewind"), else behind the finished one.    *)
PopStack(reenter) ==
  IF stack = <<>> THEN Finish
  ELSE LET back == stack[Len(stack)]
           from == IF reenter THEN 0 ELSE back.next
       IN  /\ stack' = SubSeq(stack, 1, Len(stack) - 1)
           /\ top' = Item(back.node, from)
           /\ i' = from
           /\ pc' = "at"
           /\ UNCHANGED <<root, order, purpose, stale>>

AtEnd == pc = "at" /\ i >= SubNodeCount(top.node)

(* Mutant: an order a node has too few slots for is not made up for. *)
PostOrder_OnlyNegative == order < 0

(* The condition of the second onTraversal call.                           *)
PostOrder == order < 0 \/ order >= SubNodeCount(top.node)

(* Leave a node that was already visited on the way. *)
Leave(rewind) ==
  /\ AtEnd
  /\ ~PostOrder
  /\ PopStack(rewind)
  /\ UNCHANGED <<alive, sub, visited, ignored>>

(* Visit the node on leaving it. *)
VisitAndLeave(r, rewind) ==
  /\ AtEnd
  /\ PostOrder
  /\ OnTraversal
  /\ ignored' = ignored \cup (IF r = "positive" /\ stack # <<>> THEN {Nil} ELSE {})
  /\ \/ r \in {"zero", "positive"} /\ PopStack(r = "positive" \/ rewind)
     \/ r = "negative" /\ Finish
     \/ r = "throw" /\ Unwind

(* What the code does once it has reached a destroyed node is undefined:   *)
(* the behaviour ends there.                                               *)
Walk ==
  /\ pc # "idle"
  /\ top.node \in alive
  /\ \/ \E r \in CallbackOutcomes : VisitAt(r)
     \/ PassOrder
     \/ SkipNull
     \/ PushStack
     \/ Leave(FALSE)
     \/ \E r \in LeaveOutcomes : VisitAndLeave(r, FALSE)

Next ==
  \/ \E n \in Node : CreateNode(n)
  \/ \E n \in Node, idx \in 0..Slots, c \in NodeOrNil : SetSubNode(n, idx, c)
  \/ \E n \in Node : SetRoot(n)
  \/ \E o \in Orders : ForEach(o)
  \/ Clear
  \/ Walk

Spec == Init /\ [][Next]_vars

(* A started traversal is a loop of the calling thread: it goes on. *)
FairSpec == Spec /\ WF_vars(Walk)

-----------------------------------------------------------------------------
(* No traversal that starts without leftovers of an exception, Clear()     *)
(* included, ever stands on a node that is destroyed or will resume one,   *)
(* so none is destroyed twice (tree.h, ForEach and node_deleter).          *)
NoDangling ==
  (pc # "idle" /\ stale = 0) =>
     /\ top.node \in alive
     /\ \A k \in 1..Len(stack) : stack[k].node \in alive

(* The nodes reachable from n: those in every set with n that no slot      *)
(* leads out of.                                                           *)
Closed(S) == \A m \in S : \A k \in 1..Len(sub[m]) : sub[m][k] \in S \cup {Nil}
Subtree(n) ==
  {m \in Node : n # Nil /\ \A S \in SUBSET Node : (n \in S /\ Closed(S)) => m \in S}

(* What a traversal has not left yet: the node at hand and its suspended   *)
(* ancestors, with what hangs below their slots still to come.             *)
Pending ==
  LET Rest(n, from) ==
        {n} \cup UNION {Subtree(sub[n][k + 1]) : k \in from..(SubNodeCount(n) - 1)}
  IN  IF pc = "idle" THEN {}
      ELSE Rest(top.node, i)
           \cup UNION {Rest(stack[s].node, stack[s].next) : s \in DOMAIN stack}

(* Clear() destroys what hangs below the root and nothing else: no step of *)
(* it loses a node it has still to destroy, so none is leaked when it      *)
(* ends, and no node is destroyed that was not pending (tree.h,            *)
(* node_deleter and Clear).                                                *)
ClearDestroysAll ==
  [][(pc # "idle" /\ purpose = "clear" /\ stale = 0)
       => Pending' = Pending \ (alive \ alive')]_vars

(* ForEach and Clear() come to an end on every tree, unless an exception   *)
(* had left items on the stack or a client has the same sub-nodes walked   *)
(* again for ever (tree.h, ForEach; OneReentry).                           *)
WalkEnds == (pc # "idle" /\ stale = 0) ~> (pc = "idle")
=============================================================================

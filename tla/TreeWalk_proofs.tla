-------------------------- MODULE TreeWalk_proofs --------------------------
(***************************************************************************)
(* Proofs about TreeWalk, for any set of nodes, any capacity and any       *)
(* order: as long as no callback throws, no traversal touches a destroyed  *)
(* node, Clear() destroys every node below the root and no other, and      *)
(* ForEach() makes the traversal its comments promise, step by step and as *)
(* a whole.                                                                *)
(***************************************************************************)
EXTENDS TreeOrder, SequenceTheorems, WellFoundedInduction, TLAPS

(* The nodes from the root down to the one at hand. *)
Path == [s \in 1..(Len(stack) + 1) |->
           IF s <= Len(stack) THEN stack[s].node ELSE top.node]

(* Every suspended node waits in the slot of the next node of the path. *)
PathLinked ==
  pc # "idle" =>
     /\ Path[1] = root
     /\ root # Nil
     /\ \A s \in 1..Len(stack) :
          /\ stack[s].next \in 1..Len(sub[stack[s].node])
          /\ sub[stack[s].node][stack[s].next] = Path[s + 1]
          /\ Path[s + 1] # Nil

PathAlive == pc # "idle" => \A s \in 1..(Len(stack) + 1) : Path[s] \in alive

PathDistinct ==
  pc # "idle" => \A s, t \in 1..(Len(stack) + 1) : Path[s] = Path[t] => s = t

(* The client keeps the structure a tree: at most one slot leads to a node *)
(* and none to the root.                                                   *)
OneSlot ==
  \A n, m \in Node : \A j \in 1..Len(sub[n]), k \in 1..Len(sub[m]) :
     (sub[n][j] # Nil /\ sub[n][j] = sub[m][k]) => n = m /\ j = k

RootFree ==
  root # Nil => \A n \in Node : \A k \in 1..Len(sub[n]) : sub[n][k] # root

DeadEmpty == \A n \in Node \ alive : sub[n] = <<>>

(* The slots of n that Clear() is through with. *)
Passed(n, k) ==
  /\ pc # "idle"
  /\ purpose = "clear"
  /\ \/ n = top.node /\ k <= i
     \/ \E s \in 1..Len(stack) : stack[s].node = n /\ k < stack[s].next

SubNodesAlive ==
  \A n \in alive : \A k \in 1..Len(sub[n]) :
     sub[n][k] = Nil \/ sub[n][k] \in alive \/ Passed(n, k)

LoopInv ==
  /\ pc = "idle" => stack = <<>> /\ (root # Nil => root \in alive)
  /\ stale = 0
  /\ purpose = "clear" /\ pc # "idle" => order = -1
  /\ pc = "past" => i < Len(sub[top.node])

IInv ==
  /\ TypeOK
  /\ LoopInv
  /\ PathLinked
  /\ PathAlive
  /\ PathDistinct
  /\ OneSlot
  /\ RootFree
  /\ DeadEmpty
  /\ SubNodesAlive

-----------------------------------------------------------------------------
(* The parts of IInv that only speak of the structure, and those of the path. *)
TreeParts == OneSlot /\ RootFree /\ DeadEmpty
PathParts == PathLinked /\ PathAlive /\ PathDistinct

(* The slot buffer stays a buffer whatever SetSubNode does to it. *)
LEMMA SlotsType ==
  ASSUME NEW s \in Seq(NodeOrNil), NEW idx \in Nat, NEW c \in NodeOrNil
  PROVE  SlotsAfterSet(s, idx, c) \in Seq(NodeOrNil)
<1>1. CASE idx < Len(s)
  <2>1. idx + 1 \in 1..Len(s)
    BY <1>1
  <2>2. [s EXCEPT ![idx + 1] = c] \in Seq(NodeOrNil)
    BY <2>1
  <2> QED BY <1>1, <2>2 DEF SlotsAfterSet
<1>2. CASE ~(idx < Len(s))
  BY <1>2 DEF SlotsAfterSet
<1> QED BY <1>1, <1>2

(* The slot SetSubNode writes, 0 if it refuses. *)
WrittenSlot(s, idx) ==
  IF idx < Len(s) THEN idx + 1
  ELSE IF FixedN = 0 /\ Len(s) < Capacity THEN Len(s) + 1
  ELSE 0

(* That slot holds c afterwards, every other one what it held before. *)
LEMMA SlotsContent ==
  ASSUME NEW s \in Seq(NodeOrNil), NEW idx \in Nat, NEW c \in NodeOrNil,
         NEW k \in 1..Len(SlotsAfterSet(s, idx, c))
  PROVE  \/ k = WrittenSlot(s, idx) /\ SlotsAfterSet(s, idx, c)[k] = c
         \/ /\ k # WrittenSlot(s, idx)
            /\ k \in 1..Len(s)
            /\ SlotsAfterSet(s, idx, c)[k] = s[k]
<1>1. CASE idx < Len(s)
  <2>1. /\ Len([s EXCEPT ![idx + 1] = c]) = Len(s)
        /\ \A m \in 1..Len(s) :
             [s EXCEPT ![idx + 1] = c][m] = IF m = idx + 1 THEN c ELSE s[m]
    BY <1>1
  <2> QED BY <1>1, <2>1 DEF SlotsAfterSet, WrittenSlot
<1>2. CASE ~(idx < Len(s))
  BY <1>2 DEF SlotsAfterSet, WrittenSlot
<1> QED BY <1>1, <1>2

(* No node, no traversal. *)
LEMMA InitInv == Init => IInv
<1> SUFFICES ASSUME Init PROVE IInv
  OBVIOUS
<1> USE DEF Init, Item, NodeOrNil, StackItem
<1>1. TypeOK
  BY DEF TypeOK
<1>2. LoopInv /\ PathLinked /\ PathAlive /\ PathDistinct
  BY DEF LoopInv, PathLinked, PathAlive, PathDistinct
<1>3. OneSlot /\ RootFree /\ DeadEmpty /\ SubNodesAlive
  BY DEF OneSlot, RootFree, DeadEmpty, SubNodesAlive
<1> QED BY <1>1, <1>2, <1>3 DEF IInv

(* Between traversals only the tree changes. *)
LEMMA CreateStep ==
  ASSUME IInv, NEW n \in Node, CreateNode(n)
  PROVE  IInv'
<1> USE TreeAssumption DEF CreateNode, BetweenWalks
<1>1. [k \in 1..FixedN |-> Nil] \in Seq(NodeOrNil)
  BY DEF NodeOrNil
<1>2. Len([k \in 1..FixedN |-> Nil]) = FixedN
  OBVIOUS
<1>3. TypeOK'
  BY <1>1 DEF IInv, TypeOK
<1>4. \A m \in Node, k \in Nat :
         k \in 1..Len(sub'[m]) =>
            \/ m = n /\ sub'[m][k] = Nil
            \/ m # n /\ sub'[m] = sub[m]
  BY <1>2 DEF IInv, TypeOK
<1>5. LoopInv' /\ PathLinked' /\ PathAlive' /\ PathDistinct'
  BY DEF IInv, LoopInv, PathLinked, PathAlive, PathDistinct
<1>6. OneSlot'
  BY <1>4 DEF IInv, OneSlot
<1>7. RootFree'
  <2> SUFFICES ASSUME root # Nil, NEW m \in Node, NEW k \in 1..Len(sub'[m])
               PROVE  sub'[m][k] # root
    BY DEF RootFree
  <2> QED BY <1>4 DEF IInv, RootFree
<1>8. DeadEmpty'
  BY DEF IInv, TypeOK, DeadEmpty
<1>9. SubNodesAlive'
  BY <1>4 DEF IInv, TypeOK, SubNodesAlive, Passed
<1> QED BY <1>3, <1>5, <1>6, <1>7, <1>8, <1>9 DEF IInv

(* A root without a slot that leads to it. *)
LEMMA SetRootStep ==
  ASSUME IInv, NEW n \in Node, SetRoot(n)
  PROVE  IInv'
<1> USE TreeAssumption DEF SetRoot, BetweenWalks
<1>1. TypeOK'
  BY DEF IInv, TypeOK, NodeOrNil
<1>2. LoopInv' /\ PathLinked' /\ PathAlive' /\ PathDistinct'
  BY DEF IInv, LoopInv, PathLinked, PathAlive, PathDistinct
<1>3. OneSlot' /\ DeadEmpty'
  BY DEF IInv, OneSlot, DeadEmpty
<1>4. RootFree'
  BY DEF RootFree, Attached
<1>5. SubNodesAlive'
  BY DEF IInv, SubNodesAlive, Passed
<1> QED BY <1>1, <1>2, <1>3, <1>4, <1>5 DEF IInv

(* A fresh node is linked into a free slot; SlotsContent says which. *)
LEMMA SetSubNodeStep ==
  ASSUME IInv, NEW n \in Node, NEW idx \in 0..Slots, NEW c \in NodeOrNil,
         SetSubNode(n, idx, c)
  PROVE  IInv'
<1> DEFINE new == SlotsAfterSet(sub[n], idx, c)
<1>1. idx \in Nat /\ sub[n] \in Seq(NodeOrNil)
  BY TreeAssumption DEF Slots, IInv, TypeOK
<1>2. new \in Seq(NodeOrNil)
  BY <1>1, SlotsType
<1> DEFINE pos == WrittenSlot(sub[n], idx)
<1>3. \A k \in 1..Len(new) :
         \/ k = pos /\ new[k] = c
         \/ k # pos /\ k \in 1..Len(sub[n]) /\ new[k] = sub[n][k]
  BY <1>1, SlotsContent
<1> USE TreeAssumption DEF SetSubNode, BetweenWalks
<1>4. sub' = [sub EXCEPT ![n] = new]
  OBVIOUS
<1> HIDE DEF new, pos
<1>5. TypeOK'
  BY <1>2, <1>4 DEF IInv, TypeOK
<1>6. \A m \in Node : \A k \in 1..Len(sub'[m]) :
         \/ m = n /\ k = pos /\ sub'[m][k] = c
         \/ ~(m = n /\ k = pos) /\ k \in 1..Len(sub[m]) /\ sub'[m][k] = sub[m][k]
  BY <1>3, <1>4 DEF IInv, TypeOK
<1>7. LoopInv' /\ PathLinked' /\ PathAlive' /\ PathDistinct'
  BY DEF IInv, LoopInv, PathLinked, PathAlive, PathDistinct
<1>8. OneSlot'
  BY <1>6 DEF IInv, OneSlot, Attached
<1>9. RootFree'
  BY <1>6 DEF IInv, RootFree
<1>10. DeadEmpty'
  BY <1>4 DEF IInv, TypeOK, DeadEmpty
<1>11. SubNodesAlive'
  BY <1>6 DEF IInv, TypeOK, SubNodesAlive, Passed
<1> QED BY <1>5, <1>7, <1>8, <1>9, <1>10, <1>11 DEF IInv

(* A traversal starts at the root with nothing suspended. *)
LEMMA StartStep ==
  ASSUME IInv, NEW o \in Int, NEW p \in {"each", "clear"}, StartWalk(o, p),
         p = "clear" => o = -1
  PROVE  IInv'
<1> USE TreeAssumption DEF StartWalk, nodeVars, Item
<1>1. TypeOK'
  BY DEF IInv, TypeOK, LoopInv, NodeOrNil, StackItem
<1>2. LoopInv'
  BY DEF IInv, LoopInv
<1>3. stack' = <<>> /\ root # Nil /\ root \in alive
  BY DEF IInv, LoopInv
<1>4. PathLinked' /\ PathAlive' /\ PathDistinct'
  BY <1>3 DEF PathLinked, PathAlive, PathDistinct, Path
<1>5. OneSlot' /\ RootFree' /\ DeadEmpty'
  BY DEF IInv, OneSlot, RootFree, DeadEmpty
<1>6. SubNodesAlive'
  BY DEF IInv, SubNodesAlive, Passed
<1> QED BY <1>1, <1>2, <1>4, <1>5, <1>6 DEF IInv

-----------------------------------------------------------------------------
(* The steps of a traversal that keep the stack, but for i and pc. *)
LEMMA ScanStep ==
  ASSUME IInv, PassOrder \/ SkipNull
  PROVE  IInv'
<1> USE TreeAssumption DEF PassOrder, SkipNull, nodeVars, SubNodeCount
<1>1. TypeOK'
  BY DEF IInv, TypeOK
<1>2. LoopInv'
  BY DEF IInv, LoopInv
<1>3. PathLinked' /\ PathAlive' /\ PathDistinct'
  BY DEF IInv, PathLinked, PathAlive, PathDistinct, Path
<1>4. OneSlot' /\ RootFree' /\ DeadEmpty'
  BY DEF IInv, OneSlot, RootFree, DeadEmpty
<1>5. ASSUME NEW n \in alive, NEW k \in 1..Len(sub[n]), Passed(n, k)
      PROVE  Passed(n, k)'
  BY <1>5 DEF IInv, TypeOK, Passed
<1>6. SubNodesAlive'
  BY <1>5 DEF IInv, SubNodesAlive
<1> QED BY <1>1, <1>2, <1>3, <1>4, <1>6 DEF IInv

(* Entering a sub-node: it is alive, as its slot is not passed yet, and    *)
(* new on the path, as only one slot leads to it.                          *)
LEMMA PushStep ==
  ASSUME IInv, PushStack
  PROVE  IInv'
<1> USE TreeAssumption DEF PushStack, nodeVars, Item
<1> DEFINE c == sub[top.node][i + 1]
           l == Len(stack)
<1>1. /\ top.node \in alive /\ top.node \in Node /\ alive \subseteq Node
      /\ i \in Nat /\ i + 1 \in 1..Len(sub[top.node]) /\ l \in Nat
      /\ c # Nil /\ c \in Node
  <2>0. l \in Nat
    BY DEF IInv, TypeOK
  <2>1. Path[l + 1] = top.node /\ Path[l + 1] \in alive
    BY <2>0 DEF IInv, PathAlive, Path
  <2>2. i + 1 \in 1..Len(sub[top.node])
    BY <2>1 DEF IInv, TypeOK, LoopInv
  <2> QED BY <2>1, <2>2 DEF IInv, TypeOK, NodeOrNil
<1>2. /\ Len(stack') = l + 1
      /\ \A s \in 1..l : stack'[s] = stack[s]
      /\ stack'[l + 1] = [node |-> top.node, next |-> i + 1]
  BY DEF IInv, TypeOK
<1>3. /\ \A s \in 1..(l + 1) : Path'[s] = Path[s]
      /\ Path'[l + 2] = c
      /\ Path[l + 1] = top.node
  BY <1>1, <1>2 DEF Path
<1>4. TypeOK'
  BY <1>1 DEF IInv, TypeOK, StackItem, NodeOrNil
<1>5. LoopInv'
  BY DEF IInv, LoopInv
<1>6. PathLinked'
  <2>1. Path'[1] = root /\ root # Nil /\ root' = root /\ sub' = sub
    <3>1. Path[1] = root /\ root # Nil
      BY DEF IInv, PathLinked
    <3>2. Path'[1] = Path[1]
      BY <1>1, <1>3
    <3> QED BY <3>1, <3>2
  <2>2. ASSUME NEW s \in 1..(l + 1), s = l + 1
        PROVE  /\ stack'[s].next \in 1..Len(sub[stack'[s].node])
               /\ sub[stack'[s].node][stack'[s].next] = Path'[s + 1]
               /\ Path'[s + 1] # Nil
    <3>1. stack'[s].node = top.node /\ stack'[s].next = i + 1
      BY <2>2, <1>2
    <3>2. s + 1 = l + 2
      BY <2>2, <1>1
    <3> QED BY <3>1, <3>2, <1>1, <1>3
  <2>3. ASSUME NEW s \in 1..l
        PROVE  /\ stack'[s].next \in 1..Len(sub[stack'[s].node])
               /\ sub[stack'[s].node][stack'[s].next] = Path'[s + 1]
               /\ Path'[s + 1] # Nil
    <3>1. stack'[s] = stack[s]
      BY <1>2
    <3>2. Path'[s + 1] = Path[s + 1]
      BY <1>1, <1>3
    <3>3. /\ stack[s].next \in 1..Len(sub[stack[s].node])
          /\ sub[stack[s].node][stack[s].next] = Path[s + 1]
          /\ Path[s + 1] # Nil
      BY DEF IInv, PathLinked
    <3> QED BY <3>1, <3>2, <3>3
  <2>4. \A s \in 1..(l + 1) : s = l + 1 \/ s \in 1..l
    BY <1>1
  <2>5. \A s \in 1..(l + 1) :
           /\ stack'[s].next \in 1..Len(sub[stack'[s].node])
           /\ sub[stack'[s].node][stack'[s].next] = Path'[s + 1]
           /\ Path'[s + 1] # Nil
    BY <2>2, <2>3, <2>4
  <2> HIDE DEF PushStack
  <2> QED BY <2>1, <2>5, <1>2 DEF PathLinked
<1>7. \A s \in 1..(l + 1) : Path[s] # c
  <2> SUFFICES ASSUME NEW s \in 1..(l + 1), Path[s] = c
               PROVE  FALSE
    OBVIOUS
  <2>1. CASE s = 1
    BY <2>1, <1>1 DEF IInv, PathLinked, RootFree
  <2>2. CASE s # 1
    <3>1. s - 1 \in 1..l
      BY <2>2, <1>1
    <3>2. /\ stack[s - 1].next \in 1..Len(sub[stack[s - 1].node])
          /\ sub[stack[s - 1].node][stack[s - 1].next] = c
      BY <3>1, <1>1 DEF IInv, PathLinked
    <3>3. Path[s - 1] = stack[s - 1].node /\ Path[s - 1] \in Node
      BY <3>1, <1>1 DEF IInv, Path, PathAlive
    <3>4. stack[s - 1].node = top.node
      BY <3>2, <3>3, <1>1 DEF IInv, OneSlot
    <3>5. s - 1 = l + 1
      BY <3>1, <3>3, <3>4, <1>1, <1>3 DEF IInv, PathDistinct
    <3> QED BY <3>1, <3>5, <1>1
  <2> QED BY <2>1, <2>2
<1>8. c \in alive
  <2>1. ~Passed(top.node, i + 1)
    <3> SUFFICES ASSUME NEW s \in 1..l, stack[s].node = top.node
                 PROVE  FALSE
      BY <1>1 DEF Passed
    <3>1. Path[s] = Path[l + 1]
      BY <1>1, <1>3 DEF Path
    <3> QED BY <3>1, <1>1 DEF IInv, PathDistinct
  <2> QED BY <2>1, <1>1 DEF IInv, SubNodesAlive
<1>9. PathAlive'
  <2>1. \A s \in 1..(l + 1) : Path[s] \in alive
    BY DEF IInv, PathAlive
  <2>2. ASSUME NEW s \in 1..(l + 2)  PROVE Path'[s] \in alive
    <3>1. s \in 1..(l + 1) \/ s = l + 2
      BY <1>1
    <3> QED BY <3>1, <2>1, <1>3, <1>8
  <2> QED BY <2>2, <1>1, <1>2 DEF PathAlive
<1>10. PathDistinct'
  <2>1. \A s, t \in 1..(l + 1) : Path[s] = Path[t] => s = t
    BY <1>1 DEF IInv, PathDistinct
  <2>2. \A s \in 1..(l + 1) : Path'[s] = Path[s] /\ Path'[s] # Path'[l + 2]
    BY <1>1, <1>3, <1>7
  <2>3. \A s \in 1..(l + 2) : s = l + 2 \/ s \in 1..(l + 1)
    BY <1>1
  <2>4. \A s, t \in 1..(l + 2) : Path'[s] = Path'[t] => s = t
    BY <2>1, <2>2, <2>3
  <2>5. Len(stack') + 1 = l + 2
    BY <1>1, <1>2
  <2> QED BY <2>4, <2>5 DEF PathDistinct
<1>11. OneSlot' /\ RootFree' /\ DeadEmpty'
  BY DEF IInv, OneSlot, RootFree, DeadEmpty
<1>12. ASSUME NEW n \in alive, NEW k \in 1..Len(sub[n]), Passed(n, k)
       PROVE  Passed(n, k)'
  <2>1. CASE n = top.node /\ k <= i
    <3>1. l + 1 \in 1..Len(stack')
      BY <1>1, <1>2
    <3>2. stack'[l + 1].node = n /\ k < stack'[l + 1].next
      BY <2>1, <1>1, <1>2
    <3> QED BY <3>1, <3>2, <1>12 DEF Passed
  <2>2. CASE \E s \in 1..l : stack[s].node = n /\ k < stack[s].next
    BY <2>2, <1>1, <1>2, <1>12 DEF Passed
  <2> QED BY <2>1, <2>2, <1>12 DEF Passed
<1>13. SubNodesAlive'
  BY <1>12 DEF IInv, SubNodesAlive
<1> QED BY <1>4, <1>5, <1>6, <1>9, <1>10, <1>11, <1>13 DEF IInv

-----------------------------------------------------------------------------
(* Facts about the path used in every step that leaves a node. *)
LEMMA PathFacts ==
  ASSUME IInv, pc # "idle"
  PROVE  /\ Len(stack) \in Nat
         /\ Path[Len(stack) + 1] = top.node
         /\ \A s \in 1..Len(stack) : Path[s] = stack[s].node
         /\ top.node \in alive
         /\ alive \subseteq Node
         /\ root = Path[1] /\ root # Nil /\ root \in alive
<1>1. Len(stack) \in Nat
  BY DEF IInv, TypeOK
<1>2. /\ Path[Len(stack) + 1] = top.node
      /\ \A s \in 1..Len(stack) : Path[s] = stack[s].node
  BY <1>1 DEF Path
<1>3. \A s \in 1..(Len(stack) + 1) : Path[s] \in alive
  BY DEF IInv, PathAlive
<1>4. top.node \in alive /\ Path[1] \in alive
  BY <1>1, <1>2, <1>3
<1>5. alive \subseteq Node
  BY DEF IInv, TypeOK
<1> QED BY <1>1, <1>2, <1>4, <1>5 DEF IInv, PathLinked

(* What is left of a sequence without its last element. *)
LEMMA FrontFacts ==
  ASSUME NEW S, NEW q \in Seq(S), q # <<>>
  PROVE  /\ SubSeq(q, 1, Len(q) - 1) \in Seq(S)
         /\ Len(SubSeq(q, 1, Len(q) - 1)) = Len(q) - 1
         /\ \A s \in 1..(Len(q) - 1) : SubSeq(q, 1, Len(q) - 1)[s] = q[s]
<1> DEFINE n == Len(q) - 1
<1>1. n \in Nat /\ n <= Len(q)
  OBVIOUS
<1> HIDE DEF n
<1>2. SubSeq(q, 1, n) \in Seq(S) /\ Len(SubSeq(q, 1, n)) = n
  BY <1>1
<1>3. ASSUME NEW s \in 1..n PROVE SubSeq(q, 1, n)[s] = q[s]
  BY <1>1
<1> QED BY <1>2, <1>3 DEF n

(* Popping keeps the path but for its last node. *)
LEMMA PopFacts ==
  ASSUME IInv, pc # "idle", NEW re \in BOOLEAN, PopStack(re), stack # <<>>
  PROVE  /\ Len(stack) \in Nat \ {0}
         /\ Len(stack') = Len(stack) - 1
         /\ \A s \in 1..(Len(stack) - 1) : stack'[s] = stack[s]
         /\ top'.node = stack[Len(stack)].node
         /\ top' \in StackItem /\ i' \in Nat /\ stack' \in Seq(StackItem)
         /\ ~re => i' = stack[Len(stack)].next
         /\ \A s \in 1..Len(stack) : Path'[s] = Path[s]
         /\ pc' = "at" /\ root' = root /\ order' = order /\ purpose' = purpose
         /\ stale' = stale
<1> DEFINE l == Len(stack)
           back == stack[l]
<1>1. l \in Nat \ {0} /\ stack \in Seq(StackItem) /\ back \in StackItem
  BY DEF IInv, TypeOK
<1>2. /\ stack' = SubSeq(stack, 1, l - 1)
      /\ top' = [node |-> back.node, next |-> IF re THEN 0 ELSE back.next]
      /\ i' = IF re THEN 0 ELSE back.next
      /\ pc' = "at" /\ root' = root /\ order' = order /\ purpose' = purpose
      /\ stale' = stale
  BY DEF PopStack, Item
<1>3. /\ Len(stack') = l - 1
      /\ stack' \in Seq(StackItem)
      /\ \A s \in 1..(l - 1) : stack'[s] = stack[s]
  BY <1>1, <1>2, FrontFacts
<1>4. /\ top' \in StackItem /\ i' \in Nat /\ top'.node = back.node
      /\ ~re => i' = back.next
  BY <1>1, <1>2 DEF StackItem
<1>5. \A s \in 1..l : Path'[s] = Path[s]
  <2> SUFFICES ASSUME NEW s \in 1..l PROVE Path'[s] = Path[s]
    OBVIOUS
  <2>1. Path[s] = stack[s].node
    BY <1>1 DEF Path
  <2>2. Path'[s] = IF s <= l - 1 THEN stack'[s].node ELSE top'.node
    BY <1>1, <1>3 DEF Path
  <2> QED BY <2>1, <2>2, <1>1, <1>3, <1>4
<1> QED BY <1>1, <1>2, <1>3, <1>4, <1>5

(* The path invariants survive a pop that leaves the slots of the other    *)
(* nodes alone.                                                            *)
LEMMA PopPath ==
  ASSUME IInv, pc # "idle", NEW re \in BOOLEAN, PopStack(re), stack # <<>>,
         \A n \in Node : n # top.node => sub'[n] = sub[n],
         alive \ {top.node} \subseteq alive'
  PROVE  PathLinked' /\ PathAlive' /\ PathDistinct'
<1> DEFINE l == Len(stack)
<1>1. /\ l \in Nat \ {0} /\ Len(stack') = l - 1
      /\ \A s \in 1..(l - 1) : stack'[s] = stack[s]
      /\ \A s \in 1..l : Path'[s] = Path[s]
      /\ root' = root
  BY PopFacts
<1>2. /\ Path[l + 1] = top.node
      /\ \A s \in 1..l : Path[s] = stack[s].node
      /\ alive \subseteq Node
      /\ root = Path[1] /\ root # Nil
  BY PathFacts
<1>3. \A s \in 1..l : Path[s] \in alive /\ Path[s] # top.node
  <2> TAKE s \in 1..l
  <2>1. s \in 1..(l + 1) /\ l + 1 \in 1..(l + 1) /\ s # l + 1
    BY <1>1
  <2> QED BY <2>1, <1>2 DEF IInv, PathAlive, PathDistinct
<1>4. PathAlive'
  BY <1>1, <1>3 DEF PathAlive
<1>5. PathDistinct'
  BY <1>1 DEF IInv, PathDistinct
<1>6. PathLinked'
  <2>1. Path'[1] = root' /\ root' # Nil
    BY <1>1, <1>2
  <2>2. ASSUME NEW s \in 1..(l - 1)
        PROVE  /\ stack'[s].next \in 1..Len(sub'[stack'[s].node])
               /\ sub'[stack'[s].node][stack'[s].next] = Path'[s + 1]
               /\ Path'[s + 1] # Nil
    <3>1. s \in 1..l /\ s + 1 \in 1..l
      BY <1>1
    <3>2. stack'[s] = stack[s] /\ sub'[stack[s].node] = sub[stack[s].node]
      BY <3>1, <1>1, <1>2, <1>3
    <3>3. Path'[s + 1] = Path[s + 1]
      BY <3>1, <1>1
    <3> QED BY <3>1, <3>2, <3>3 DEF IInv, PathLinked
  <2> QED BY <2>1, <2>2, <1>1 DEF PathLinked
<1> QED BY <1>4, <1>5, <1>6

(* Leaving a node of a tree that is not being destroyed. *)
LEMMA PopStep ==
  ASSUME IInv, pc # "idle", purpose # "clear", NEW re \in BOOLEAN, PopStack(re),
         UNCHANGED <<alive, sub>>, visited' \in Seq(Node), ignored' \in SUBSET NodeOrNil
  PROVE  IInv'
<1>1. OneSlot' /\ DeadEmpty'
  BY DEF IInv, OneSlot, DeadEmpty
<1>2. \A n \in alive : \A k \in 1..Len(sub[n]) : sub[n][k] = Nil \/ sub[n][k] \in alive
  BY DEF IInv, SubNodesAlive, Passed
<1>3. SubNodesAlive'
  BY <1>2 DEF SubNodesAlive
<1>4. CASE stack = <<>>
  <2> USE <1>4 DEF PopStack, Finish, Item
  <2>1. TypeOK'
    BY DEF IInv, TypeOK, StackItem, NodeOrNil
  <2>2. LoopInv' /\ RootFree'
    BY PathFacts DEF IInv, LoopInv, RootFree
  <2>3. PathLinked' /\ PathAlive' /\ PathDistinct'
    BY DEF PathLinked, PathAlive, PathDistinct
  <2> QED BY <1>1, <1>3, <2>1, <2>2, <2>3 DEF IInv
<1>5. CASE stack # <<>>
  <2>1. PathLinked' /\ PathAlive' /\ PathDistinct'
    BY <1>5, PopPath
  <2>2. TypeOK'
    BY <1>5, PopFacts DEF IInv, TypeOK
  <2>3. LoopInv' /\ RootFree'
    BY <1>5, PopFacts DEF IInv, LoopInv, RootFree
  <2> QED BY <1>1, <1>3, <2>1, <2>2, <2>3 DEF IInv
<1> QED BY <1>4, <1>5

(* Breaking a traversal off. *)
LEMMA FinishStep ==
  ASSUME IInv, pc # "idle", purpose # "clear", Finish,
         UNCHANGED <<alive, sub>>, visited' \in Seq(Node), ignored' \in SUBSET NodeOrNil
  PROVE  IInv'
<1> USE DEF Finish, Item
<1>1. TypeOK'
  BY DEF IInv, TypeOK, StackItem, NodeOrNil
<1>2. LoopInv' /\ RootFree'
  BY PathFacts DEF IInv, LoopInv, RootFree
<1>3. PathLinked' /\ PathAlive' /\ PathDistinct' /\ OneSlot' /\ DeadEmpty'
  BY DEF IInv, PathLinked, PathAlive, PathDistinct, OneSlot, DeadEmpty
<1>4. \A n \in alive : \A k \in 1..Len(sub[n]) : sub[n][k] = Nil \/ sub[n][k] \in alive
  BY DEF IInv, SubNodesAlive, Passed
<1>5. SubNodesAlive'
  BY <1>4 DEF SubNodesAlive
<1> QED BY <1>1, <1>2, <1>3, <1>5 DEF IInv

(* Destroying a node on leaving it: one slot led to it, the one its parent *)
(* is through with, or none if it was the root.                            *)
LEMMA DestroyStep ==
  ASSUME IInv, pc # "idle", purpose = "clear", AtEnd, OnTraversal, PopStack(FALSE),
         UNCHANGED ignored
  PROVE  IInv'
<1> DEFINE t == top.node
           l == Len(stack)
<1>1. /\ l \in Nat /\ Path[l + 1] = t /\ t \in alive /\ t \in Node
      /\ \A s \in 1..l : Path[s] = stack[s].node
      /\ alive \subseteq Node
      /\ root = Path[1] /\ root # Nil
  BY PathFacts
<1>2. /\ alive' = alive \ {t}
      /\ sub' = [sub EXCEPT ![t] = <<>>]
      /\ visited' = Append(visited, t)
  BY DEF OnTraversal
<1>3. /\ sub' \in [Node -> Seq(NodeOrNil)]
      /\ sub'[t] = <<>>
      /\ \A n \in Node : n # t => sub'[n] = sub[n]
      /\ visited' \in Seq(Node)
      /\ alive' \subseteq Node
  BY <1>1, <1>2 DEF IInv, TypeOK, NodeOrNil
<1>4. \A n \in Node : \A k \in 1..Len(sub'[n]) :
         n # t /\ k \in 1..Len(sub[n]) /\ sub'[n][k] = sub[n][k]
  BY <1>3
<1>5. OneSlot'
  BY <1>4 DEF IInv, OneSlot
<1>6. DeadEmpty'
  BY <1>2, <1>3 DEF IInv, DeadEmpty
<1>7. CASE stack = <<>>
  <2>1. /\ pc' = "idle" /\ stack' = <<>> /\ top' = [node |-> Nil, next |-> 0]
        /\ i' = 0 /\ root' = Nil /\ order' = 0 /\ purpose' = "each" /\ stale' = 0
    BY <1>7 DEF PopStack, Finish, Item
  <2>2. TypeOK'
    BY <2>1, <1>3 DEF IInv, TypeOK, StackItem, NodeOrNil
  <2>3. LoopInv' /\ RootFree' /\ PathLinked' /\ PathAlive' /\ PathDistinct'
    BY <2>1 DEF LoopInv, RootFree, PathLinked, PathAlive, PathDistinct
  <2>4. t = root
    BY <1>1, <1>7
  <2>5. ASSUME NEW n \in alive', NEW k \in 1..Len(sub'[n])
        PROVE  sub'[n][k] = Nil \/ sub'[n][k] \in alive'
    <3>1. n # t /\ n \in alive /\ k \in 1..Len(sub[n]) /\ sub'[n][k] = sub[n][k]
      BY <1>2, <1>3, <1>4
    <3>2. sub[n][k] # t
      BY <3>1, <2>4, <1>1 DEF IInv, RootFree
    <3>3. ~Passed(n, k)
      BY <3>1, <1>7 DEF Passed
    <3> QED BY <3>1, <3>2, <3>3, <1>2 DEF IInv, SubNodesAlive
  <2>6. SubNodesAlive'
    BY <2>5 DEF SubNodesAlive
  <2> QED BY <1>5, <1>6, <2>2, <2>3, <2>6 DEF IInv
<1>8. CASE stack # <<>>
  <2> DEFINE back == stack[l]
  <2>1. /\ l \in Nat \ {0} /\ Len(stack') = l - 1
        /\ \A s \in 1..(l - 1) : stack'[s] = stack[s]
        /\ top'.node = back.node
        /\ top' \in StackItem /\ i' \in Nat /\ stack' \in Seq(StackItem)
        /\ i' = back.next
        /\ pc' = "at" /\ root' = root /\ order' = order /\ purpose' = purpose
        /\ stale' = stale
    BY <1>8, PopFacts
  <2>2. TypeOK'
    BY <2>1, <1>3 DEF IInv, TypeOK
  <2>3. LoopInv'
    BY <2>1 DEF IInv, LoopInv
  <2>4. RootFree'
    BY <2>1, <1>4 DEF IInv, RootFree
  <2>5. PathLinked' /\ PathAlive' /\ PathDistinct'
    <3>1. alive \ {top.node} \subseteq alive'
      BY <1>2
    <3>2. \A n \in Node : n # top.node => sub'[n] = sub[n]
      BY <1>3
    <3> QED BY <1>8, <3>1, <3>2, PopPath
  <2>6. /\ back.next \in 1..Len(sub[back.node])
        /\ sub[back.node][back.next] = t
        /\ t # Nil
        /\ back.node \in Node
    <3>1. l \in 1..l /\ l \in 1..(l + 1)
      BY <2>1
    <3> QED BY <3>1, <1>1 DEF IInv, PathLinked, PathAlive
  <2>7. ASSUME NEW n \in alive', NEW k \in 1..Len(sub'[n])
        PROVE  sub'[n][k] = Nil \/ sub'[n][k] \in alive' \/ Passed(n, k)'
    <3>1. /\ n # t /\ n \in alive /\ n \in Node /\ k \in 1..Len(sub[n])
          /\ sub'[n][k] = sub[n][k]
      BY <1>1, <1>2, <1>3, <1>4
    <3>2. CASE sub[n][k] = t
      <4>1. n = back.node /\ k = back.next
        BY <3>1, <3>2, <2>6 DEF IInv, OneSlot
      <4>2. n = top'.node /\ k <= i'
        BY <4>1, <2>1
      <4> QED BY <4>2, <2>1 DEF Passed
    <3>3. CASE Passed(n, k)
      <4>1. PICK s \in 1..l : stack[s].node = n /\ k < stack[s].next
        BY <3>1, <3>3 DEF Passed
      <4>2. CASE s = l
        <5>1. n = top'.node /\ k <= i'
          BY <4>1, <4>2, <2>1
        <5> QED BY <5>1, <2>1 DEF Passed
      <4>3. CASE s # l
        <5>1. s \in 1..Len(stack') /\ stack'[s] = stack[s]
          BY <4>3, <2>1
        <5> QED BY <5>1, <4>1, <2>1 DEF Passed
      <4> QED BY <4>2, <4>3
    <3>4. CASE sub[n][k] # t /\ ~Passed(n, k)
      BY <3>1, <3>4, <1>2 DEF IInv, SubNodesAlive
    <3> QED BY <3>2, <3>3, <3>4
  <2>8. SubNodesAlive'
    BY <2>7 DEF SubNodesAlive
  <2> QED BY <1>5, <1>6, <2>2, <2>3, <2>4, <2>5, <2>8 DEF IInv
<1> QED BY <1>7, <1>8

-----------------------------------------------------------------------------
(* The callbacks of a client, none of which throws. *)
NoThrow == "throw" \notin Outcomes

(* A visit on the way down goes on, goes to the end or breaks off. *)
LEMMA VisitAtStep ==
  ASSUME NoThrow, IInv, NEW r \in CallbackOutcomes, VisitAt(r)
  PROVE  IInv'
<1>1. /\ pc = "at" /\ i < Len(sub[top.node]) /\ i = order /\ i \in Nat
      /\ purpose # "clear"
  BY DEF VisitAt, SubNodeCount, IInv, TypeOK, LoopInv
<1>2. r \in {"zero", "positive", "negative"}
  BY TreeAssumption DEF NoThrow, CallbackOutcomes
<1>3. /\ top.node \in alive /\ alive \subseteq Node
  BY <1>1, PathFacts
<1>4. /\ UNCHANGED <<alive, sub>>
      /\ visited' \in Seq(Node)
      /\ ignored' \in SUBSET NodeOrNil
  BY <1>1, <1>3 DEF VisitAt, OnTraversal, IInv, TypeOK, NodeOrNil
<1>5. CASE r = "negative"
  <2>1. Finish
    BY <1>5 DEF VisitAt
  <2> QED BY <2>1, <1>1, <1>4, FinishStep
<1>6. CASE r \in {"zero", "positive"}
  <2>1. /\ UNCHANGED <<root, stack, top, order, purpose, stale>>
        /\ \/ pc' = "past" /\ i' = i
           \/ pc' = "at" /\ i' = Len(sub[top.node])
    BY <1>1, <1>6 DEF VisitAt, SubNodeCount
  <2>2. TypeOK'
    BY <2>1, <1>3, <1>4 DEF IInv, TypeOK
  <2>3. LoopInv'
    BY <2>1, <1>1, <1>4 DEF IInv, LoopInv
  <2>4. PathLinked' /\ PathAlive' /\ PathDistinct'
    BY <2>1, <1>1, <1>4 DEF IInv, PathLinked, PathAlive, PathDistinct, Path
  <2>5. OneSlot' /\ RootFree' /\ DeadEmpty'
    BY <2>1, <1>4 DEF IInv, OneSlot, RootFree, DeadEmpty
  <2>6. \A n \in alive : \A k \in 1..Len(sub[n]) : sub[n][k] = Nil \/ sub[n][k] \in alive
    BY <1>1 DEF IInv, SubNodesAlive, Passed
  <2>7. SubNodesAlive'
    BY <2>6, <1>4 DEF SubNodesAlive
  <2> QED BY <2>2, <2>3, <2>4, <2>5, <2>7 DEF IInv
<1> QED BY <1>2, <1>5, <1>6

(* A node visited before is left behind; Clear() has none. *)
LEMMA LeaveStep ==
  ASSUME IInv, Leave(FALSE)
  PROVE  IInv'
<1>1. pc # "idle" /\ PopStack(FALSE) /\ UNCHANGED <<alive, sub, visited, ignored>>
  BY DEF Leave, AtEnd
<1>2. purpose # "clear"
  BY DEF Leave, AtEnd, PostOrder, IInv, LoopInv
<1>3. visited' \in Seq(Node) /\ ignored' \in SUBSET NodeOrNil
  BY <1>1 DEF IInv, TypeOK
<1> QED BY <1>1, <1>2, <1>3, PopStep

(* A visit on leaving destroys the node if this is Clear(). *)
LEMMA VisitAndLeaveStep ==
  ASSUME NoThrow, IInv, NEW r \in CallbackOutcomes, VisitAndLeave(r, FALSE)
  PROVE  IInv'
<1>1. pc # "idle" /\ AtEnd /\ OnTraversal
      /\ (ignored' = ignored \/ ignored' = ignored \cup {Nil})
      /\ (r = "zero" => UNCHANGED ignored)
  BY DEF VisitAndLeave, AtEnd
<1>2. r \in {"zero", "positive", "negative"} /\ (purpose = "clear" => r = "zero")
  BY TreeAssumption DEF NoThrow, CallbackOutcomes
<1>3. CASE purpose = "clear"
  <2>1. PopStack(FALSE) /\ UNCHANGED ignored
    BY <1>1, <1>2, <1>3 DEF VisitAndLeave
  <2> QED BY <1>1, <1>3, <2>1, DestroyStep
<1>4. CASE purpose # "clear"
  <2>1. UNCHANGED <<alive, sub>> /\ visited' = Append(visited, top.node)
    BY <1>1, <1>4 DEF OnTraversal
  <2>2. visited' \in Seq(Node) /\ ignored' \in SUBSET NodeOrNil
    BY <1>1, <2>1, PathFacts DEF IInv, TypeOK, NodeOrNil
  <2>3. CASE r = "negative"
    <3>1. Finish
      BY <2>3 DEF VisitAndLeave
    <3> QED BY <3>1, <1>1, <1>4, <2>1, <2>2, FinishStep
  <2>4. CASE r \in {"zero", "positive"}
    <3>1. PICK re \in BOOLEAN : PopStack(re)
      BY <2>4 DEF VisitAndLeave
    <3> QED BY <3>1, <1>1, <1>4, <2>1, <2>2, PopStep
  <2> QED BY <1>2, <2>3, <2>4
<1> QED BY <1>3, <1>4

(* Nothing changes. *)
LEMMA StutterStep ==
  ASSUME IInv, UNCHANGED vars
  PROVE  IInv'
BY DEF IInv, vars, nodeVars, walkVars, TypeOK, LoopInv, PathLinked, PathAlive,
       PathDistinct, Path, OneSlot, RootFree, DeadEmpty, SubNodesAlive, Passed

(* One case per action. *)
LEMMA NextInv ==
  ASSUME NoThrow, IInv, [Next]_vars
  PROVE  IInv'
<1>1. CASE \E n \in Node : CreateNode(n)
  BY <1>1, CreateStep
<1>2. CASE \E n \in Node, idx \in 0..Slots, c \in NodeOrNil : SetSubNode(n, idx, c)
  BY <1>2, SetSubNodeStep
<1>3. CASE \E n \in Node : SetRoot(n)
  BY <1>3, SetRootStep
<1>4. CASE \E o \in Orders : ForEach(o)
  BY <1>4, StartStep, TreeAssumption DEF ForEach
<1>5. CASE Clear
  BY <1>5, StartStep DEF Clear
<1>6. CASE Walk
  <2>1. CASE \E r \in CallbackOutcomes : VisitAt(r)
    BY <2>1, VisitAtStep
  <2>2. CASE PassOrder \/ SkipNull
    BY <2>2, ScanStep
  <2>3. CASE PushStack
    BY <2>3, PushStep
  <2>4. CASE Leave(FALSE)
    BY <2>4, LeaveStep
  <2>5. CASE \E r \in LeaveOutcomes : VisitAndLeave(r, FALSE)
    BY <2>5, VisitAndLeaveStep DEF LeaveOutcomes
  <2> QED BY <1>6, <2>1, <2>2, <2>3, <2>4, <2>5 DEF Walk
<1>7. CASE UNCHANGED vars
  BY <1>7, StutterStep
<1> QED BY <1>1, <1>2, <1>3, <1>4, <1>5, <1>6, <1>7 DEF Next

(* The inductive invariant: the suspended nodes form the path from the     *)
(* root to the node at hand, all of them alive and distinct.               *)
THEOREM TreeInvariant ==
  ASSUME NoThrow
  PROVE  Spec => []IInv
<1>1. Init => IInv
  BY InitInv
<1>2. IInv /\ [Next]_vars => IInv'
  BY NextInv
<1> QED BY <1>1, <1>2, PTL DEF Spec

(* Every variable keeps its type (tree.h, the members of tree and the      *)
(* locals of ForEach).                                                     *)
THEOREM TreeTypeCorrect ==
  ASSUME NoThrow
  PROVE  Spec => []TypeOK
<1>1. IInv => TypeOK
  BY DEF IInv
<1> QED BY <1>1, TreeInvariant, PTL

(* On every tree, in every order, ForEach and Clear() never touch a node   *)
(* that was destroyed: Clear() destroys the whole tree although it walks   *)
(* over it (tree.h, node_deleter).                                         *)
THEOREM NeverDangling ==
  ASSUME NoThrow
  PROVE  Spec => []NoDangling
<1>1. IInv => NoDangling
  <2> SUFFICES ASSUME IInv, pc # "idle"
               PROVE  /\ top.node \in alive
                      /\ \A k \in 1..Len(stack) : stack[k].node \in alive
    BY DEF NoDangling
  <2>1. \A k \in 1..Len(stack) : Path[k] = stack[k].node /\ Path[k] \in alive
    BY PathFacts DEF IInv, PathAlive
  <2> QED BY <2>1, PathFacts
<1> QED BY <1>1, TreeInvariant, PTL

-----------------------------------------------------------------------------
(***************************************************************************)
(* Clear() destroys all.  What is below a node, for any slot buffers s.    *)
(***************************************************************************)
Shut(s, S) == \A m \in S : \A k \in 1..Len(s[m]) : s[m][k] \in S \cup {Nil}
Beneath(s, c) ==
  {m \in Node : c # Nil /\ \A S \in SUBSET Node : (c \in S /\ Shut(s, S)) => m \in S}
RestOf(s, n, from) ==
  {n} \cup UNION {Beneath(s, s[n][k + 1]) : k \in from..(Len(s[n]) - 1)}

Buffers == [Node -> Seq(NodeOrNil)]

LEMMA PendingIs ==
  pc # "idle" =>
    Pending = RestOf(sub, top.node, i)
              \cup UNION {RestOf(sub, stack[s].node, stack[s].next) : s \in DOMAIN stack}
BY DEF Pending, Subtree, Closed, SubNodeCount, RestOf, Beneath, Shut

LEMMA PendingNext ==
  pc' # "idle" =>
    Pending' = RestOf(sub', top'.node, i')
               \cup UNION {RestOf(sub', stack'[s].node, stack'[s].next) : s \in DOMAIN stack'}
BY DEF Pending, Subtree, Closed, SubNodeCount, RestOf, Beneath, Shut

(* What is below a node is the least set with it that no slot leads out of. *)
LEMMA BeneathLeast ==
  ASSUME NEW s, NEW c, NEW S \in SUBSET Node, c \in S, Shut(s, S)
  PROVE  Beneath(s, c) \subseteq S
BY DEF Beneath

LEMMA BeneathShut ==
  ASSUME NEW s \in Buffers, NEW c \in Node
  PROVE  c \in Beneath(s, c) /\ Beneath(s, c) \in SUBSET Node /\ Shut(s, Beneath(s, c))
<1> DEFINE B == Beneath(s, c)
<1>1. c \in B /\ B \in SUBSET Node
  BY TreeAssumption DEF Beneath
<1>2. ASSUME NEW m \in B, NEW k \in 1..Len(s[m]), s[m][k] # Nil  PROVE s[m][k] \in B
  <2>1. s[m] \in Seq(NodeOrNil)
    BY <1>1 DEF Buffers
  <2>2. s[m][k] \in Node
    BY <1>2, <2>1 DEF NodeOrNil
  <2>3. ASSUME NEW S \in SUBSET Node, c \in S, Shut(s, S)  PROVE s[m][k] \in S
    <3>1. m \in S
      BY <2>3 DEF Beneath
    <3> QED BY <1>2, <2>3, <3>1 DEF Shut
  <2> QED BY <2>2, <2>3, TreeAssumption DEF Beneath
<1> QED BY <1>1, <1>2 DEF Shut

(* Of a node there is itself, and what is below its slots. *)
LEMMA BeneathRest ==
  ASSUME NEW s \in Buffers, NEW c \in Node
  PROVE  Beneath(s, c) = RestOf(s, c, 0)
<1> DEFINE B == Beneath(s, c)
           R == RestOf(s, c, 0)
<1>1. c \in B /\ B \in SUBSET Node /\ Shut(s, B) /\ c \in R
  BY BeneathShut DEF RestOf
<1>2. Len(s[c]) \in Nat /\ \A k \in 0..(Len(s[c]) - 1) : k + 1 \in 1..Len(s[c])
  BY DEF Buffers
<1>3. ASSUME NEW k \in 0..(Len(s[c]) - 1), s[c][k + 1] # Nil
      PROVE  s[c][k + 1] \in Node /\ Beneath(s, s[c][k + 1]) \subseteq B
  <2>1. s[c][k + 1] \in B
    BY <1>1, <1>2, <1>3 DEF Shut
  <2> QED BY <1>1, <2>1, BeneathLeast
<1>4. Beneath(s, Nil) = {}
  BY DEF Beneath
<1>5. R \subseteq B
  <2> HIDE DEF B
  <2>1. \A k \in 0..(Len(s[c]) - 1) : Beneath(s, s[c][k + 1]) \subseteq B
    BY <1>3, <1>4
  <2> QED BY <1>1, <2>1 DEF RestOf
<1>6. R \in SUBSET Node
  <2> HIDE DEF R
  <2> QED BY <1>1, <1>5
<1>7. Shut(s, R)
  <2> SUFFICES ASSUME NEW m \in R, NEW l \in 1..Len(s[m]), s[m][l] # Nil  PROVE s[m][l] \in R
    BY DEF Shut
  <2>1. CASE m = c
    <3>1. l - 1 \in 0..(Len(s[c]) - 1) /\ (l - 1) + 1 = l
      BY <1>2, <2>1
    <3> DEFINE k == l - 1
    <3>2. k \in 0..(Len(s[c]) - 1) /\ s[c][k + 1] = s[m][l]
      BY <2>1, <3>1
    <3> HIDE DEF k
    <3>3. s[c][k + 1] \in Beneath(s, s[c][k + 1])
      BY <1>3, <3>2, BeneathShut
    <3> QED BY <3>2, <3>3 DEF RestOf
  <2>2. CASE m # c
    <3>1. PICK k \in 0..(Len(s[c]) - 1) : m \in Beneath(s, s[c][k + 1])
      BY <2>2 DEF RestOf
    <3>2. s[c][k + 1] \in Node
      BY <1>3, <1>4, <3>1
    <3>3. s[m][l] \in Beneath(s, s[c][k + 1])
      BY <3>1, <3>2, BeneathShut DEF Shut
    <3> QED BY <3>3 DEF RestOf
  <2> QED BY <2>1, <2>2
<1>8. B \subseteq R
  <2> HIDE DEF R
  <2> QED BY <1>1, <1>6, <1>7, BeneathLeast
<1> QED BY <1>5, <1>8

(* The slots of one node do not matter below another it is not below. *)
LEMMA BeneathKept ==
  ASSUME NEW s \in Buffers, NEW u \in Buffers, NEW t, \A m \in Node : m # t => u[m] = s[m],
         NEW c \in NodeOrNil, t \notin Beneath(s, c)
  PROVE  Beneath(u, c) = Beneath(s, c)
<1>1. CASE c = Nil
  BY <1>1 DEF Beneath
<1>2. CASE c \in Node
  <2> DEFINE B == Beneath(s, c)
             C == Beneath(u, c)
  <2>1. c \in B /\ B \in SUBSET Node /\ Shut(s, B)
    BY <1>2, BeneathShut
  <2>2. c \in C /\ C \in SUBSET Node /\ Shut(u, C)
    BY <1>2, BeneathShut
  <2>3. Shut(u, B)
    <3> HIDE DEF B
    <3>1. \A m \in B : u[m] = s[m]
      BY <2>1 DEF B
    <3> QED BY <2>1, <3>1 DEF Shut
  <2>4. C \subseteq B
    BY <2>1, <2>3, BeneathLeast
  <2>5. Shut(s, C)
    <3> HIDE DEF B, C
    <3>1. \A m \in C : u[m] = s[m]
      BY <2>2, <2>4 DEF B
    <3> QED BY <2>2, <3>1 DEF Shut
  <2>6. B \subseteq C
    BY <2>2, <2>5, BeneathLeast
  <2> QED BY <2>4, <2>6
<1> QED BY <1>1, <1>2 DEF NodeOrNil

(* The node at hand is below no slot of the path but those the suspended   *)
(* nodes wait in: only the path leads to the nodes of the path.            *)
LEMMA PathOnly ==
  ASSUME IInv, pc # "idle", NEW s \in 1..(Len(stack) + 1), NEW k \in 1..Len(sub[Path[s]]),
         s <= Len(stack) => k # stack[s].next
  PROVE  top.node \notin Beneath(sub, sub[Path[s]][k])
<1> DEFINE l == Len(stack)
           S == {m \in Node : \A j \in 1..(l + 1) : Path[j] # m}
           n == Path[s]
           c == sub[n][k]
<1>1. /\ l \in Nat /\ Path[l + 1] = top.node
      /\ \A j \in 1..l : Path[j] = stack[j].node
      /\ Path[1] = root /\ root # Nil
      /\ \A j \in 1..(l + 1) : Path[j] \in Node
  BY PathFacts DEF IInv, PathAlive
<1>2. sub \in Buffers /\ Nil \notin Node
  BY TreeAssumption DEF IInv, TypeOK, Buffers
<1>3. /\ \A j \in 1..l : /\ stack[j].next \in 1..Len(sub[stack[j].node])
                         /\ sub[stack[j].node][stack[j].next] = Path[j + 1]
                         /\ Path[j + 1] # Nil
      /\ \A j, h \in 1..(l + 1) : Path[j] = Path[h] => j = h
  BY DEF IInv, PathLinked, PathDistinct
(* Who leads to a node of the path is on it, and waits there. *)
<1>4. ASSUME NEW m \in Node, NEW j \in 1..Len(sub[m]), sub[m][j] # Nil,
             NEW h \in 1..(l + 1), sub[m][j] = Path[h]
      PROVE  \E g \in 1..l : m = stack[g].node /\ j = stack[g].next
  <2>1. h # 1
    BY <1>1, <1>4 DEF IInv, RootFree
  <2> DEFINE g == h - 1
  <2>2. g \in 1..l /\ g + 1 = h
    BY <1>1, <2>1
  <2> HIDE DEF g
  <2>3. sub[stack[g].node][stack[g].next] = sub[m][j] /\ stack[g].node \in Node
    <3>1. sub[stack[g].node][stack[g].next] = Path[g + 1]
      BY <1>3, <2>2
    <3>2. g \in 1..(l + 1)
      BY <1>1, <2>2
    <3> QED BY <1>1, <1>4, <2>2, <3>1, <3>2
  <2>4. m = stack[g].node /\ j = stack[g].next
    <3> DEFINE q == stack[g].node
               x == stack[g].next
    <3>1. q \in Node /\ x \in 1..Len(sub[q]) /\ sub[m][j] = sub[q][x]
      BY <1>3, <2>2, <2>3
    <3> HIDE DEF q, x
    <3>2. m = q /\ j = x
      BY <1>4, <3>1 DEF IInv, OneSlot
    <3> QED BY <3>2 DEF q, x
  <2> QED BY <2>2, <2>4
<1>5. n \in Node /\ k \in 1..Len(sub[n]) /\ s \in 1..(l + 1)
  BY <1>1
<1>6. CASE c = Nil
  BY <1>6 DEF Beneath
<1>7. CASE c # Nil
  <2>1. c \in Node
    BY <1>2, <1>5, <1>7 DEF Buffers, NodeOrNil
  <2>2. c \in S
    <3> SUFFICES ASSUME NEW h \in 1..(l + 1), c = Path[h]  PROVE FALSE
      BY <2>1
    <3>1. PICK g \in 1..l : n = stack[g].node /\ k = stack[g].next
      BY <1>4, <1>5, <1>7
    <3>2. g \in 1..(l + 1) /\ Path[g] = Path[s]
      BY <1>1, <3>1
    <3>3. g = s
      BY <1>3, <1>5, <3>2
    <3> QED BY <1>1, <3>1, <3>3
  <2>3. Shut(sub, S)
    <3> SUFFICES ASSUME NEW m \in S, NEW j \in 1..Len(sub[m]), sub[m][j] # Nil
                 PROVE  sub[m][j] \in S
      BY DEF Shut
    <3>1. sub[m][j] \in Node
      BY <1>2 DEF Buffers, NodeOrNil
    <3>2. ASSUME NEW h \in 1..(l + 1), sub[m][j] = Path[h]  PROVE FALSE
      <4>1. PICK g \in 1..l : m = stack[g].node
        BY <1>4, <3>2
      <4>2. g \in 1..(l + 1) /\ Path[g] = m
        BY <1>1, <4>1
      <4> QED BY <4>2
    <3> QED BY <3>1, <3>2
  <2>4. top.node \notin S /\ S \in SUBSET Node
    <3>1. l + 1 \in 1..(l + 1)
      BY <1>1
    <3> QED BY <1>1, <3>1
  <2> HIDE DEF S
  <2> QED BY <2>2, <2>3, <2>4, BeneathLeast
<1> QED BY <1>6, <1>7

(* So it is below none that a suspended node has still to come to. *)
LEMMA PathApart ==
  ASSUME IInv, pc # "idle", NEW s \in 1..Len(stack),
         NEW k \in stack[s].next..(Len(sub[stack[s].node]) - 1)
  PROVE  top.node \notin Beneath(sub, sub[stack[s].node][k + 1])
<1>1. Len(stack) \in Nat /\ Path[s] = stack[s].node
  BY PathFacts
<1>2. stack[s].node \in Node /\ stack[s].next \in 1..Len(sub[stack[s].node])
  <2>1. Path[s] \in alive
    BY <1>1 DEF IInv, PathAlive
  <2> QED BY <1>1, <2>1, PathFacts DEF IInv, PathLinked
<1>3. Len(sub[stack[s].node]) \in Nat /\ stack[s].next \in Nat
  BY <1>2 DEF IInv, TypeOK
<1> DEFINE j == k + 1
<1>4. j \in 1..Len(sub[Path[s]]) /\ j # stack[s].next /\ s \in 1..(Len(stack) + 1)
  BY <1>1, <1>2, <1>3
<1> HIDE DEF j
<1>5. top.node \notin Beneath(sub, sub[Path[s]][j])
  BY <1>4, PathOnly
<1> QED BY <1>1, <1>5 DEF j

(* The steps of Clear(). *)
ClearsRight == Pending' = Pending \ (alive \ alive')

LEMMA ClearScan ==
  ASSUME IInv, PassOrder \/ SkipNull
  PROVE  ClearsRight
<1>1. /\ pc # "idle" /\ pc' # "idle" /\ UNCHANGED <<alive, sub, stack, top>>
      /\ \/ i' = i
         \/ i' = i + 1 /\ pc = "past" /\ sub[top.node][i + 1] = Nil
  BY DEF PassOrder, SkipNull, nodeVars
<1>2. RestOf(sub, top.node, i') = RestOf(sub, top.node, i)
  <2>1. CASE i' = i
    BY <2>1
  <2>2. CASE i' = i + 1 /\ pc = "past" /\ sub[top.node][i + 1] = Nil
    <3>1. /\ i \in Nat /\ i < Len(sub[top.node]) /\ Len(sub[top.node]) \in Nat
      BY <1>1, <2>2, PathFacts DEF IInv, TypeOK, LoopInv
    <3>2. Beneath(sub, sub[top.node][i + 1]) = {}
      BY <2>2 DEF Beneath
    <3>3. \A k : k \in i..(Len(sub[top.node]) - 1)
                   <=> k = i \/ k \in (i + 1)..(Len(sub[top.node]) - 1)
      BY <3>1
    <3> QED BY <2>2, <3>2, <3>3 DEF RestOf
  <2> QED BY <1>1, <2>1, <2>2
<1>3. Pending' = Pending
  <2> DEFINE Held(q) == UNION {RestOf(sub, q[s].node, q[s].next) : s \in DOMAIN q}
  <2>1. Pending = RestOf(sub, top.node, i) \cup Held(stack)
    BY <1>1, PendingIs
  <2>2. Pending' = RestOf(sub, top.node, i') \cup Held(stack)
    BY <1>1, PendingNext
  <2> HIDE DEF Held
  <2> QED BY <1>2, <2>1, <2>2
<1> QED BY <1>1, <1>3 DEF ClearsRight

LEMMA ClearPush ==
  ASSUME IInv, PushStack
  PROVE  ClearsRight
<1> DEFINE n == top.node
           c == sub[n][i + 1]
           l == Len(stack)
           Of(q, s) == RestOf(sub, q[s].node, q[s].next)
<1>1. /\ pc = "past" /\ pc' = "at" /\ UNCHANGED <<alive, sub>>
      /\ stack' = Append(stack, Item(n, i + 1)) /\ top' = Item(c, 0) /\ i' = 0 /\ c # Nil
  BY DEF PushStack, nodeVars
<1>2. /\ i \in Nat /\ i < Len(sub[n]) /\ Len(sub[n]) \in Nat
      /\ stack \in Seq(StackItem) /\ l \in Nat /\ sub \in Buffers /\ n \in Node
      /\ Item(n, i + 1) \in StackItem
  BY <1>1, PathFacts DEF IInv, TypeOK, LoopInv, Buffers, Item, StackItem, NodeOrNil
<1>3. c \in Node
  <2>1. sub[n] \in Seq(NodeOrNil) /\ i + 1 \in 1..Len(sub[n])
    BY <1>2 DEF Buffers
  <2> QED BY <1>1, <2>1 DEF NodeOrNil
<1>4. RestOf(sub, n, i) = RestOf(sub, c, 0) \cup RestOf(sub, n, i + 1)
  <2>1. RestOf(sub, c, 0) = Beneath(sub, c)
    BY <1>2, <1>3, BeneathRest
  <2>2. \A k : k \in i..(Len(sub[n]) - 1) <=> k = i \/ k \in (i + 1)..(Len(sub[n]) - 1)
    BY <1>2
  <2> QED BY <2>1, <2>2 DEF RestOf
<1> DEFINE item == Item(n, i + 1)
           new == Append(stack, item)
<1>5. /\ item.node = n /\ item.next = i + 1
      /\ top'.node = c
  BY <1>1 DEF Item
<1>6. /\ DOMAIN stack = 1..l /\ DOMAIN new = 1..(l + 1)
      /\ new[l + 1] = item
      /\ \A s \in 1..l : new[s] = stack[s]
  <2> HIDE DEF item
  <2> QED BY <1>2 DEF item
<1>7. UNION {Of(new, s) : s \in 1..(l + 1)} = Of(new, l + 1) \cup UNION {Of(stack, s) : s \in 1..l}
  <2> HIDE DEF new, l
  <2>1. \A s : s \in 1..(l + 1) <=> s \in 1..l \/ s = l + 1
    BY <1>2 DEF l
  <2>2. \A s \in 1..l : Of(new, s) = Of(stack, s)
    BY <1>6 DEF l
  <2> HIDE DEF Of
  <2> QED BY <2>1, <2>2
<1>8. Of(new, l + 1) = RestOf(sub, n, i + 1)
  BY <1>5, <1>6
<1>9. /\ Pending = RestOf(sub, n, i) \cup UNION {Of(stack, s) : s \in 1..l}
      /\ Pending' = RestOf(sub, c, 0) \cup UNION {Of(new, s) : s \in 1..(l + 1)}
  BY <1>1, <1>5, <1>6, PendingIs, PendingNext
<1>10. Pending' = Pending
  <2> HIDE DEF Of, new, l, n, c
  <2> QED BY <1>4, <1>7, <1>8, <1>9
<1> QED BY <1>1, <1>10 DEF ClearsRight

LEMMA ClearDestroy ==
  ASSUME IInv, pc # "idle", purpose = "clear", AtEnd, OnTraversal, PopStack(FALSE)
  PROVE  ClearsRight
<1> DEFINE t == top.node
           l == Len(stack)
           Of(u, s) == RestOf(u, stack[s].node, stack[s].next)
<1>1. /\ t \in alive /\ alive \subseteq Node /\ l \in Nat /\ stack \in Seq(StackItem)
      /\ DOMAIN stack = 1..l
      /\ alive' = alive \ {t} /\ sub' = [sub EXCEPT ![t] = <<>>]
      /\ i \in Nat /\ sub \in Buffers /\ i >= Len(sub[t])
  BY PathFacts DEF AtEnd, SubNodeCount, OnTraversal, IInv, TypeOK, Buffers
<1>2. alive \ alive' = {t}
  BY <1>1
<1>3. RestOf(sub, t, i) = {t}
  <2>1. Len(sub[t]) \in Nat
    BY <1>1 DEF Buffers
  <2>2. \A k : k \notin i..(Len(sub[t]) - 1)
    BY <1>1, <2>1
  <2> QED BY <2>2 DEF RestOf
<1>4. Pending = {t} \cup UNION {Of(sub, s) : s \in 1..l}
  BY <1>1, <1>3, PendingIs
<1>5. CASE stack = <<>>
  <2>1. pc' = "idle"
    BY <1>5 DEF PopStack, Finish
  <2>2. Pending' = {}
    BY <2>1 DEF Pending
  <2>3. l = 0
    BY <1>5
  <2>4. \A s : s \notin 1..l
    BY <2>3
  <2>5. Pending = {t}
    <3> HIDE DEF Of, l
    <3> QED BY <1>4, <2>4
  <2> QED BY <1>2, <2>2, <2>5 DEF ClearsRight
<1>6. CASE stack # <<>>
  <2>1. /\ sub' \in Buffers /\ \A m \in Node : m # t => sub'[m] = sub[m]
    BY <1>1 DEF Buffers
  <2>2. ASSUME NEW s \in 1..l
        PROVE  Of(sub', s) = Of(sub, s) /\ t \notin Of(sub, s)
    <3> DEFINE n == stack[s].node
               f == stack[s].next
    <3>1. n \in Node /\ n # t
      <4>1. s \in 1..(l + 1) /\ l + 1 \in 1..(l + 1) /\ s # l + 1
        BY <1>1
      <4>2. Path[s] = n /\ Path[l + 1] = t
        BY PathFacts
      <4> QED BY <1>1, <4>1, <4>2 DEF IInv, PathAlive, PathDistinct
    <3>2. sub'[n] = sub[n] /\ sub[n] \in Seq(NodeOrNil)
      BY <1>1, <2>1, <3>1 DEF Buffers
    <3>3. f \in 1..Len(sub[n])
      BY DEF IInv, PathLinked
    <3>4. ASSUME NEW k \in f..(Len(sub[n]) - 1)
          PROVE  /\ t \notin Beneath(sub, sub[n][k + 1])
                 /\ Beneath(sub', sub[n][k + 1]) = Beneath(sub, sub[n][k + 1])
      <4>1. t \notin Beneath(sub, sub[n][k + 1])
        BY PathApart
      <4>2. sub[n][k + 1] \in NodeOrNil
        <5>1. k + 1 \in 1..Len(sub[n])
          BY <3>2, <3>3
        <5> QED BY <3>2, <5>1
      <4> DEFINE c == sub[n][k + 1]
                 u == sub'
      <4>3. /\ u \in Buffers /\ sub \in Buffers /\ \A m \in Node : m # t => u[m] = sub[m]
            /\ c \in NodeOrNil /\ t \notin Beneath(sub, c)
        BY <1>1, <2>1, <4>1, <4>2
      <4> HIDE DEF c, u, t
      <4>4. Beneath(u, c) = Beneath(sub, c)
        BY <4>3, BeneathKept
      <4> QED BY <4>1, <4>4 DEF c, u
    <3> HIDE DEF n, f
    <3>5. RestOf(sub', n, f) = RestOf(sub, n, f)
      BY <3>2, <3>4 DEF RestOf
    <3>6. t \notin RestOf(sub, n, f)
      BY <3>1, <3>4 DEF RestOf
    <3> QED BY <3>5, <3>6 DEF n, f
  <2>3. /\ Len(stack') = l - 1 /\ l \in Nat \ {0}
        /\ \A s \in 1..(l - 1) : stack'[s] = stack[s]
        /\ stack' \in Seq(StackItem)
        /\ top'.node = stack[l].node /\ i' = stack[l].next /\ pc' = "at"
    <3>1. /\ Len(stack') = l - 1 /\ l \in Nat \ {0}
          /\ \A s \in 1..(l - 1) : stack'[s] = stack[s]
          /\ stack' \in Seq(StackItem) /\ top'.node = stack[l].node
      BY <1>6, PopFacts
    <3> QED BY <1>6, <3>1 DEF PopStack
  <2>4. Pending' = Of(sub', l) \cup UNION {Of(sub', s) : s \in 1..(l - 1)}
    <3>1. DOMAIN stack' = 1..(l - 1)
      BY <2>3
    <3>2. Pending' = RestOf(sub', top'.node, i')
                     \cup UNION {RestOf(sub', stack'[s].node, stack'[s].next) : s \in DOMAIN stack'}
      BY <2>3, PendingNext
    <3>3. \A s \in 1..(l - 1) : RestOf(sub', stack'[s].node, stack'[s].next) = Of(sub', s)
      BY <2>3
    <3> HIDE DEF l
    <3>4. RestOf(sub', top'.node, i') = Of(sub', l)
      BY <2>3
    <3> HIDE DEF Of
    <3> QED BY <3>1, <3>2, <3>3, <3>4
  <2>5. \A s : s \in 1..l <=> s = l \/ s \in 1..(l - 1)
    BY <2>3
  <2>6. Pending' = UNION {Of(sub, s) : s \in 1..l}
    <3> HIDE DEF l, Of
    <3> QED BY <2>2, <2>4, <2>5
  <2>7. t \notin UNION {Of(sub, s) : s \in 1..l}
    <3> HIDE DEF l, Of
    <3> QED BY <2>2
  <2> HIDE DEF l, Of
  <2> QED BY <1>2, <1>4, <2>6, <2>7 DEF ClearsRight
<1> QED BY <1>5, <1>6

LEMMA ClearStep ==
  ASSUME NoThrow, IInv, Next, pc # "idle", purpose = "clear"
  PROVE  ClearsRight
<1>1. Walk
  BY DEF Next, CreateNode, SetSubNode, SetRoot, ForEach, Clear, StartWalk, BetweenWalks
<1>2. /\ order = -1 /\ i \in Nat /\ CallbackOutcomes = {"zero"}
      /\ LeaveOutcomes = {"zero"}
  BY DEF IInv, LoopInv, TypeOK, CallbackOutcomes, LeaveOutcomes
<1>3. ~ \E r \in CallbackOutcomes : VisitAt(r)
  BY <1>2 DEF VisitAt
<1>4. ~Leave(FALSE)
  BY <1>2 DEF Leave, PostOrder
<1>5. ASSUME VisitAndLeave("zero", FALSE)  PROVE ClearsRight
  <2>1. AtEnd /\ OnTraversal /\ PopStack(FALSE)
    BY <1>5 DEF VisitAndLeave
  <2> QED BY <2>1, ClearDestroy
<1> QED BY <1>1, <1>2, <1>3, <1>4, <1>5, ClearScan, ClearPush DEF Walk

(* Clear() destroys every node below the root, and no other: no step of it *)
(* loses one it has still to come to (tree.h, node_deleter and Clear).     *)
THEOREM ClearLosesNothing ==
  ASSUME NoThrow
  PROVE  Spec => ClearDestroysAll
<1>1. IInv /\ [Next]_vars
        => [(pc # "idle" /\ purpose = "clear" /\ stale = 0)
              => Pending' = Pending \ (alive \ alive')]_vars
  BY ClearStep DEF ClearsRight
<1> QED BY <1>1, TreeInvariant, PTL DEF Spec, ClearDestroysAll

-----------------------------------------------------------------------------
(***************************************************************************)
(* ForEach() against its reference.  Below is a recursive function over    *)
(* the tree; that it has a value at all, and only one, is what the next    *)
(* lemmas are about.  First FlattenSeq, which puts pieces together.        *)
(***************************************************************************)
(* Every set of numbers has a smallest one. *)
LEMMA Smallest ==
  ASSUME NEW S \in SUBSET Nat, S # {}
  PROVE  \E m \in S : \A n \in S : m <= n
<1> DEFINE Before == {ss \in Nat \X Nat : ss[1] < ss[2]}
<1>1. IsWellFoundedOn(Before, Nat)
  <2>1. Before = OpToRel(<, Nat)
    BY Zenon DEF OpToRel
  <2> QED BY <2>1, NatLessThanWellFounded, Zenon
<1>2. \A n, m \in Nat : n < m => <<n, m>> \in Before
  <2> SUFFICES ASSUME NEW n \in Nat, NEW m \in Nat, n < m
               PROVE  <<n, m>> \in {ss \in Nat \X Nat : ss[1] < ss[2]}
    OBVIOUS
  <2> QED OBVIOUS
<1> HIDE DEF Before
<1>3. PICK m \in S : \A n \in S : ~(<<n, m>> \in Before)
  BY <1>1, WFMin, Zenon
<1>4. ASSUME NEW n \in S  PROVE m <= n
  <2>1. n \in Nat /\ m \in Nat /\ ~(n < m)
    BY <1>2, <1>3
  <2> QED BY <2>1
<1> QED BY <1>4

(* A set of numbers with 0 and all successors is the set of all numbers. *)
LEMMA AllNumbers ==
  ASSUME NEW S \in SUBSET Nat, 0 \in S, \A n \in S : n + 1 \in S
  PROVE  S = Nat
<1>1. SUFFICES ASSUME Nat \ S # {}  PROVE FALSE
  OBVIOUS
<1>2. PICK m \in Nat \ S : \A n \in Nat \ S : m <= n
  BY <1>1, Smallest
<1>3. m - 1 \in Nat /\ m - 1 + 1 = m /\ m - 1 \notin Nat \ S
  BY <1>2
<1> QED BY <1>2, <1>3

(* The values of the recursive function of FlattenSeq up to n. *)
Joins(T, q, n, g) ==
  /\ g \in [1..n -> Seq(T)]
  /\ \A k \in 1..n : g[k] = IF k = 1 THEN q[k] ELSE g[k - 1] \o q[k]

(* There is such a function. *)
LEMMA JoinsExists ==
  ASSUME NEW T, NEW q \in Seq(Seq(T))
  PROVE  \A n \in Nat : n <= Len(q) => \E g : Joins(T, q, n, g)
<1> DEFINE S == {n \in Nat : n <= Len(q) => \E g : Joins(T, q, n, g)}
<1>1. 0 \in S
  <2>1. Joins(T, q, 0, [k \in 1..0 |-> <<>>])
    BY DEF Joins
  <2> QED BY <2>1
<1>2. ASSUME NEW n \in S  PROVE n + 1 \in S
  <2> SUFFICES ASSUME n + 1 <= Len(q)  PROVE \E h : Joins(T, q, n + 1, h)
    OBVIOUS
  <2>0. n \in Nat /\ Len(q) \in Nat
    OBVIOUS
  <2>1. PICK g : Joins(T, q, n, g)
    BY <1>2, <2>0
  <2>2. q[n + 1] \in Seq(T)
    BY <2>0
  <2> DEFINE last == IF n = 0 THEN q[n + 1] ELSE g[n] \o q[n + 1]
             h == [k \in 1..(n + 1) |-> IF k = n + 1 THEN last ELSE g[k]]
  <2>3. last \in Seq(T)
    <3>1. CASE n = 0
      BY <2>2, <3>1
    <3>2. CASE n # 0
      <4>1. g[n] \in Seq(T)
        BY <2>0, <2>1, <3>2 DEF Joins
      <4> QED BY <2>2, <3>2, <4>1, ConcatProperties
    <3> QED BY <3>1, <3>2
  <2>4. h \in [1..(n + 1) -> Seq(T)]
    <3> HIDE DEF last
    <3> QED BY <2>0, <2>1, <2>3 DEF Joins
  <2>5. ASSUME NEW k \in 1..(n + 1)
        PROVE  h[k] = IF k = 1 THEN q[k] ELSE h[k - 1] \o q[k]
    <3>1. CASE k = n + 1
      <4>1. h[k] = last
        BY <3>1, <2>0
      <4>2. CASE n = 0
        BY <4>1, <4>2, <3>1
      <4>3. CASE n # 0
        <5>1. h[k - 1] = g[n]
          BY <4>3, <3>1, <2>0
        <5>2. k # 1
          BY <4>3, <3>1, <2>0
        <5> HIDE DEF h
        <5>3. last = g[n] \o q[n + 1]
          BY <4>3, Zenon
        <5> HIDE DEF last
        <5>4. h[k] = h[k - 1] \o q[k]
          BY <5>1, <5>3, <4>1, <3>1
        <5> QED BY <5>2, <5>4
      <4> QED BY <4>2, <4>3
    <3>2. CASE k # n + 1
      <4>1. k \in 1..n /\ h[k] = g[k]
        BY <3>2, <2>0
      <4>2. k # 1 => h[k - 1] = g[k - 1]
        BY <4>1, <2>0
      <4>3. g[k] = IF k = 1 THEN q[k] ELSE g[k - 1] \o q[k]
        BY <4>1, <2>1 DEF Joins
      <4> HIDE DEF h
      <4>4. CASE k = 1
        BY <4>1, <4>3, <4>4
      <4>5. CASE k # 1
        BY <4>1, <4>2, <4>3, <4>5
      <4> QED BY <4>4, <4>5
    <3> QED BY <3>1, <3>2
  <2> HIDE DEF h
  <2> QED BY <2>4, <2>5 DEF Joins
<1>3. S = Nat
  <2> HIDE DEF S
  <2>1. S \in SUBSET Nat
    BY DEF S
  <2> QED BY <1>1, <1>2, <2>1, AllNumbers
<1> QED BY <1>3

(* Up to the last element as well. *)
LEMMA JoinsTotal ==
  ASSUME NEW T, NEW q \in Seq(Seq(T))
  PROVE  \E g : Joins(T, q, Len(q), g)
<1> DEFINE n == Len(q)
<1>1. n \in Nat /\ n <= Len(q)
  OBVIOUS
<1> HIDE DEF n
<1>2. \E g : Joins(T, q, n, g)
  BY <1>1, JoinsExists
<1> QED BY <1>2 DEF n

(* The same without the type of the values. *)
Steps(q, n, g) == \A k \in 1..n : g[k] = IF k = 1 THEN q[k] ELSE g[k - 1] \o q[k]

(* Two functions with those values agree. *)
LEMMA StepsAgree ==
  ASSUME NEW n \in Nat, NEW q, NEW g, NEW h, Steps(q, n, g), Steps(q, n, h)
  PROVE  \A k \in 1..n : g[k] = h[k]
<1> DEFINE S == {m \in Nat : m \in 1..n => g[m] = h[m]}
<1>1. 0 \in S
  OBVIOUS
<1>2. ASSUME NEW m \in S  PROVE m + 1 \in S
  <2> SUFFICES ASSUME m + 1 \in 1..n  PROVE g[m + 1] = h[m + 1]
    OBVIOUS
  <2>1. m \in Nat /\ (m + 1) - 1 = m
    OBVIOUS
  <2>2. /\ g[m + 1] = IF m + 1 = 1 THEN q[m + 1] ELSE g[(m + 1) - 1] \o q[m + 1]
        /\ h[m + 1] = IF m + 1 = 1 THEN q[m + 1] ELSE h[(m + 1) - 1] \o q[m + 1]
    BY DEF Steps
  <2>3. CASE m = 0
    BY <2>1, <2>2, <2>3
  <2>4. CASE m # 0
    <3>1. g[m] = h[m] /\ m + 1 # 1
      BY <2>1, <2>4
    <3> QED BY <3>1, <2>1, <2>2
  <2> QED BY <2>3, <2>4
<1>3. S = Nat
  <2> HIDE DEF S
  <2>1. S \in SUBSET Nat
    BY DEF S
  <2> QED BY <1>1, <1>2, <2>1, AllNumbers
<1> QED BY <1>3

(* FlattenSeq is the last of those values. *)
LEMMA FlattenIs ==
  ASSUME NEW T, NEW q \in Seq(Seq(T)), NEW g, Joins(T, q, Len(q), g), q # <<>>
  PROVE  FlattenSeq(q) = g[Len(q)]
<1> DEFINE IsFlatten(f) == f = [k \in 1..Len(q) |-> IF k = 1 THEN q[k] ELSE f[k - 1] \o q[k]]
           flatten == CHOOSE f : IsFlatten(f)
<1>1. Len(q) \in Nat \ {0}
  OBVIOUS
<1>2. IsFlatten(g)
  BY DEF Joins
<1>3. IsFlatten(flatten)
  <2> HIDE DEF IsFlatten
  <2> QED BY <1>2
<1>4. FlattenSeq(q) = flatten[Len(q)]
  BY <1>1 DEF FlattenSeq
<1> HIDE DEF flatten
<1>5. Steps(q, Len(q), flatten)
  BY <1>3 DEF Steps
<1>6. Steps(q, Len(q), g)
  BY DEF Joins, Steps
<1>7. flatten[Len(q)] = g[Len(q)]
  BY <1>1, <1>5, <1>6, StepsAgree
<1> QED BY <1>4, <1>7

(* Flattening nothing gives nothing. *)
LEMMA FlattenEmpty == FlattenSeq(<<>>) = <<>>
BY DEF FlattenSeq

(* Flattening gives a sequence. *)
LEMMA FlattenType ==
  ASSUME NEW T, NEW q \in Seq(Seq(T))
  PROVE  FlattenSeq(q) \in Seq(T)
<1>1. CASE q = <<>>
  <2>1. FlattenSeq(q) = <<>>
    BY <1>1, FlattenEmpty, Zenon
  <2> QED BY <2>1
<1>2. CASE q # <<>>
  <2>1. Len(q) \in Nat \ {0}
    BY <1>2
  <2>2. PICK g : Joins(T, q, Len(q), g)
    BY JoinsTotal
  <2>3. g[Len(q)] \in Seq(T)
    <3>1. g \in [1..Len(q) -> Seq(T)] /\ Len(q) \in 1..Len(q)
      BY <2>1, <2>2 DEF Joins
    <3> QED BY <3>1, Zenon
  <2>4. FlattenSeq(q) = g[Len(q)]
    BY <1>2, <2>2, FlattenIs
  <2> QED BY <2>3, <2>4
<1> QED BY <1>1, <1>2

(* One element more goes behind the rest. *)
LEMMA FlattenNext ==
  ASSUME NEW T, NEW q \in Seq(Seq(T)), NEW r \in Seq(Seq(T)), Len(r) = Len(q) + 1,
         \A k \in 1..Len(q) : q[k] = r[k]
  PROVE  FlattenSeq(r) = FlattenSeq(q) \o r[Len(r)]
<1> DEFINE n == Len(q)
<1>1. n \in Nat /\ Len(r) = n + 1 /\ r # <<>> /\ r[n + 1] \in Seq(T)
  OBVIOUS
<1>2. PICK h : Joins(T, r, Len(r), h)
  BY JoinsTotal
<1>3. FlattenSeq(r) = h[n + 1]
  BY <1>1, <1>2, FlattenIs
<1>4. CASE n = 0
  <2>1. q = <<>>
    BY <1>4
  <2>2. h[n + 1] = r[n + 1]
    BY <1>1, <1>2, <1>4 DEF Joins
  <2>3. FlattenSeq(q) \o r[n + 1] = r[n + 1]
    BY <1>1, <2>1, FlattenEmpty, ConcatEmptySeq
  <2> QED BY <1>1, <1>3, <2>2, <2>3
<1>5. CASE n # 0
  <2> DEFINE g == [k \in 1..n |-> h[k]]
  <2>1. Joins(T, q, Len(q), g)
    <3>1. \A k \in 1..n : k \in 1..Len(r) /\ q[k] = r[k] /\ g[k] = h[k]
      BY <1>1
    <3>2. \A k \in 1..n : k = 1 \/ (k - 1 \in 1..n /\ g[k - 1] = h[k - 1])
      BY <1>1
    <3>3. g \in [1..n -> Seq(T)]
      BY <1>1, <1>2 DEF Joins
    <3> HIDE DEF g
    <3>4. \A k \in 1..n : g[k] = IF k = 1 THEN q[k] ELSE g[k - 1] \o q[k]
      <4> TAKE k \in 1..n
      <4>1. h[k] = IF k = 1 THEN r[k] ELSE h[k - 1] \o r[k]
        BY <1>2, <3>1 DEF Joins
      <4>2. CASE k = 1
        BY <3>1, <4>1, <4>2
      <4>3. CASE k # 1
        BY <3>1, <3>2, <4>1, <4>3
      <4> QED BY <4>2, <4>3
    <3> QED BY <3>3, <3>4 DEF Joins
  <2>2. q # <<>>
    BY <1>5
  <2>3. FlattenSeq(q) = g[Len(q)]
    <3> HIDE DEF g
    <3> QED BY <2>1, <2>2, FlattenIs
  <2>5. g[n] = h[n]
    BY <1>1, <1>5
  <2>6. h[n + 1] = h[n] \o r[n + 1]
    <3>1. n + 1 \in 1..Len(r) /\ n + 1 # 1 /\ (n + 1) - 1 = n
      BY <1>1, <1>5
    <3>2. h[n + 1] = IF n + 1 = 1 THEN r[n + 1] ELSE h[(n + 1) - 1] \o r[n + 1]
      BY <1>2, <3>1 DEF Joins
    <3> QED BY <3>1, <3>2
  <2> HIDE DEF g
  <2> QED BY <1>1, <1>3, <2>3, <2>5, <2>6
<1> QED BY <1>4, <1>5

-----------------------------------------------------------------------------
(* The definitions of TreeOrder for any slot buffers s and order o. *)
Seqs(s, f, n, a, b) ==
  [k \in 1..(b - a + 1) |->
     LET m == s[n][a + k - 1] IN IF m = Nil THEN <<>> ELSE f[m]]
Part(s, f, n, a, b) == FlattenSeq(Seqs(s, f, n, a, b))
Whole(s, o, g, f, n) ==
  LET c == Len(s[n])
  IN  IF o < 0 \/ o >= c THEN Part(s, f, n, 1, c) \o <<n>>
      ELSE Part(s, f, n, 1, o) \o <<n>>
           \o (IF n \in g THEN <<>> ELSE Part(s, f, n, o + 1, c))

(* f gives what the recursive definition does, for the nodes of S. *)
Solves(s, o, g, S, f) == \A n \in S : f[n] = Whole(s, o, g, f, n)

(* A tree has a node without sub-node in every set of nodes. *)
Founded(s) ==
  \A S \in SUBSET Node : S # {} =>
     \E n \in S : \A k \in 1..Len(s[n]) : s[n][k] \notin S

(* f and h agree on the sub-nodes in the first b slots of n. *)
Agree(s, n, f, h, b) == \A k \in 1..b : s[n][k] # Nil => f[s[n][k]] = h[s[n][k]]

(* Only the sub-nodes in the slots up to b matter. *)
LEMMA PartEq ==
  ASSUME NEW s \in Buffers, NEW n \in Node, NEW f, NEW h,
         NEW a \in Nat \ {0}, NEW b \in Int, b <= Len(s[n]),
         Agree(s, n, f, h, b)
  PROVE  Part(s, f, n, a, b) = Part(s, h, n, a, b)
<1>1. s[n] \in Seq(NodeOrNil) /\ Len(s[n]) \in Nat
  BY DEF Buffers
<1>2. \A k \in 1..(b - a + 1) : a + k - 1 \in 1..b
  BY <1>1
<1>3. Seqs(s, f, n, a, b) = Seqs(s, h, n, a, b)
  BY <1>2 DEF Seqs, Agree
<1> QED BY <1>3 DEF Part

(* Of a node, only its sub-nodes and whether it is ignored. *)
LEMMA WholeEq ==
  ASSUME NEW s \in Buffers, NEW o \in Int, NEW n \in Node, NEW f, NEW h, NEW g, NEW d,
         n \in g <=> n \in d,
         \A k \in 1..Len(s[n]) : s[n][k] # Nil => f[s[n][k]] = h[s[n][k]]
  PROVE  Whole(s, o, g, f, n) = Whole(s, o, d, h, n)
<1> DEFINE c == Len(s[n])
<1>1. c \in Nat /\ c \in Int /\ c <= Len(s[n]) /\ 1 \in Nat \ {0}
  BY DEF Buffers
<1>5. Agree(s, n, f, h, c)
  BY DEF Agree
<1>2. Part(s, f, n, 1, c) = Part(s, h, n, 1, c)
  <2> HIDE DEF c
  <2> QED BY <1>1, <1>5, PartEq
<1>3. CASE o < 0 \/ o >= c
  BY <1>2, <1>3 DEF Whole
<1>4. CASE o >= 0 /\ o < c
  <2>4. o <= Len(s[n]) /\ o + 1 \in Nat \ {0}
    BY <1>1, <1>4
  <2>5. Agree(s, n, f, h, o)
    BY <1>1, <1>4 DEF Agree
  <2> HIDE DEF c
  <2>1. Part(s, f, n, 1, o) = Part(s, h, n, 1, o)
    BY <1>1, <2>4, <2>5, PartEq
  <2>2. Part(s, f, n, o + 1, c) = Part(s, h, n, o + 1, c)
    <3> DEFINE a == o + 1
    <3>1. a \in Nat \ {0}
      BY <2>4
    <3> HIDE DEF a
    <3>2. Part(s, f, n, a, c) = Part(s, h, n, a, c)
      <4>1. c \in Int /\ c <= Len(s[n])
        BY <1>1
      <4> QED BY <4>1, <3>1, <1>5, PartEq
    <3> QED BY <3>2 DEF a
  <2>3. ~(o < 0 \/ o >= c)
    BY <1>1, <1>4
  <2> QED BY <2>1, <2>2, <2>3 DEF Whole, c
<1> QED BY <1>1, <1>3, <1>4

(* There is at most one solution. *)
LEMMA SolvesUnique ==
  ASSUME NEW s \in Buffers, Founded(s), NEW o \in Int, NEW g, NEW S \in SUBSET Node,
         Shut(s, S), NEW f, NEW h, Solves(s, o, g, S, f), Solves(s, o, g, S, h)
  PROVE  \A n \in S : f[n] = h[n]
<1> DEFINE D == {n \in S : f[n] # h[n]}
<1>1. SUFFICES ASSUME D # {}  PROVE FALSE
  OBVIOUS
<1>2. PICK n \in D : \A k \in 1..Len(s[n]) : s[n][k] \notin D
  <2>1. D \in SUBSET Node
    OBVIOUS
  <2> HIDE DEF D
  <2> QED BY <1>1, <2>1 DEF Founded
<1>3. n \in Node /\ n \in S /\ f[n] # h[n]
  OBVIOUS
<1>4. \A k \in 1..Len(s[n]) : s[n][k] # Nil => f[s[n][k]] = h[s[n][k]]
  BY <1>2, <1>3 DEF Shut
<1>5. Whole(s, o, g, f, n) = Whole(s, o, g, h, n)
  <2> HIDE DEF D
  <2> QED BY <1>3, <1>4, WholeEq
<1> QED BY <1>3, <1>5 DEF Solves

(* The sequences of the slots are sequences. *)
LEMMA SeqsType ==
  ASSUME NEW s \in Buffers, NEW n \in Node, NEW f,
         \A k \in 1..Len(s[n]) : s[n][k] # Nil => f[s[n][k]] \in Seq(Node),
         NEW a \in Nat \ {0}, NEW b \in Int, b <= Len(s[n]), a <= b + 1
  PROVE  /\ Seqs(s, f, n, a, b) \in Seq(Seq(Node))
         /\ Len(Seqs(s, f, n, a, b)) = b - a + 1
<1> DEFINE l == b - a + 1
<1>1. s[n] \in Seq(NodeOrNil) /\ Len(s[n]) \in Nat /\ l \in Nat
  BY DEF Buffers
<1>2. \A k \in 1..l : a + k - 1 \in 1..Len(s[n])
  BY <1>1
<1>3. \A k \in 1..l : (IF s[n][a + k - 1] = Nil THEN <<>> ELSE f[s[n][a + k - 1]]) \in Seq(Node)
  <2> TAKE k \in 1..l
  <2>1. a + k - 1 \in 1..Len(s[n])
    BY <1>2
  <2>2. CASE s[n][a + k - 1] = Nil
    BY <2>2
  <2>3. CASE s[n][a + k - 1] # Nil
    BY <2>1, <2>3
  <2> QED BY <2>2, <2>3
<1>4. Seqs(s, f, n, a, b) \in [1..l -> Seq(Node)]
  <2> HIDE DEF l
  <2> QED BY <1>3 DEF Seqs, l
<1> HIDE DEF l
<1>5. Seqs(s, f, n, a, b) \in Seq(Seq(Node)) /\ Len(Seqs(s, f, n, a, b)) = l
  BY <1>1, <1>4
<1> QED BY <1>5 DEF l

(* So is what they are put together to, *)
LEMMA PartType ==
  ASSUME NEW s \in Buffers, NEW n \in Node, NEW f,
         \A k \in 1..Len(s[n]) : s[n][k] # Nil => f[s[n][k]] \in Seq(Node),
         NEW a \in Nat \ {0}, NEW b \in Int, b <= Len(s[n]), a <= b + 1
  PROVE  Part(s, f, n, a, b) \in Seq(Node)
BY SeqsType, FlattenType DEF Part

(* and the traversal of a node with them. *)
LEMMA WholeType ==
  ASSUME NEW s \in Buffers, NEW o \in Int, NEW n \in Node, NEW f, NEW g,
         \A k \in 1..Len(s[n]) : s[n][k] # Nil => f[s[n][k]] \in Seq(Node)
  PROVE  Whole(s, o, g, f, n) \in Seq(Node)
<1> DEFINE c == Len(s[n])
<1>1. /\ c \in Nat /\ c \in Int /\ c <= Len(s[n]) /\ 1 <= c + 1 /\ 1 \in Nat \ {0}
      /\ <<n>> \in Seq(Node) /\ <<>> \in Seq(Node)
  BY DEF Buffers
<1>2. Part(s, f, n, 1, c) \in Seq(Node)
  <2> HIDE DEF c
  <2> QED BY <1>1, PartType
<1>3. CASE o < 0 \/ o >= c
  <2> DEFINE p == Part(s, f, n, 1, c)
  <2>1. Whole(s, o, g, f, n) = p \o <<n>>
    BY <1>3 DEF Whole
  <2> HIDE DEF p
  <2> QED BY <2>1, <1>1, <1>2, ConcatProperties DEF p
<1>4. CASE o >= 0 /\ o < c
  <2> DEFINE p == Part(s, f, n, 1, o)
             q == IF n \in g THEN <<>> ELSE Part(s, f, n, o + 1, c)
  <2>6. o <= Len(s[n]) /\ o + 1 \in Nat \ {0} /\ 1 <= o + 1 /\ o + 1 <= c + 1
    BY <1>1, <1>4
  <2>1. p \in Seq(Node)
    BY <1>1, <2>6, PartType
  <2>2. Part(s, f, n, o + 1, c) \in Seq(Node)
    <3> HIDE DEF c
    <3> QED BY <1>1, <2>6, PartType
  <2>3. q \in Seq(Node)
    BY <1>1, <2>2
  <2>4. Whole(s, o, g, f, n) = p \o <<n>> \o q
    <3>1. ~(o < 0 \/ o >= c)
      BY <1>1, <1>4
    <3> QED BY <3>1 DEF Whole
  <2> HIDE DEF p, q
  <2>5. p \o <<n>> \in Seq(Node)
    BY <1>1, <2>1, ConcatProperties
  <2> QED BY <2>3, <2>4, <2>5, ConcatProperties
<1> QED BY <1>1, <1>3, <1>4

(* Nothing is visited below no slot. *)
LEMMA PartEmpty ==
  ASSUME NEW s, NEW f, NEW n, NEW a \in Nat
  PROVE  Part(s, f, n, a, a - 1) = <<>>
<1>1. (a - 1) - a + 1 = 0
  OBVIOUS
<1>2. Seqs(s, f, n, a, a - 1) = <<>>
  BY <1>1 DEF Seqs
<1> QED BY <1>2, FlattenEmpty DEF Part

(* One slot more is one piece more. *)
LEMMA PartNext ==
  ASSUME NEW s \in Buffers, NEW n \in Node, NEW f,
         \A k \in 1..Len(s[n]) : s[n][k] # Nil => f[s[n][k]] \in Seq(Node),
         NEW a \in Nat \ {0}, NEW b \in Int, b + 1 <= Len(s[n]), a <= b + 1
  PROVE  Part(s, f, n, a, b + 1)
           = Part(s, f, n, a, b) \o (IF s[n][b + 1] = Nil THEN <<>> ELSE f[s[n][b + 1]])
<1> DEFINE q == Seqs(s, f, n, a, b)
           r == Seqs(s, f, n, a, b + 1)
           l == b - a + 1
<1>1. Len(s[n]) \in Nat /\ b + 1 \in Int /\ b <= Len(s[n]) /\ a <= (b + 1) + 1
  BY DEF Buffers
<1>2. q \in Seq(Seq(Node)) /\ Len(q) = l
  BY <1>1, SeqsType
<1>3. r \in Seq(Seq(Node)) /\ Len(r) = (b + 1) - a + 1
  BY <1>1, SeqsType
<1>4. l \in Nat /\ (b + 1) - a + 1 = l + 1
  BY <1>1
<1>5. \A k \in 1..l : q[k] = r[k]
  <2>1. \A k \in 1..l : k \in 1..((b + 1) - a + 1)
    BY <1>4
  <2> QED BY <2>1 DEF Seqs
<1>6. r[l + 1] = IF s[n][b + 1] = Nil THEN <<>> ELSE f[s[n][b + 1]]
  <2>1. l + 1 \in 1..((b + 1) - a + 1) /\ a + (l + 1) - 1 = b + 1
    BY <1>4
  <2>2. r[l + 1] = IF s[n][a + (l + 1) - 1] = Nil THEN <<>> ELSE f[s[n][a + (l + 1) - 1]]
    <3> HIDE DEF l
    <3> QED BY <2>1 DEF Seqs
  <2> QED BY <2>1, <2>2
<1> HIDE DEF q, r, l
<1>7. FlattenSeq(r) = FlattenSeq(q) \o r[l + 1]
  BY <1>2, <1>3, <1>4, <1>5, FlattenNext
<1> QED BY <1>6, <1>7 DEF Part, q, r

(* On a structure without a circle the recursion can be solved: if the     *)
(* nodes for which it can left one out, there were one whose sub-nodes are *)
(* all among them, and it could be added.                                  *)
LEMMA SolvesExists ==
  ASSUME NEW s \in Buffers, Founded(s), NEW o \in Int, NEW g
  PROVE  \E f \in [Node -> Seq(Node)] : Solves(s, o, g, Node, f)
<1> DEFINE Sound(S, f) == Shut(s, S) /\ f \in [S -> Seq(Node)] /\ Solves(s, o, g, S, f)
           Has(n) == \E S \in SUBSET Node : n \in S /\ \E f : Sound(S, f)
           C == {n \in Node : Has(n)}
           Of(n) == CHOOSE v : \E S \in SUBSET Node : n \in S /\ \E f : Sound(S, f) /\ v = f[n]
           h == [n \in Node |-> IF n \in C THEN Of(n) ELSE Whole(s, o, g, [m \in C |-> Of(m)], n)]
(* The solutions agree, so that there is a common one. *)
<1>1. ASSUME NEW S \in SUBSET Node, NEW f, Sound(S, f), NEW n \in S
      PROVE  n \in C /\ h[n] = f[n]
  <2>1. n \in Node /\ n \in C
    BY <1>1
  <2>2. \E v : \E R \in SUBSET Node : n \in R /\ \E e : Sound(R, e) /\ v = e[n]
    BY <1>1
  <2>3. PICK R, e : R \in SUBSET Node /\ n \in R /\ Sound(R, e) /\ Of(n) = e[n]
    <3> HIDE DEF Sound
    <3> QED BY <2>2
  <2>4. Shut(s, R \cap S)
    BY <1>1, <2>3 DEF Shut
  <2>5. Solves(s, o, g, R \cap S, e) /\ Solves(s, o, g, R \cap S, f)
    BY <1>1, <2>3 DEF Solves
  <2> DEFINE Q == R \cap S
  <2>6. Q \in SUBSET Node /\ n \in Q
    BY <2>3
  <2>7. e[n] = f[n]
    <3> HIDE DEF Q
    <3>1. Shut(s, Q) /\ Solves(s, o, g, Q, e) /\ Solves(s, o, g, Q, f)
      BY <2>4, <2>5 DEF Q
    <3> QED BY <2>6, <3>1, SolvesUnique
  <2>8. h[n] = Of(n)
    <3> HIDE DEF C, Of
    <3> QED BY <2>1
  <2> QED BY <2>1, <2>3, <2>7, <2>8
<1>2. Shut(s, C)
  <2> SUFFICES ASSUME NEW n \in C, NEW k \in 1..Len(s[n]), s[n][k] # Nil
               PROVE  s[n][k] \in C
    <3> HIDE DEF C
    <3> QED BY DEF Shut
  <2>1. PICK S, f : S \in SUBSET Node /\ n \in S /\ Sound(S, f)
    <3> HIDE DEF Sound
    <3> QED OBVIOUS
  <2>2. s[n][k] \in S
    BY <2>1 DEF Shut
  <2> HIDE DEF Sound, C
  <2> QED BY <2>1, <2>2, <1>1
<1>3. \A n \in C : h[n] \in Seq(Node) /\ h[n] = Whole(s, o, g, h, n)
  <2> TAKE n \in C
  <2>1. PICK S, f : S \in SUBSET Node /\ n \in S /\ Sound(S, f)
    <3> HIDE DEF Sound
    <3> QED OBVIOUS
  <2>2. \A m \in S : h[m] = f[m]
    <3> HIDE DEF Sound, C, h
    <3> QED BY <1>1, <2>1
  <2>3. f[n] \in Seq(Node) /\ f[n] = Whole(s, o, g, f, n) /\ n \in Node
    BY <2>1 DEF Solves
  <2>4. \A k \in 1..Len(s[n]) : s[n][k] # Nil => f[s[n][k]] = h[s[n][k]]
    <3> HIDE DEF h
    <3> QED BY <2>1, <2>2 DEF Shut
  <2>5. Whole(s, o, g, f, n) = Whole(s, o, g, h, n)
    <3> HIDE DEF h
    <3> QED BY <2>3, <2>4, WholeEq
  <2> HIDE DEF h
  <2> QED BY <2>1, <2>2, <2>3, <2>5
(* It covers every node: one it leaves out, with sub-nodes it has, could be added. *)
<1>4. C = Node
  <2> DEFINE D == Node \ C
  <2>1. SUFFICES ASSUME D # {}  PROVE FALSE
    OBVIOUS
  <2>2. PICK n \in D : \A k \in 1..Len(s[n]) : s[n][k] \notin D
    <3>1. D \in SUBSET Node
      OBVIOUS
    <3> HIDE DEF D
    <3> QED BY <2>1, <3>1 DEF Founded
  <2>3. n \in Node /\ n \notin C /\ s[n] \in Seq(NodeOrNil)
    BY DEF Buffers
  <2>4. \A k \in 1..Len(s[n]) : s[n][k] # Nil => s[n][k] \in C
    <3> TAKE k \in 1..Len(s[n])
    <3>1. s[n][k] \in NodeOrNil
      BY <2>3
    <3> HIDE DEF C
    <3> QED BY <2>2, <3>1 DEF NodeOrNil
  <2> DEFINE S == C \cup {n}
             e == [m \in S |-> IF m = n THEN Whole(s, o, g, h, n) ELSE h[m]]
  <2>5. Shut(s, S)
    <3> HIDE DEF C
    <3> QED BY <1>2, <2>4 DEF Shut
  <2>6. Whole(s, o, g, h, n) \in Seq(Node)
    <3>1. \A k \in 1..Len(s[n]) : s[n][k] # Nil => h[s[n][k]] \in Seq(Node)
      <4> HIDE DEF C, h
      <4> QED BY <1>3, <2>4
    <3> HIDE DEF C, h
    <3> QED BY <2>3, <3>1, WholeType
  <2>7. e \in [S -> Seq(Node)]
    <3> HIDE DEF C, h
    <3> QED BY <1>3, <2>6
  <2>8. \A m \in C : e[m] = h[m]
    <3> HIDE DEF C, h
    <3> QED BY <2>3
  <2>9. ASSUME NEW m \in S  PROVE e[m] = Whole(s, o, g, e, m)
    <3>1. e[m] = Whole(s, o, g, h, m)
      <4> HIDE DEF C, h
      <4>1. CASE m = n
        BY <4>1
      <4>2. CASE m # n
        BY <4>2, <1>3
      <4> QED BY <4>1, <4>2
    <3>2. \A k \in 1..Len(s[m]) : s[m][k] # Nil => s[m][k] \in C
      <4> HIDE DEF C, h
      <4> QED BY <1>2, <2>4 DEF Shut
    <3>3. \A k \in 1..Len(s[m]) : s[m][k] # Nil => h[s[m][k]] = e[s[m][k]]
      <4> HIDE DEF C, h, e
      <4> QED BY <3>2, <2>8
    <3>4. m \in Node
      BY <2>3
    <3> HIDE DEF C, h, e, S
    <3>5. Whole(s, o, g, h, m) = Whole(s, o, g, e, m)
      BY <3>3, <3>4, WholeEq
    <3> QED BY <3>1, <3>5
  <2>10. Sound(S, e)
    <3> HIDE DEF e, S
    <3> QED BY <2>5, <2>7, <2>9 DEF Solves
  <2>11. S \in SUBSET Node /\ n \in S
    BY <2>3
  <2> HIDE DEF S, e, Sound
  <2>12. n \in C
    BY <2>3, <2>10, <2>11
  <2> QED BY <2>3, <2>12
<1>5. h \in [Node -> Seq(Node)]
  <2>1. DOMAIN h = Node /\ h = [n \in Node |-> h[n]]
    <3> HIDE DEF C, Of
    <3> QED OBVIOUS
  <2> HIDE DEF h, C
  <2> QED BY <1>3, <1>4, <2>1
<1>6. Solves(s, o, g, Node, h)
  <2> HIDE DEF h, C
  <2> QED BY <1>3, <1>4 DEF Solves
<1> HIDE DEF h
<1> QED BY <1>5, <1>6

(* The recursive function of the definition. *)
Visits(s, o, g) == CHOOSE f : f = [n \in Node |-> Whole(s, o, g, f, n)]

(* It is a function of the nodes, and solves the recursion. *)
LEMMA VisitsIs ==
  ASSUME NEW s \in Buffers, Founded(s), NEW o \in Int, NEW g
  PROVE  Visits(s, o, g) \in [Node -> Seq(Node)] /\ Solves(s, o, g, Node, Visits(s, o, g))
<1> DEFINE IsIt(f) == f = [n \in Node |-> Whole(s, o, g, f, n)]
           v == CHOOSE f : IsIt(f)
<1>1. PICK h \in [Node -> Seq(Node)] : Solves(s, o, g, Node, h)
  BY SolvesExists
<1>2. IsIt(h)
  BY <1>1 DEF Solves
<1>3. IsIt(v)
  <2> HIDE DEF IsIt
  <2> QED BY <1>2
<1>4. v = Visits(s, o, g)
  BY DEF Visits
<1> HIDE DEF v
<1>5. Solves(s, o, g, Node, v) /\ DOMAIN v = Node /\ v = [n \in Node |-> v[n]]
  BY <1>3 DEF Solves
<1>6. Shut(s, Node)
  BY DEF Shut, Buffers, NodeOrNil
<1>7. \A n \in Node : v[n] = h[n]
  <2> DEFINE S == Node
  <2>1. S \in SUBSET Node /\ Shut(s, S) /\ Solves(s, o, g, S, v) /\ Solves(s, o, g, S, h)
    BY <1>1, <1>5, <1>6
  <2> HIDE DEF S
  <2>2. \A n \in S : v[n] = h[n]
    BY <2>1, SolvesUnique
  <2> QED BY <2>2 DEF S
<1>8. v \in [Node -> Seq(Node)]
  BY <1>1, <1>5, <1>7
<1> QED BY <1>4, <1>5, <1>8

(* The reference is its value at the node. *)
LEMMA BelowIs ==
  ASSUME NEW n, NEW g
  PROVE  Below(n, g) = Visits(sub, order, g)[n]
BY DEF Below, BelowNode, BelowSlots, SubNodeCount, Visits, Whole, Part, Seqs

(* Who is ignored matters only for the nodes below. *)
LEMMA VisitsKept ==
  ASSUME NEW s \in Buffers, Founded(s), NEW o \in Int, NEW g, NEW d, NEW c \in Node,
         \A n \in Beneath(s, c) : n \in g <=> n \in d
  PROVE  Visits(s, o, g)[c] = Visits(s, o, d)[c]
<1> DEFINE B == Beneath(s, c)
           f == Visits(s, o, g)
           h == Visits(s, o, d)
<1>1. c \in B /\ B \in SUBSET Node /\ Shut(s, B)
  BY BeneathShut
<1>2. Solves(s, o, g, Node, f) /\ Solves(s, o, d, Node, h)
  BY VisitsIs
<1> HIDE DEF f, h
<1>3. ASSUME NEW n \in B  PROVE h[n] = Whole(s, o, g, h, n)
  <2>1. h[n] = Whole(s, o, d, h, n)
    BY <1>1, <1>2 DEF Solves
  <2>2. n \in g <=> n \in d
    OBVIOUS
  <2> HIDE DEF B
  <2>3. n \in Node
    BY <1>1
  <2>4. Whole(s, o, g, h, n) = Whole(s, o, d, h, n)
    BY <2>2, <2>3, WholeEq
  <2> QED BY <2>1, <2>4
<1> HIDE DEF B
<1>4. Solves(s, o, g, B, f) /\ Solves(s, o, g, B, h)
  BY <1>1, <1>2, <1>3 DEF Solves
<1>5. \A n \in B : f[n] = h[n]
  BY <1>1, <1>4, SolvesUnique
<1> QED BY <1>1, <1>5 DEF f, h

-----------------------------------------------------------------------------
(***************************************************************************)
(* What a traversal has done at a moment, node by node: Done is the piece  *)
(* of a node whose first slots are finished.                               *)
(***************************************************************************)
(* f is the traversal of the tree s in the order o, g being ignored. *)
Told(s, o, g, f) ==
  /\ s \in Buffers
  /\ o \in Int
  /\ f \in [Node -> Seq(Node)]
  /\ Solves(s, o, g, Node, f)

Under(f, c) == IF c = Nil THEN <<>> ELSE f[c]

(* What is visited of n and below once its first j slots are finished and  *)
(* the slots 0..m have passed the order test.                              *)
Done(s, o, g, f, n, j, m) ==
  IF o \in 0..m
  THEN Part(s, f, n, 1, o) \o <<n>>
       \o (IF n \in g THEN <<>> ELSE Part(s, f, n, o + 1, j))
  ELSE Part(s, f, n, 1, j)

(* The types of what hangs below n. *)
LEMMA ToldSlots ==
  ASSUME NEW s, NEW o, NEW g, NEW f, Told(s, o, g, f), NEW n \in Node
  PROVE  /\ s[n] \in Seq(NodeOrNil) /\ Len(s[n]) \in Nat
         /\ \A k \in 1..Len(s[n]) : s[n][k] # Nil => s[n][k] \in Node /\ f[s[n][k]] \in Seq(Node)
         /\ \A k \in 1..Len(s[n]) : Under(f, s[n][k]) \in Seq(Node)
         /\ <<n>> \in Seq(Node) /\ <<>> \in Seq(Node)
<1>1. s[n] \in Seq(NodeOrNil) /\ Len(s[n]) \in Nat
  BY DEF Told, Buffers
<1>2. ASSUME NEW k \in 1..Len(s[n]), s[n][k] # Nil
      PROVE  s[n][k] \in Node /\ f[s[n][k]] \in Seq(Node)
  <2>1. s[n][k] \in Node
    BY <1>1, <1>2 DEF NodeOrNil
  <2> QED BY <2>1 DEF Told
<1>3. \A k \in 1..Len(s[n]) : Under(f, s[n][k]) \in Seq(Node)
  BY <1>2 DEF Under
<1> QED BY <1>1, <1>2, <1>3

(* PartType and PartNext for such an f. *)
LEMMA ToldPart ==
  ASSUME NEW s, NEW o, NEW g, NEW f, Told(s, o, g, f), NEW n \in Node,
         NEW a \in Nat \ {0}, NEW b \in Int, b <= Len(s[n]), a <= b + 1
  PROVE  Part(s, f, n, a, b) \in Seq(Node)
<1>1. \A k \in 1..Len(s[n]) : s[n][k] # Nil => f[s[n][k]] \in Seq(Node)
  BY ToldSlots
<1>2. s \in Buffers
  BY DEF Told
<1> QED BY <1>1, <1>2, PartType

LEMMA ToldNext ==
  ASSUME NEW s, NEW o, NEW g, NEW f, Told(s, o, g, f), NEW n \in Node,
         NEW a \in Nat \ {0}, NEW b \in Int, b + 1 <= Len(s[n]), a <= b + 1
  PROVE  Part(s, f, n, a, b + 1) = Part(s, f, n, a, b) \o Under(f, s[n][b + 1])
<1>1. \A k \in 1..Len(s[n]) : s[n][k] # Nil => f[s[n][k]] \in Seq(Node)
  BY ToldSlots
<1>2. s \in Buffers
  BY DEF Told
<1> QED BY <1>1, <1>2, PartNext DEF Under

(* The parts a piece is put together from. *)
LEMMA DoneParts ==
  ASSUME NEW s, NEW o, NEW g, NEW f, Told(s, o, g, f), NEW n \in Node,
         NEW j \in 0..Len(s[n]), NEW m \in Int, m <= j
  PROVE  /\ o \in 0..m => /\ Part(s, f, n, 1, o) \in Seq(Node)
                          /\ Part(s, f, n, 1, o) \o <<n>> \in Seq(Node)
                          /\ Part(s, f, n, o + 1, j) \in Seq(Node)
         /\ Part(s, f, n, 1, j) \in Seq(Node)
         /\ Done(s, o, g, f, n, j, m) \in Seq(Node)
<1>1. /\ o \in Int /\ j \in Nat /\ j <= Len(s[n]) /\ Len(s[n]) \in Nat
      /\ <<n>> \in Seq(Node) /\ <<>> \in Seq(Node)
  BY ToldSlots DEF Told
<1>2. Part(s, f, n, 1, j) \in Seq(Node)
  BY <1>1, ToldPart
<1>3. CASE o \in 0..m
  <2>1. Part(s, f, n, 1, o) \in Seq(Node)
    BY <1>1, <1>3, ToldPart
  <2> DEFINE a == o + 1
  <2>2. a \in Nat \ {0} /\ a <= j + 1
    BY <1>1, <1>3
  <2>3. Part(s, f, n, a, j) \in Seq(Node)
    <3> HIDE DEF a
    <3> QED BY <1>1, <2>2, ToldPart
  <2> DEFINE p == Part(s, f, n, 1, o)
             q == IF n \in g THEN <<>> ELSE Part(s, f, n, a, j)
  <2>4. q \in Seq(Node)
    BY <1>1, <2>3
  <2>5. Done(s, o, g, f, n, j, m) = p \o <<n>> \o q
    BY <1>3 DEF Done
  <2>6. p \o <<n>> \in Seq(Node)
    <3> HIDE DEF p
    <3>1. p \in Seq(Node)
      BY <2>1 DEF p
    <3> QED BY <3>1, <1>1, ConcatProperties
  <2>7. p \o <<n>> \o q \in Seq(Node)
    <3> HIDE DEF p, q
    <3> QED BY <2>4, <2>6, ConcatProperties
  <2> QED BY <1>2, <2>1, <2>3, <2>5, <2>6, <2>7
<1>4. CASE o \notin 0..m
  BY <1>2, <1>4 DEF Done
<1> QED BY <1>3, <1>4

(* Passing the order test where it fails. *)
LEMMA DonePass ==
  ASSUME NEW s, NEW o \in Int, NEW g, NEW f, NEW n, NEW j \in Nat, o # j
  PROVE  Done(s, o, g, f, n, j, j) = Done(s, o, g, f, n, j, j - 1)
<1>1. o \in 0..j <=> o \in 0..(j - 1)
  OBVIOUS
<1> QED BY <1>1 DEF Done

(* Before its first slot nothing of a node is visited. *)
LEMMA DoneNothing ==
  ASSUME NEW s, NEW o \in Int, NEW g, NEW f, NEW n
  PROVE  Done(s, o, g, f, n, 0, -1) = <<>>
<1>1. o \notin 0..(-1) /\ 1 - 1 = 0
  OBVIOUS
<1>2. Part(s, f, n, 1, 0) = <<>>
  BY PartEmpty, <1>1
<1> QED BY <1>1, <1>2 DEF Done

(* Where it succeeds the node is visited. *)
LEMMA DoneVisit ==
  ASSUME NEW s, NEW o, NEW g, NEW f, Told(s, o, g, f), NEW n \in Node,
         o \in 0..Len(s[n])
  PROVE  Done(s, o, g, f, n, o, o) = Done(s, o, g, f, n, o, o - 1) \o <<n>>
<1>1. o \in Nat /\ o \in 0..o /\ o \notin 0..(o - 1) /\ o <= Len(s[n]) /\ (o + 1) - 1 = o
  BY DEF Told
<1>2. Part(s, f, n, o + 1, o) = <<>>
  <2> DEFINE a == o + 1
  <2>1. a \in Nat /\ a - 1 = o
    BY <1>1
  <2> HIDE DEF a
  <2>2. Part(s, f, n, a, a - 1) = <<>>
    BY <2>1, PartEmpty
  <2> QED BY <2>1, <2>2 DEF a
<1>3. Done(s, o, g, f, n, o, o) = Part(s, f, n, 1, o) \o <<n>> \o <<>>
  BY <1>1, <1>2 DEF Done
<1>4. Part(s, f, n, 1, o) \o <<n>> \in Seq(Node)
  BY <1>1, DoneParts
<1>5. Done(s, o, g, f, n, o, o) = Part(s, f, n, 1, o) \o <<n>>
  BY <1>3, <1>4, ConcatEmptySeq
<1> QED BY <1>1, <1>5 DEF Done

(* One slot more. *)
LEMMA DoneSlot ==
  ASSUME NEW s, NEW o, NEW g, NEW f, Told(s, o, g, f), NEW n \in Node, n \notin g,
         NEW j \in Nat, j < Len(s[n])
  PROVE  Done(s, o, g, f, n, j + 1, j) = Done(s, o, g, f, n, j, j) \o Under(f, s[n][j + 1])
<1> DEFINE u == Under(f, s[n][j + 1])
<1>1. /\ o \in Int /\ j \in Int /\ j + 1 <= Len(s[n]) /\ Len(s[n]) \in Nat /\ u \in Seq(Node)
      /\ j \in 0..Len(s[n]) /\ 1 \in Nat \ {0}
  BY ToldSlots DEF Told
<1>2. Part(s, f, n, 1, j + 1) = Part(s, f, n, 1, j) \o u
  <2>1. 1 <= j + 1 /\ j + 1 <= Len(s[n]) /\ j \in Int /\ 1 \in Nat \ {0}
    BY <1>1
  <2>2. Part(s, f, n, 1, j + 1) = Part(s, f, n, 1, j) \o Under(f, s[n][j + 1])
    BY <2>1, ToldNext
  <2> QED BY <2>2
<1>3. CASE o \in 0..j
  <2> DEFINE a == o + 1
             p == Part(s, f, n, 1, o) \o <<n>>
             q == Part(s, f, n, a, j)
  <2>1. a \in Nat \ {0} /\ a <= j + 1
    BY <1>1, <1>3
  <2>2. Part(s, f, n, a, j + 1) = q \o u
    <3> HIDE DEF a, u
    <3> QED BY <1>1, <2>1, ToldNext DEF u
  <2>3. p \in Seq(Node) /\ q \in Seq(Node)
    <3>1. /\ o \in 0..j => /\ Part(s, f, n, 1, o) \o <<n>> \in Seq(Node)
                           /\ Part(s, f, n, o + 1, j) \in Seq(Node)
      <4> HIDE DEF a, p, q, u
      <4>1. j \in 0..Len(s[n]) /\ j \in Int /\ j <= j
        BY <1>1
      <4> QED BY <4>1, DoneParts
    <3> QED BY <1>3, <3>1
  <2>4. Done(s, o, g, f, n, j + 1, j) = p \o (q \o u)
    BY <1>3, <2>2 DEF Done
  <2>5. Done(s, o, g, f, n, j, j) = p \o q
    BY <1>3 DEF Done
  <2>6. u \in Seq(Node)
    BY <1>1
  <2> HIDE DEF p, q, u
  <2>7. p \o (q \o u) = (p \o q) \o u
    BY <2>3, <2>6, ConcatAssociative
  <2>8. Done(s, o, g, f, n, j + 1, j) = Done(s, o, g, f, n, j, j) \o u
    BY <2>4, <2>5, <2>7
  <2> QED BY <2>8 DEF u
<1>4. CASE o \notin 0..j
  BY <1>2, <1>4 DEF Done
<1> QED BY <1>3, <1>4

(* All slots are finished: the visit on leaving is missing, or nothing is. *)
IsAllBut(s, o, g, f, n) ==
  f[n] = Done(s, o, g, f, n, Len(s[n]), Len(s[n]) - 1) \o <<n>>

LEMMA DonePost ==
  ASSUME NEW s, NEW o, NEW g, NEW f, Told(s, o, g, f), NEW n \in Node,
         o \notin 0..(Len(s[n]) - 1)
  PROVE  IsAllBut(s, o, g, f, n)
<1>1. o < 0 \/ o >= Len(s[n])
  BY ToldSlots DEF Told
<1>2. f[n] = Part(s, f, n, 1, Len(s[n])) \o <<n>>
  BY <1>1 DEF Told, Solves, Whole
<1> QED BY <1>2 DEF Done, IsAllBut

IsAll(s, o, g, f, n, m) == f[n] = Done(s, o, g, f, n, Len(s[n]), m)

LEMMA DoneIn ==
  ASSUME NEW s, NEW o, NEW g, NEW f, Told(s, o, g, f), NEW n \in Node,
         NEW m \in Int, o \in 0..m, m < Len(s[n])
  PROVE  IsAll(s, o, g, f, n, m)
<1>0. ~(o < 0 \/ o >= Len(s[n]))
  BY ToldSlots
<1>1. f[n] = Part(s, f, n, 1, o) \o <<n>>
             \o (IF n \in g THEN <<>> ELSE Part(s, f, n, o + 1, Len(s[n])))
  BY <1>0 DEF Told, Solves, Whole
<1> QED BY <1>1 DEF Done, IsAll

(* A sequence goes on from p to w. *)
Onto(p, w) == \E r \in Seq(Node) : w = p \o r

(* Every sequence goes on from itself, *)
LEMMA OntoSame ==
  ASSUME NEW p \in Seq(Node)
  PROVE  Onto(p, p)
<1>1. <<>> \in Seq(Node) /\ p = p \o <<>>
  BY ConcatEmptySeq
<1> QED BY <1>1 DEF Onto

(* also when something is added to it, *)
LEMMA OntoMore ==
  ASSUME NEW p \in Seq(Node), NEW w \in Seq(Node), NEW v \in Seq(Node), Onto(p, w)
  PROVE  Onto(p, w \o v)
<1>1. PICK r \in Seq(Node) : w = p \o r
  BY DEF Onto
<1>2. r \o v \in Seq(Node) /\ w \o v = p \o (r \o v)
  BY <1>1, ConcatProperties, ConcatAssociative
<1> QED BY <1>2 DEF Onto

(* behind a common beginning, *)
LEMMA OntoAfter ==
  ASSUME NEW p \in Seq(Node), NEW w \in Seq(Node), NEW v \in Seq(Node), Onto(p, w)
  PROVE  Onto(v \o p, v \o w)
<1>1. PICK r \in Seq(Node) : w = p \o r
  BY DEF Onto
<1>2. v \o w = (v \o p) \o r
  BY <1>1, ConcatAssociative
<1> QED BY <1>1, <1>2 DEF Onto

(* in several steps, *)
LEMMA OntoTrans ==
  ASSUME NEW p \in Seq(Node), NEW w \in Seq(Node), NEW v \in Seq(Node), Onto(p, w), Onto(w, v)
  PROVE  Onto(p, v)
<1>1. PICK r \in Seq(Node) : v = w \o r
  BY DEF Onto
<1> QED BY <1>1, OntoMore

(* and then begins with it. *)
LEMMA OntoPrefix ==
  ASSUME NEW p \in Seq(Node), NEW w, Onto(p, w)
  PROVE  IsPrefix(p, w)
<1>1. PICK r \in Seq(Node) : w = p \o r
  BY DEF Onto
<1>2. w \in Seq(Node) /\ Len(w) = Len(p) + Len(r) /\ Len(p) \in Nat /\ Len(r) \in Nat
  BY <1>1, ConcatProperties
<1>3. \A k \in 1..Len(p) : w[k] = p[k]
  <2> TAKE k \in 1..Len(p)
  <2>1. k \in 1..(Len(p) + Len(r)) /\ k <= Len(p)
    BY <1>2
  <2>2. (p \o r)[k] = IF k <= Len(p) THEN p[k] ELSE r[k - Len(p)]
    BY <2>1, ConcatProperties
  <2> QED BY <1>1, <2>1, <2>2
<1> DEFINE l == Len(p)
<1>4. l \in Nat /\ l <= Len(w) /\ l <= Len(p)
  BY <1>2
<1>5. SubSeq(w, 1, l) = SubSeq(p, 1, l)
  <2> HIDE DEF l
  <2>1. \A k \in 1..l : 1 + k - 1 = k
    BY <1>4
  <2>2. \A k \in 1..l : w[k] = p[k]
    BY <1>3 DEF l
  <2>3. SubSeq(w, 1, l) = [k \in 1..l |-> w[k]] /\ SubSeq(p, 1, l) = [k \in 1..l |-> p[k]]
    BY <1>2, <1>4
  <2> QED BY <2>2, <2>3
<1> QED BY <1>4, <1>5 DEF IsPrefix

(* The pieces of the first slots come first in those of all of them. *)
LEMMA PartRest ==
  ASSUME NEW s, NEW o, NEW g, NEW f, Told(s, o, g, f), NEW n \in Node,
         NEW a \in Nat \ {0}, NEW j \in Int, a <= j + 1
  PROVE  \A b \in Nat : j <= b /\ b <= Len(s[n]) => Onto(Part(s, f, n, a, j), Part(s, f, n, a, b))
<1> DEFINE S == {b \in Nat : j <= b /\ b <= Len(s[n])
                               => Onto(Part(s, f, n, a, j), Part(s, f, n, a, b))}
<1>0. Len(s[n]) \in Nat /\ j \in Nat
  BY ToldSlots
<1>1. j <= Len(s[n]) => Part(s, f, n, a, j) \in Seq(Node)
  BY ToldPart
<1>2. ASSUME j <= Len(s[n])  PROVE Onto(Part(s, f, n, a, j), Part(s, f, n, a, j))
  BY <1>1, <1>2, OntoSame
<1>3. 0 \in S
  <2> SUFFICES ASSUME j <= 0, 0 <= Len(s[n])  PROVE Onto(Part(s, f, n, a, j), Part(s, f, n, a, 0))
    OBVIOUS
  <2>1. j = 0
    BY <1>0
  <2> QED BY <2>1, <1>2
<1>4. ASSUME NEW b \in S  PROVE b + 1 \in S
  <2> SUFFICES ASSUME j <= b + 1, b + 1 <= Len(s[n])
               PROVE  Onto(Part(s, f, n, a, j), Part(s, f, n, a, b + 1))
    OBVIOUS
  <2>1. CASE j = b + 1
    BY <2>1, <1>2
  <2>2. CASE j # b + 1
    <3>1. b \in Nat /\ b \in Int /\ j <= b /\ b <= Len(s[n]) /\ a <= b + 1 /\ j <= Len(s[n])
      BY <1>0, <2>2
    <3>2. Onto(Part(s, f, n, a, j), Part(s, f, n, a, b))
      BY <1>4, <3>1
    <3> HIDE DEF S
    <3> DEFINE u == Under(f, s[n][b + 1])
    <3>3. Part(s, f, n, a, b + 1) = Part(s, f, n, a, b) \o u
      BY <3>1, ToldNext
    <3>4. u \in Seq(Node)
      BY <3>1, <1>0, ToldSlots
    <3>5. Part(s, f, n, a, b) \in Seq(Node) /\ Part(s, f, n, a, j) \in Seq(Node)
      BY <3>1, <1>1, ToldPart
    <3> HIDE DEF u
    <3> QED BY <3>2, <3>3, <3>4, <3>5, OntoMore
  <2> QED BY <2>1, <2>2
<1>5. S = Nat
  <2> HIDE DEF S
  <2>1. S \in SUBSET Nat
    BY DEF S
  <2> QED BY <1>3, <1>4, <2>1, AllNumbers
<1> QED BY <1>5

(* What is visited of a node and below comes first in its traversal. *)
LEMMA DoneRest ==
  ASSUME NEW s, NEW o, NEW g, NEW f, Told(s, o, g, f), NEW n \in Node,
         NEW j \in 0..Len(s[n]), NEW m \in Int, m <= j, j - 1 <= m, m < Len(s[n])
  PROVE  Onto(Done(s, o, g, f, n, j, m), f[n])
<1> DEFINE c == Len(s[n])
           x == Part(s, f, n, 1, j)
<1>1. /\ o \in Int /\ j \in Nat /\ j <= c /\ c \in Nat /\ j \in Int
      /\ <<n>> \in Seq(Node) /\ <<>> \in Seq(Node) /\ 1 \in Nat \ {0} /\ 1 <= j + 1
      /\ f[n] \in Seq(Node)
  BY ToldSlots DEF Told
<1>2. x \in Seq(Node)
  BY DoneParts
<1>3. CASE o \in 0..m
  <2> DEFINE a == o + 1
             p == Part(s, f, n, 1, o) \o <<n>>
             q == Part(s, f, n, a, j)
             r == Part(s, f, n, a, c)
  <2>1. a \in Nat \ {0} /\ a <= j + 1 /\ a <= c + 1 /\ ~(o < 0 \/ o >= c)
    BY <1>1, <1>3
  <2>2. p \in Seq(Node) /\ q \in Seq(Node)
    <3>1. o \in 0..m => /\ Part(s, f, n, 1, o) \o <<n>> \in Seq(Node)
                        /\ Part(s, f, n, o + 1, j) \in Seq(Node)
      <4> HIDE DEF a, p, q, r, c, x
      <4> QED BY DoneParts
    <3> QED BY <1>3, <3>1
  <2>3. r \in Seq(Node)
    <3> HIDE DEF a, p, q, x
    <3> QED BY <1>1, <2>1, ToldPart
  <2>4. Onto(q, r)
    <3> HIDE DEF a, p, x
    <3> QED BY <1>1, <2>1, PartRest
  <2>5. f[n] = p \o (IF n \in g THEN <<>> ELSE r)
    BY <2>1 DEF Told, Solves, Whole
  <2>6. Done(s, o, g, f, n, j, m) = p \o (IF n \in g THEN <<>> ELSE q)
    BY <1>3 DEF Done
  <2> HIDE DEF p, q, r, a
  <2>7. CASE n \in g
    <3>1. f[n] = p /\ Done(s, o, g, f, n, j, m) = p
      BY <2>2, <2>5, <2>6, <2>7, ConcatEmptySeq
    <3> QED BY <3>1, <2>2, OntoSame
  <2>8. CASE n \notin g
    BY <2>2, <2>3, <2>4, <2>5, <2>6, <2>8, OntoAfter
  <2> QED BY <2>7, <2>8
<1>4. CASE o \notin 0..m
  <2>1. Done(s, o, g, f, n, j, m) = x
    BY <1>4 DEF Done
  <2>2. CASE o < 0 \/ o >= c
    <3> DEFINE y == Part(s, f, n, 1, c)
    <3>1. f[n] = y \o <<n>>
      BY <2>2 DEF Told, Solves, Whole
    <3>2. 1 <= c + 1 /\ c <= Len(s[n]) /\ c \in Int
      BY <1>1
    <3>3. y \in Seq(Node)
      BY <1>1, <3>2, ToldPart
    <3>4. Onto(x, y)
      <4>1. \A b \in Nat : j <= b /\ b <= Len(s[n]) => Onto(Part(s, f, n, 1, j), Part(s, f, n, 1, b))
        BY <1>1, PartRest
      <4> QED BY <4>1, <1>1
    <3> HIDE DEF x, y
    <3> QED BY <1>1, <1>2, <2>1, <3>1, <3>3, <3>4, OntoMore
  <2>3. CASE ~(o < 0 \/ o >= c)
    <3>1. o \in Nat /\ j <= o /\ o < c
      BY <1>1, <1>4, <2>3
    <3> DEFINE y == Part(s, f, n, 1, o)
               a == o + 1
               z == IF n \in g THEN <<>> ELSE Part(s, f, n, a, c)
    <3>2. f[n] = y \o <<n>> \o z
      BY <2>3 DEF Told, Solves, Whole
    <3>3. y \in Seq(Node)
      BY <1>1, <3>1, ToldPart
    <3>4. Part(s, f, n, a, c) \in Seq(Node)
      <4>1. a \in Nat \ {0} /\ a <= c + 1 /\ c <= Len(s[n]) /\ c \in Int
        BY <1>1, <3>1
      <4> HIDE DEF a, x, y
      <4> QED BY <4>1, ToldPart
    <3>5. z \in Seq(Node)
      BY <1>1, <3>4
    <3>6. Onto(x, y)
      <4>1. \A b \in Nat : j <= b /\ b <= Len(s[n]) => Onto(Part(s, f, n, 1, j), Part(s, f, n, 1, b))
        BY <1>1, PartRest
      <4> QED BY <4>1, <1>1, <3>1
    <3> HIDE DEF x, y, z
    <3>7. y \o <<n>> \in Seq(Node) /\ Onto(x, y \o <<n>>)
      BY <1>1, <1>2, <3>3, <3>6, OntoMore, ConcatProperties
    <3> QED BY <1>2, <2>1, <3>2, <3>5, <3>7, OntoMore
  <2> QED BY <2>2, <2>3
<1> QED BY <1>3, <1>4

(* It is the same for two traversals that agree on the slots so far. *)
LEMMA DoneKept ==
  ASSUME NEW s, NEW o, NEW g, NEW f, Told(s, o, g, f), NEW n \in Node, NEW d, NEW h,
         n \in g <=> n \in d, NEW j \in 0..Len(s[n]), NEW m \in Int, m <= j,
         Agree(s, n, f, h, j)
  PROVE  Done(s, o, g, f, n, j, m) = Done(s, o, d, h, n, j, m)
<1>1. /\ o \in Int /\ j \in Nat /\ j <= Len(s[n]) /\ Len(s[n]) \in Nat /\ s \in Buffers
      /\ 1 \in Nat \ {0} /\ j \in Int
  BY ToldSlots DEF Told
<1>2. Part(s, f, n, 1, j) = Part(s, h, n, 1, j)
  BY <1>1, PartEq
<1>3. CASE o \in 0..m
  <2> DEFINE a == o + 1
  <2>1. a \in Nat \ {0} /\ o <= Len(s[n])
    BY <1>1, <1>3
  <2>2. Part(s, f, n, a, j) = Part(s, h, n, a, j)
    <3> HIDE DEF a
    <3> QED BY <1>1, <2>1, PartEq
  <2>3. Agree(s, n, f, h, o)
    BY <1>1, <1>3 DEF Agree
  <2>4. Part(s, f, n, 1, o) = Part(s, h, n, 1, o)
    BY <1>1, <2>1, <2>3, PartEq
  <2> QED BY <1>3, <2>2, <2>4 DEF Done
<1>4. CASE o \notin 0..m
  BY <1>2, <1>4 DEF Done
<1> QED BY <1>3, <1>4

-----------------------------------------------------------------------------
(***************************************************************************)
(* The pieces of the suspended nodes, put together along the path, are     *)
(* what was visited, and come first in the traversal of the whole tree.    *)
(***************************************************************************)
(* V[k] is what was visited when the k-th node of the path was entered.    *)
Chain(s, o, g, f, q, V) ==
  /\ V \in [1..(Len(q) + 1) -> Seq(Node)]
  /\ V[1] = <<>>
  /\ \A k \in 1..Len(q) :
       V[k + 1] = V[k] \o Done(s, o, g, f, q[k].node, q[k].next - 1, q[k].next - 1)

VisitedIs(s, o, g, f, q, n, j, m, w) ==
  \E V : Chain(s, o, g, f, q, V) /\ w = V[Len(q) + 1] \o Done(s, o, g, f, n, j, m)

(* The suspended nodes wait in a slot, and are not ignored. *)
Waiting(s, g, q) ==
  \A k \in 1..Len(q) : /\ q[k].node \in Node
                       /\ q[k].node \notin g
                       /\ q[k].next \in 1..Len(s[q[k].node])

(* At the root nothing is visited yet. *)
LEMMA ChainFirst ==
  ASSUME NEW s, NEW o \in Int, NEW g, NEW f, NEW n
  PROVE  VisitedIs(s, o, g, f, <<>>, n, 0, -1, <<>>)
<1> DEFINE V == [k \in 1..1 |-> <<>>]
<1>1. Chain(s, o, g, f, <<>>, V)
  BY DEF Chain
<1>2. Done(s, o, g, f, n, 0, -1) = <<>>
  BY DoneNothing
<1>3. V[Len(<<>>) + 1] = <<>> /\ <<>> \in Seq(Node)
  OBVIOUS
<1>4. V[Len(<<>>) + 1] \o Done(s, o, g, f, n, 0, -1) = <<>>
  BY <1>2, <1>3, ConcatEmptySeq
<1> HIDE DEF V
<1> QED BY <1>1, <1>4 DEF VisitedIs

(* More is visited of the node at hand. *)
LEMMA ChainMove ==
  ASSUME NEW s, NEW o, NEW g, NEW f, NEW q \in Seq(StackItem), NEW n, NEW j, NEW m, NEW w,
         VisitedIs(s, o, g, f, q, n, j, m, w), NEW e \in Seq(Node), NEW l, NEW r,
         Done(s, o, g, f, n, j, m) \in Seq(Node),
         Done(s, o, g, f, n, l, r) = Done(s, o, g, f, n, j, m) \o e
  PROVE  VisitedIs(s, o, g, f, q, n, l, r, w \o e)
<1>1. PICK V : Chain(s, o, g, f, q, V) /\ w = V[Len(q) + 1] \o Done(s, o, g, f, n, j, m)
  BY DEF VisitedIs
<1>2. V[Len(q) + 1] \in Seq(Node)
  <2>1. Len(q) \in Nat /\ Len(q) + 1 \in 1..(Len(q) + 1)
    OBVIOUS
  <2>2. V \in [1..(Len(q) + 1) -> Seq(Node)]
    BY <1>1 DEF Chain
  <2> QED BY <2>1, <2>2, Zenon
<1>3. w \o e = V[Len(q) + 1] \o Done(s, o, g, f, n, l, r)
  <2> DEFINE a == V[Len(q) + 1]
             b == Done(s, o, g, f, n, j, m)
  <2>1. a \in Seq(Node) /\ b \in Seq(Node) /\ w = a \o b
    BY <1>1, <1>2
  <2>2. Done(s, o, g, f, n, l, r) = b \o e
    OBVIOUS
  <2> HIDE DEF a, b
  <2>3. (a \o b) \o e = a \o (b \o e)
    BY <2>1, ConcatAssociative
  <2>4. w \o e = a \o Done(s, o, g, f, n, l, r)
    BY <2>1, <2>2, <2>3
  <2> QED BY <2>4 DEF a
<1> QED BY <1>1, <1>3 DEF VisitedIs

(* A sub-node is entered. *)
LEMMA ChainPush ==
  ASSUME NEW s, NEW o \in Int, NEW g, NEW f, NEW q \in Seq(StackItem), NEW n, NEW j \in Nat,
         NEW w \in Seq(Node), VisitedIs(s, o, g, f, q, n, j, j, w), NEW c,
         NEW p \in Seq(StackItem), Len(p) = Len(q) + 1, \A k \in 1..Len(q) : p[k] = q[k],
         p[Len(q) + 1].node = n, p[Len(q) + 1].next = j + 1
  PROVE  VisitedIs(s, o, g, f, p, c, 0, -1, w)
<1> DEFINE l == Len(q)
<1>1. PICK V : Chain(s, o, g, f, q, V) /\ w = V[l + 1] \o Done(s, o, g, f, n, j, j)
  BY DEF VisitedIs
<1>2. l \in Nat /\ Len(p) = l + 1 /\ V \in [1..(l + 1) -> Seq(Node)]
  BY <1>1 DEF Chain
<1> DEFINE W == [k \in 1..(l + 2) |-> IF k = l + 2 THEN w ELSE V[k]]
<1>3. W \in [1..(l + 2) -> Seq(Node)] /\ W[l + 2] = w /\ \A k \in 1..(l + 1) : W[k] = V[k]
  <2> HIDE DEF l
  <2> QED BY <1>2
<1> HIDE DEF W
<1>4. ASSUME NEW k \in 1..(l + 1)
      PROVE  W[k + 1] = W[k] \o Done(s, o, g, f, p[k].node, p[k].next - 1, p[k].next - 1)
  <2>1. CASE k = l + 1
    <3>1. p[l + 1].node = n /\ p[l + 1].next = j + 1 /\ (j + 1) - 1 = j
      OBVIOUS
    <3>3. p[k].node = n /\ p[k].next - 1 = j
      BY <2>1, <3>1
    <3>2. W[k + 1] = w /\ W[k] = V[l + 1]
      BY <2>1, <1>2, <1>3
    <3> QED BY <3>3, <3>2, <1>1
  <2>2. CASE k # l + 1
    <3>1. k \in 1..l /\ k + 1 \in 1..(l + 1)
      BY <2>2, <1>2
    <3>2. W[k + 1] = V[k + 1] /\ W[k] = V[k] /\ p[k] = q[k]
      BY <3>1, <1>3
    <3>3. V[k + 1] = V[k] \o Done(s, o, g, f, q[k].node, q[k].next - 1, q[k].next - 1)
      BY <3>1, <1>1 DEF Chain
    <3> QED BY <3>2, <3>3
  <2> QED BY <2>1, <2>2
<1>5. W[1] = <<>>
  <2>1. V[1] = <<>> /\ 1 \in 1..(l + 1)
    BY <1>1, <1>2 DEF Chain
  <2> QED BY <2>1, <1>3
<1>6. Chain(s, o, g, f, p, W)
  <2>1. Len(p) + 1 = l + 2
    BY <1>2
  <2> HIDE DEF l
  <2> QED BY <2>1, <1>2, <1>3, <1>4, <1>5 DEF Chain
<1>7. Done(s, o, g, f, c, 0, -1) = <<>>
  BY DoneNothing
<1>8. w = W[Len(p) + 1] \o Done(s, o, g, f, c, 0, -1)
  <2>1. W[Len(p) + 1] = w
    BY <1>2, <1>3
  <2> QED BY <2>1, <1>7, ConcatEmptySeq
<1> QED BY <1>6, <1>8 DEF VisitedIs

(* Four pieces put together in either order are the same. *)
Regroups(u, z, t, e) == ((u \o z) \o t) \o e = u \o (z \o (t \o e))

LEMMA Regroup == \A u, z, t, e \in Seq(Node) : Regroups(u, z, t, e)
<1> SUFFICES ASSUME NEW u \in Seq(Node), NEW z \in Seq(Node), NEW t \in Seq(Node),
                    NEW e \in Seq(Node)
             PROVE  ((u \o z) \o t) \o e = u \o (z \o (t \o e))
  BY DEF Regroups
<1>1. t \o e \in Seq(Node) /\ u \o z \in Seq(Node)
  BY ConcatProperties
<1>2. ((u \o z) \o t) \o e = (u \o z) \o (t \o e)
  BY <1>1, ConcatAssociative
<1>3. (u \o z) \o (t \o e) = u \o (z \o (t \o e))
  BY <1>1, ConcatAssociative
<1> QED BY <1>2, <1>3

(* A node is finished, e being the visit it may get on leaving. *)
LEMMA ChainPop ==
  ASSUME NEW s, NEW o, NEW g, NEW f, Told(s, o, g, f), NEW q \in Seq(StackItem), q # <<>>,
         Waiting(s, g, q), NEW n \in Node, NEW j, NEW m, NEW w,
         VisitedIs(s, o, g, f, q, n, j, m, w), NEW e \in Seq(Node),
         Done(s, o, g, f, n, j, m) \in Seq(Node),
         f[n] = Done(s, o, g, f, n, j, m) \o e,
         s[q[Len(q)].node][q[Len(q)].next] = n,
         NEW p \in Seq(StackItem), Len(p) = Len(q) - 1, \A k \in 1..(Len(q) - 1) : p[k] = q[k]
  PROVE  VisitedIs(s, o, g, f, p, q[Len(q)].node, q[Len(q)].next, q[Len(q)].next - 1, w \o e)
<1> DEFINE l == Len(q)
           a == q[l].node
           x == q[l].next
           y == x - 1
<1>1. PICK V : Chain(s, o, g, f, q, V) /\ w = V[l + 1] \o Done(s, o, g, f, n, j, m)
  BY DEF VisitedIs
<1>2. /\ l \in Nat \ {0} /\ Len(p) = l - 1 /\ V \in [1..(l + 1) -> Seq(Node)]
      /\ l \in 1..l /\ n # Nil
  BY <1>1, TreeAssumption DEF Chain
<1>3. a \in Node /\ a \notin g /\ x \in 1..Len(s[a]) /\ Len(s[a]) \in Nat
  BY <1>2, ToldSlots DEF Waiting
<1>4. y \in Nat /\ y + 1 = x /\ y < Len(s[a]) /\ y \in 0..Len(s[a]) /\ y \in Int /\ y <= y
  BY <1>3
<1>5. V[l + 1] = V[l] \o Done(s, o, g, f, a, y, y)
  BY <1>1, <1>2 DEF Chain
<1>6. Done(s, o, g, f, a, x, y) = Done(s, o, g, f, a, y, y) \o f[n]
  <2>1. s[a][y + 1] = n
    BY <1>4
  <2>2. Under(f, s[a][y + 1]) = f[n]
    BY <2>1, <1>2 DEF Under
  <2> HIDE DEF a, x, y
  <2>3. Done(s, o, g, f, a, y + 1, y) = Done(s, o, g, f, a, y, y) \o Under(f, s[a][y + 1])
    BY <1>3, <1>4, DoneSlot
  <2> QED BY <2>2, <2>3, <1>4
<1>7. Done(s, o, g, f, a, y, y) \in Seq(Node)
  <2> HIDE DEF a, x, y
  <2> QED BY <1>3, <1>4, DoneParts
<1>8. V[l] \in Seq(Node) /\ V[l + 1] \in Seq(Node) /\ f[n] \in Seq(Node)
  <2>1. l \in 1..(l + 1) /\ l + 1 \in 1..(l + 1)
    BY <1>2
  <2>2. V[l] \in Seq(Node) /\ V[l + 1] \in Seq(Node)
    BY <1>2, <2>1, Zenon
  <2>3. f[n] \in Seq(Node)
    BY DEF Told
  <2> QED BY <2>2, <2>3
<1>9. w \o e = V[l] \o Done(s, o, g, f, a, x, y)
  <2> DEFINE z == Done(s, o, g, f, a, y, y)
             t == Done(s, o, g, f, n, j, m)
             u == V[l]
             v == V[l + 1]
             b == f[n]
             r == Done(s, o, g, f, a, x, y)
  <2>1. z \in Seq(Node) /\ t \in Seq(Node)
    BY <1>7
  <2>2. u \in Seq(Node) /\ v \in Seq(Node) /\ b \in Seq(Node)
    BY <1>8
  <2>3. v = u \o z
    BY <1>5
  <2>4. b = t \o e
    OBVIOUS
  <2>5. w = v \o t
    BY <1>1
  <2>6. r = z \o b
    BY <1>6
  <2>7. w \o e = u \o r
    <3> HIDE DEF z, t, u, v, b, r, a, x, y, l
    <3>1. Regroups(u, z, t, e)
      BY <2>1, <2>2, Regroup
    <3>2. w \o e = ((u \o z) \o t) \o e
      BY <2>3, <2>5
    <3>3. u \o r = u \o (z \o (t \o e))
      BY <2>4, <2>6
    <3> QED BY <3>1, <3>2, <3>3 DEF Regroups
  <2> QED BY <2>7
<1> DEFINE W == [k \in 1..l |-> V[k]]
<1>10. /\ W \in [1..l -> Seq(Node)] /\ \A k \in 1..l : W[k] = V[k]
       /\ Len(p) + 1 = l
  <2> HIDE DEF l
  <2> QED BY <1>2
<1> HIDE DEF W
<1>11. ASSUME NEW k \in 1..(l - 1)
       PROVE  W[k + 1] = W[k] \o Done(s, o, g, f, p[k].node, p[k].next - 1, p[k].next - 1)
  <2>1. k \in 1..l /\ k + 1 \in 1..l
    BY <1>2
  <2>2. W[k + 1] = V[k + 1] /\ W[k] = V[k] /\ p[k] = q[k]
    BY <2>1, <1>10
  <2>3. V[k + 1] = V[k] \o Done(s, o, g, f, q[k].node, q[k].next - 1, q[k].next - 1)
    BY <2>1, <1>1 DEF Chain
  <2> QED BY <2>2, <2>3
<1>12. W[1] = <<>>
  <2>1. V[1] = <<>> /\ 1 \in 1..l
    BY <1>1, <1>2 DEF Chain
  <2> QED BY <2>1, <1>10
<1>13. Chain(s, o, g, f, p, W)
  <2> HIDE DEF l, a, x, y
  <2> QED BY <1>2, <1>10, <1>11, <1>12 DEF Chain
<1>14. W[Len(p) + 1] = V[l]
  BY <1>2, <1>10
<1> HIDE DEF l, a, x, y
<1>15. VisitedIs(s, o, g, f, p, a, x, y, w \o e)
  BY <1>9, <1>13, <1>14 DEF VisitedIs
<1> QED BY <1>15 DEF l, a, x, y

(* The slots up to j of n are walked alike whether g or d are ignored. *)
Alike(s, g, f, d, h, n, j) ==
  /\ n \in Node
  /\ n \in g <=> n \in d
  /\ j \in 0..Len(s[n])
  /\ Agree(s, n, f, h, j)

(* So the path looks the same to both. *)
LEMMA ChainKept ==
  ASSUME NEW s, NEW o, NEW g, NEW f, Told(s, o, g, f), NEW d, NEW h, NEW q \in Seq(StackItem),
         \A k \in 1..Len(q) : Alike(s, g, f, d, h, q[k].node, q[k].next - 1),
         NEW V, Chain(s, o, g, f, q, V)
  PROVE  Chain(s, o, d, h, q, V)
<1>1. ASSUME NEW k \in 1..Len(q)
      PROVE  V[k + 1] = V[k] \o Done(s, o, d, h, q[k].node, q[k].next - 1, q[k].next - 1)
  <2> DEFINE n == q[k].node
             j == q[k].next - 1
  <2>1. V[k + 1] = V[k] \o Done(s, o, g, f, n, j, j)
    BY DEF Chain
  <2>2. /\ n \in Node /\ (n \in g <=> n \in d) /\ j \in 0..Len(s[n]) /\ j \in Int /\ j <= j
        /\ Agree(s, n, f, h, j)
    <3>1. Alike(s, g, f, d, h, n, j)
      OBVIOUS
    <3> HIDE DEF n, j
    <3>2. n \in Node /\ (n \in g <=> n \in d) /\ j \in 0..Len(s[n]) /\ Agree(s, n, f, h, j)
      BY <3>1 DEF Alike
    <3>3. Len(s[n]) \in Nat
      BY <3>2, ToldSlots
    <3> QED BY <3>2, <3>3
  <2>3. Done(s, o, g, f, n, j, j) = Done(s, o, d, h, n, j, j)
    <3> HIDE DEF n, j
    <3> QED BY <2>2, DoneKept
  <2> QED BY <2>1, <2>3
<1> QED BY <1>1 DEF Chain

(* The node at hand is visited at slot o, answers to be ignored, and goes  *)
(* to the end of its slots.                                                *)
IgnoredAt(s, o, g, f, d, h, n) ==
  Done(s, o, d, h, n, Len(s[n]), Len(s[n]) - 1) = Done(s, o, g, f, n, o, o - 1) \o <<n>>

LEMMA DoneIgnored ==
  ASSUME NEW s, NEW o, NEW g, NEW f, Told(s, o, g, f), NEW d, NEW h, NEW n \in Node, n \in d,
         n \notin g, o \in 0..(Len(s[n]) - 1), Agree(s, n, f, h, o)
  PROVE  IgnoredAt(s, o, g, f, d, h, n)
<1>1. /\ o \in Nat /\ o \in Int /\ o <= Len(s[n]) /\ Len(s[n]) \in Nat /\ s \in Buffers
      /\ <<n>> \in Seq(Node) /\ 1 \in Nat \ {0} /\ 1 <= o + 1
  BY ToldSlots DEF Told
<1>2. Part(s, f, n, 1, o) = Part(s, h, n, 1, o)
  BY <1>1, PartEq
<1>3. Part(s, f, n, 1, o) \in Seq(Node)
  BY <1>1, ToldPart
<1>4. Done(s, o, d, h, n, Len(s[n]), Len(s[n]) - 1) = Part(s, f, n, 1, o) \o <<n>> \o <<>>
  BY <1>2 DEF Done
<1>5. Done(s, o, g, f, n, o, o - 1) = Part(s, f, n, 1, o)
  <2>1. o \notin 0..(o - 1)
    BY <1>1
  <2> QED BY <2>1 DEF Done
<1> DEFINE p == Part(s, f, n, 1, o) \o <<n>>
<1>6. p \in Seq(Node)
  BY <1>1, <1>3, ConcatProperties
<1>7. p \o <<>> = p
  <2> HIDE DEF p
  <2> QED BY <1>6, ConcatEmptySeq
<1> QED BY <1>4, <1>5, <1>7 DEF IgnoredAt

(* P is the path of the suspended nodes q down from r. *)
Trail(s, q, P, r) ==
  /\ P \in [1..(Len(q) + 1) -> Node]
  /\ P[1] = r
  /\ \A k \in 1..Len(q) : /\ P[k] = q[k].node
                          /\ s[P[k]][q[k].next] = P[k + 1]

(* What is visited, and the traversal of the node at hand, come first in   *)
(* the traversal of the whole tree.                                        *)
LEMMA ChainPrefix ==
  ASSUME NEW s, NEW o, NEW g, NEW f, Told(s, o, g, f), NEW q \in Seq(StackItem),
         Waiting(s, g, q), NEW V, Chain(s, o, g, f, q, V), NEW P, NEW r, Trail(s, q, P, r)
  PROVE  \A k \in Nat : k \in 1..(Len(q) + 1) => Onto(V[k] \o f[P[k]], f[r])
<1> DEFINE S == {k \in Nat : k \in 1..(Len(q) + 1) => Onto(V[k] \o f[P[k]], f[r])}
<1>1. 0 \in S
  OBVIOUS
<1>2. ASSUME NEW k \in S  PROVE k + 1 \in S
  <2> SUFFICES ASSUME k + 1 \in 1..(Len(q) + 1)
               PROVE  Onto(V[k + 1] \o f[P[k + 1]], f[r])
    OBVIOUS
  <2>0. k \in Nat /\ Len(q) \in Nat /\ V \in [1..(Len(q) + 1) -> Seq(Node)]
        /\ P \in [1..(Len(q) + 1) -> Node] /\ f \in [Node -> Seq(Node)]
    BY DEF Chain, Trail, Told
  <2>1. CASE k = 0
    <3>1. V[k + 1] = <<>> /\ P[k + 1] = r /\ r \in Node
      <4>1. 1 \in 1..(Len(q) + 1) /\ k + 1 = 1
        BY <2>0, <2>1
      <4>2. V[1] = <<>> /\ P[1] = r
        BY DEF Chain, Trail
      <4> QED BY <2>0, <4>1, <4>2
    <3>2. f[r] \in Seq(Node) /\ <<>> \o f[r] = f[r]
      BY <2>0, <3>1, ConcatEmptySeq
    <3> QED BY <3>1, <3>2, OntoSame
  <2>2. CASE k # 0
    <3>1. k \in 1..Len(q) /\ k \in 1..(Len(q) + 1)
      BY <2>0, <2>2
    <3> DEFINE a == P[k]
               x == q[k].next
               y == x - 1
               c == P[k + 1]
    <3>2. a \in Node /\ c \in Node /\ a = q[k].node /\ s[a][x] = c
      BY <2>0, <3>1 DEF Trail
    <3>3. a \notin g /\ x \in 1..Len(s[a])
      BY <3>1, <3>2 DEF Waiting
    <3>4. V[k + 1] = V[k] \o Done(s, o, g, f, a, y, y)
      <4>1. V[k + 1] = V[k] \o Done(s, o, g, f, q[k].node, q[k].next - 1, q[k].next - 1)
        BY <3>1 DEF Chain
      <4> QED BY <4>1, <3>2
    <3>5. Onto(V[k] \o f[a], f[r])
      BY <3>1
    <3>6. V[k] \in Seq(Node) /\ V[k + 1] \in Seq(Node)
      BY <2>0, <3>1
    <3> HIDE DEF S
    <3>7. f[a] \in Seq(Node) /\ f[c] \in Seq(Node) /\ f[r] \in Seq(Node)
      <4>1. P[1] = r /\ 1 \in 1..(Len(q) + 1)
        BY <2>0 DEF Trail
      <4>2. r \in Node
        BY <2>0, <4>1
      <4> HIDE DEF a, c
      <4> QED BY <2>0, <3>2, <4>2
    <3> HIDE DEF a, x, c
    <3>8. /\ Len(s[a]) \in Nat /\ y \in Nat /\ y + 1 = x /\ y < Len(s[a]) /\ x \in 0..Len(s[a])
          /\ y \in Int /\ y <= x /\ x - 1 <= y /\ c # Nil /\ y \in 0..Len(s[a]) /\ y <= y
      <4>1. Len(s[a]) \in Nat
        BY <3>2, ToldSlots
      <4> QED BY <3>2, <3>3, <4>1, TreeAssumption
    <3> HIDE DEF y
    <3> DEFINE t == Done(s, o, g, f, a, y, y)
               w == Done(s, o, g, f, a, x, y)
               u == V[k]
               v == V[k + 1]
    <3>9. w = t \o f[c]
      <4>1. Done(s, o, g, f, a, y + 1, y) = Done(s, o, g, f, a, y, y) \o Under(f, s[a][y + 1])
        <5>1. a \in Node
          BY <3>2
        <5>2. a \notin g
          BY <3>3
        <5>3. y \in Nat
          BY <3>8
        <5>4. y < Len(s[a])
          BY <3>8
        <5> QED BY <5>1, <5>2, <5>3, <5>4, DoneSlot
      <4>2. s[a][y + 1] = c /\ y + 1 = x
        BY <3>2, <3>8
      <4>3. Under(f, s[a][y + 1]) = f[c]
        BY <4>2, <3>8 DEF Under
      <4> QED BY <4>1, <4>2, <4>3
    <3>10. Onto(w, f[a])
      BY <3>2, <3>8, DoneRest
    <3>11. t \in Seq(Node) /\ w \in Seq(Node)
      <4>1. t \in Seq(Node)
        BY <3>2, <3>8, DoneParts
      <4>2. w \in Seq(Node)
        BY <3>2, <3>8, DoneParts
      <4> QED BY <4>1, <4>2
    <3>12. u \in Seq(Node) /\ v \in Seq(Node) /\ v = u \o t
      BY <3>4, <3>6
    <3>13. Onto(u \o f[a], f[r])
      BY <3>5 DEF a
    <3> DEFINE fa == f[a]
               fc == f[c]
               fr == f[r]
    <3>14. fa \in Seq(Node) /\ fc \in Seq(Node) /\ fr \in Seq(Node)
      BY <3>7
    <3>15. w = t \o fc /\ Onto(w, fa) /\ Onto(u \o fa, fr)
      BY <3>9, <3>10, <3>13
    <3>16. Onto(v \o fc, fr)
      <4> HIDE DEF t, w, u, v, fa, fc, fr
      <4>0. u \in Seq(Node) /\ t \in Seq(Node) /\ fc \in Seq(Node)
        BY <3>11, <3>12, <3>14
      <4>1. (u \o t) \o fc = u \o (t \o fc)
        BY <4>0, ConcatAssociative
      <4>2. v \o fc = u \o w
        BY <4>1, <3>12, <3>15
      <4>3. Onto(u \o w, u \o fa)
        BY <3>11, <3>12, <3>14, <3>15, OntoAfter
      <4> DEFINE z == u \o w
                 b == u \o fa
      <4>4. z \in Seq(Node) /\ b \in Seq(Node) /\ Onto(z, b) /\ Onto(b, fr)
        BY <3>11, <3>12, <3>14, <3>15, <4>3, ConcatProperties
      <4>5. Onto(z, fr)
        <5> HIDE DEF z, b
        <5> QED BY <4>4, <3>14, OntoTrans
      <4> QED BY <4>2, <4>5
    <3> QED BY <3>16 DEF c
  <2> QED BY <2>1, <2>2
<1>3. S = Nat
  <2> HIDE DEF S
  <2>1. S \in SUBSET Nat
    BY DEF S
  <2> QED BY <1>1, <1>2, <2>1, AllNumbers
<1> QED BY <1>3

(* So what is visited comes first. *)
LEMMA VisitedPrefix ==
  ASSUME NEW s, NEW o, NEW g, NEW f, Told(s, o, g, f), NEW q \in Seq(StackItem),
         Waiting(s, g, q), NEW P, NEW r, Trail(s, q, P, r), NEW n, n = P[Len(q) + 1],
         NEW j \in 0..Len(s[n]), NEW m \in Int, m <= j, j - 1 <= m, m < Len(s[n]), NEW w,
         VisitedIs(s, o, g, f, q, n, j, m, w)
  PROVE  IsPrefix(w, f[r])
<1> DEFINE l == Len(q) + 1
<1>1. PICK V : Chain(s, o, g, f, q, V) /\ w = V[l] \o Done(s, o, g, f, n, j, m)
  BY DEF VisitedIs
<1>2. l \in Nat /\ l \in 1..(Len(q) + 1) /\ 1 \in 1..l
  OBVIOUS
<1>3. V[l] \in Seq(Node) /\ n \in Node /\ r \in Node
  BY <1>1, <1>2 DEF Chain, Trail
<1>4. Onto(V[l] \o f[P[l]], f[r])
  <2> HIDE DEF l
  <2> QED BY <1>1, <1>2, ChainPrefix
<1> DEFINE u == V[l]
           t == Done(s, o, g, f, n, j, m)
           fn == f[n]
           fr == f[r]
<1>5. Onto(t, fn)
  <2> HIDE DEF l
  <2> QED BY <1>3, DoneRest
<1>6. t \in Seq(Node)
  <2> HIDE DEF l
  <2> QED BY <1>3, DoneParts
<1>7. u \in Seq(Node) /\ fn \in Seq(Node) /\ fr \in Seq(Node) /\ w = u \o t
  BY <1>1, <1>3 DEF Told
<1>8. Onto(u \o fn, fr)
  BY <1>4
<1>9. Onto(w, fr) /\ w \in Seq(Node)
  <2> HIDE DEF u, t, fn, fr, l
  <2> DEFINE z == u \o t
             b == u \o fn
  <2>1. Onto(z, b) /\ z \in Seq(Node) /\ b \in Seq(Node) /\ Onto(b, fr) /\ w = z
    BY <1>5, <1>6, <1>7, <1>8, OntoAfter, ConcatProperties
  <2> HIDE DEF z, b
  <2> QED BY <2>1, <1>7, OntoTrans
<1> QED BY <1>9, OntoPrefix

-----------------------------------------------------------------------------
(***************************************************************************)
(* The inductive invariant of WalkOrder and WalkComplete, and its steps.   *)
(***************************************************************************)
(* The order test is through with the slots up to this one. *)
Tested == IF pc = "at" THEN i - 1 ELSE i

(* Nothing is ignored in the slots of n from the given one on. *)
Unmarked(s, g, n, from) == \A k \in from..Len(s[n]) : Beneath(s, s[n][k]) \cap g = {}

WalkSoFar ==
  VisitedIs(sub, order, ignored, Visits(sub, order, ignored), stack, top.node, i, Tested, visited)

(* Only the node at hand may have been told to be ignored, and then it is  *)
(* at its end.                                                             *)
MarkedLeft ==
  /\ i <= Len(sub[top.node])
  /\ top.node \in ignored => pc = "at" /\ i = Len(sub[top.node]) /\ order \in 0..(i - 1)
  /\ \A k \in 1..Len(stack) : stack[k].node \notin ignored

(* Nothing is ignored in the slots still to come. *)
AheadUnmarked ==
  /\ Unmarked(sub, ignored, top.node, i + 1)
  /\ \A k \in 1..Len(stack) : Unmarked(sub, ignored, stack[k].node, stack[k].next + 1)

(* Until an answer on leaving a node sends the traversal back. *)
WalkInv == (pc # "idle" /\ purpose # "clear" /\ ~Reentered) => WalkSoFar /\ MarkedLeft /\ AheadUnmarked

OrderInv == IInv /\ Founded(sub) /\ WalkInv

(* Slots may be emptied. *)
LEMMA FoundedLess ==
  ASSUME NEW s, NEW u, Founded(s),
         \A n \in Node : \A k \in 1..Len(u[n]) :
            u[n][k] \notin Node \/ \E j \in 1..Len(s[n]) : u[n][k] = s[n][j]
  PROVE  Founded(u)
<1> SUFFICES ASSUME NEW S \in SUBSET Node, S # {}
             PROVE  \E n \in S : \A k \in 1..Len(u[n]) : u[n][k] \notin S
  BY DEF Founded
<1>1. PICK n \in S : \A k \in 1..Len(s[n]) : s[n][k] \notin S
  BY DEF Founded
<1>2. ASSUME NEW k \in 1..Len(u[n])  PROVE u[n][k] \notin S
  BY <1>1
<1> QED BY <1>2

(* A created node has no sub-node. *)
LEMMA FoundedCreate ==
  ASSUME IInv, Founded(sub), NEW n \in Node, CreateNode(n)
  PROVE  Founded(sub')
<1>1. sub' = [sub EXCEPT ![n] = [k \in 1..FixedN |-> Nil]] /\ sub \in [Node -> Seq(NodeOrNil)]
  BY DEF CreateNode, IInv, TypeOK
<1>2. Len([k \in 1..FixedN |-> Nil]) = FixedN
  BY TreeAssumption
<1>3. ASSUME NEW m \in Node, NEW k \in 1..Len(sub'[m])
      PROVE  sub'[m][k] \notin Node \/ \E j \in 1..Len(sub[m]) : sub'[m][k] = sub[m][j]
  <2>1. CASE m = n
    <3>1. sub'[m] = [j \in 1..FixedN |-> Nil]
      BY <1>1, <2>1
    <3>2. k \in 1..FixedN
      BY <1>2, <3>1
    <3> QED BY <3>1, <3>2, TreeAssumption
  <2>2. CASE m # n
    BY <1>1, <2>2
  <2> QED BY <2>1, <2>2
<1> QED BY <1>3, FoundedLess

(* A linked node has no sub-node yet. *)
LEMMA FoundedLink ==
  ASSUME IInv, Founded(sub), NEW n \in Node, NEW idx \in 0..Slots, NEW c \in NodeOrNil,
         SetSubNode(n, idx, c)
  PROVE  Founded(sub')
<1> DEFINE new == SlotsAfterSet(sub[n], idx, c)
           pos == WrittenSlot(sub[n], idx)
<1>1. idx \in Nat /\ sub[n] \in Seq(NodeOrNil) /\ sub \in [Node -> Seq(NodeOrNil)]
  BY TreeAssumption DEF Slots, IInv, TypeOK
<1>2. \A k \in 1..Len(new) :
         \/ k = pos /\ new[k] = c
         \/ k # pos /\ k \in 1..Len(sub[n]) /\ new[k] = sub[n][k]
  BY <1>1, SlotsContent
<1>3. /\ sub' = [sub EXCEPT ![n] = new]
      /\ c # Nil => c # n /\ c \in Node /\ \A k \in 1..Len(sub[c]) : sub[c][k] = Nil
  BY DEF SetSubNode, NodeOrNil
<1> HIDE DEF new, pos
<1>4. \A m \in Node : \A k \in 1..Len(sub'[m]) :
         (m = n /\ sub'[m][k] = c) \/ (k \in 1..Len(sub[m]) /\ sub'[m][k] = sub[m][k])
  BY <1>1, <1>2, <1>3
<1> SUFFICES ASSUME NEW S \in SUBSET Node, S # {}
             PROVE  \E m \in S : \A k \in 1..Len(sub'[m]) : sub'[m][k] \notin S
  BY DEF Founded
<1>5. CASE c \in S
  <2>1. c # Nil /\ c # n /\ c \in Node /\ sub'[c] = sub[c]
    BY <1>1, <1>3, <1>5, TreeAssumption
  <2>2. \A k \in 1..Len(sub'[c]) : sub'[c][k] \notin S
    BY <1>3, <2>1, TreeAssumption
  <2> QED BY <1>5, <2>2
<1>6. CASE c \notin S
  <2>1. PICK m \in S : \A k \in 1..Len(sub[m]) : sub[m][k] \notin S
    BY DEF Founded
  <2>2. \A k \in 1..Len(sub'[m]) : sub'[m][k] \notin S
    BY <1>4, <1>6, <2>1
  <2> QED BY <2>2
<1> QED BY <1>5, <1>6

(* No step makes a circle. *)
LEMMA FoundedStep ==
  ASSUME IInv, Founded(sub), [Next]_vars
  PROVE  Founded(sub')
<1>1. CASE \E n \in Node : CreateNode(n)
  BY <1>1, FoundedCreate
<1>2. CASE \E n \in Node, idx \in 0..Slots, c \in NodeOrNil : SetSubNode(n, idx, c)
  BY <1>2, FoundedLink
<1>3. CASE sub' = sub
  BY <1>3
<1>4. CASE sub' = [sub EXCEPT ![top.node] = <<>>]
  <2>1. \A m \in Node : \A k \in 1..Len(sub'[m]) : \E j \in 1..Len(sub[m]) : sub'[m][k] = sub[m][j]
    <3> SUFFICES ASSUME NEW m \in Node, NEW k \in 1..Len(sub'[m])
                 PROVE  \E j \in 1..Len(sub[m]) : sub'[m][k] = sub[m][j]
      OBVIOUS
    <3>1. sub \in [Node -> Seq(NodeOrNil)]
      BY DEF IInv, TypeOK
    <3>2. CASE m = top.node
      <4>1. sub'[m] = <<>>
        BY <1>4, <3>1, <3>2
      <4> QED BY <4>1
    <3>3. CASE m # top.node
      BY <1>4, <3>1, <3>3
    <3> QED BY <3>2, <3>3
  <2> QED BY <2>1, FoundedLess
<1>5. \/ \E n \in Node : CreateNode(n)
      \/ \E n \in Node, idx \in 0..Slots, c \in NodeOrNil : SetSubNode(n, idx, c)
      \/ sub' = sub
      \/ sub' = [sub EXCEPT ![top.node] = <<>>]
  BY DEF Next, SetRoot, ForEach, Clear, StartWalk, Walk, VisitAt, PassOrder, SkipNull, PushStack,
         Leave, VisitAndLeave, OnTraversal, vars, nodeVars
<1> QED BY <1>1, <1>2, <1>3, <1>4, <1>5

(* What every step of a traversal starts from. *)
LEMMA WalkFacts ==
  ASSUME OrderInv, pc # "idle", purpose # "clear", ~Reentered
  PROVE  /\ Told(sub, order, ignored, Visits(sub, order, ignored))
         /\ Waiting(sub, ignored, stack)
         /\ Trail(sub, stack, Path, root)
         /\ top.node \in Node /\ top.node = Path[Len(stack) + 1]
         /\ i \in Nat /\ i \in 0..Len(sub[top.node]) /\ Len(sub[top.node]) \in Nat
         /\ order \in Int /\ stack \in Seq(StackItem) /\ visited \in Seq(Node)
         /\ WalkSoFar /\ MarkedLeft /\ AheadUnmarked
         /\ pc \in {"at", "past"}
         /\ pc = "past" => i < Len(sub[top.node])
<1>1. IInv /\ Founded(sub) /\ TypeOK /\ WalkSoFar /\ MarkedLeft /\ AheadUnmarked
  BY DEF OrderInv, WalkInv, IInv
<1>2. /\ sub \in Buffers /\ order \in Int /\ stack \in Seq(StackItem) /\ visited \in Seq(Node)
      /\ i \in Nat /\ pc \in {"at", "past"} /\ Len(stack) \in Nat
  BY <1>1 DEF TypeOK, Buffers
<1>3. Told(sub, order, ignored, Visits(sub, order, ignored))
  BY <1>1, <1>2, VisitsIs DEF Told
<1>4. /\ top.node \in Node /\ top.node = Path[Len(stack) + 1] /\ Path[1] = root
      /\ \A k \in 1..Len(stack) : Path[k] = stack[k].node
      /\ \A k \in 1..(Len(stack) + 1) : Path[k] \in Node
  BY <1>1, PathFacts DEF IInv, PathAlive
<1>5. Len(sub[top.node]) \in Nat
  BY <1>2, <1>4 DEF Buffers
<1>6. i \in 0..Len(sub[top.node])
  BY <1>1, <1>2, <1>5 DEF MarkedLeft
<1>7. \A k \in 1..Len(stack) : /\ stack[k].next \in 1..Len(sub[stack[k].node])
                               /\ sub[stack[k].node][stack[k].next] = Path[k + 1]
  BY <1>1 DEF IInv, PathLinked
<1>8. Waiting(sub, ignored, stack)
  <2> SUFFICES ASSUME NEW k \in 1..Len(stack)
               PROVE  /\ stack[k].node \in Node
                      /\ stack[k].node \notin ignored
                      /\ stack[k].next \in 1..Len(sub[stack[k].node])
    BY DEF Waiting
  <2>1. k \in 1..(Len(stack) + 1)
    BY <1>2
  <2> QED BY <2>1, <1>1, <1>4, <1>7 DEF MarkedLeft
<1>9. Trail(sub, stack, Path, root)
  <2>1. Path \in [1..(Len(stack) + 1) -> Node]
    BY <1>4 DEF Path
  <2> QED BY <2>1, <1>4, <1>7 DEF Trail
<1>10. pc = "past" => i < Len(sub[top.node])
  BY <1>1 DEF IInv, LoopInv
<1> QED BY <1>1, <1>2, <1>3, <1>4, <1>5, <1>6, <1>8, <1>9, <1>10

(* At every moment of a traversal what is visited comes first in the       *)
(* promised one.                                                           *)
LEMMA InOrder ==
  ASSUME OrderInv
  PROVE  WalkOrder
<1> SUFFICES ASSUME pc # "idle", purpose = "each", ~Reentered
             PROVE  IsPrefix(visited, Below(root, ignored))
  BY DEF WalkOrder
<1> DEFINE f == Visits(sub, order, ignored)
           n == top.node
           m == Tested
<1>1. /\ Told(sub, order, ignored, f) /\ Waiting(sub, ignored, stack)
      /\ Trail(sub, stack, Path, root) /\ n = Path[Len(stack) + 1]
      /\ i \in 0..Len(sub[n]) /\ Len(sub[n]) \in Nat /\ stack \in Seq(StackItem)
      /\ VisitedIs(sub, order, ignored, f, stack, n, i, m, visited)
      /\ pc = "past" => i < Len(sub[n])
  BY WalkFacts DEF WalkSoFar
<1>2. m \in Int /\ m <= i /\ i - 1 <= m /\ m < Len(sub[n])
  <2>1. CASE pc = "at"
    BY <2>1, <1>1 DEF Tested
  <2>2. CASE pc # "at"
    <3>1. pc = "past"
      BY <2>2 DEF OrderInv, IInv, TypeOK
    <3> QED BY <3>1, <1>1 DEF Tested
  <2> QED BY <2>1, <2>2
<1>3. IsPrefix(visited, f[root])
  <2> HIDE DEF f, n, m
  <2> QED BY <1>1, <1>2, VisitedPrefix
<1> QED BY <1>3, BelowIs

(* More or nothing new of the node at hand. *)
LEMMA ChainSame ==
  ASSUME NEW s, NEW o, NEW g, NEW f, NEW q, NEW n, NEW j, NEW m, NEW w,
         VisitedIs(s, o, g, f, q, n, j, m, w), NEW l, NEW r,
         Done(s, o, g, f, n, l, r) = Done(s, o, g, f, n, j, m)
  PROVE  VisitedIs(s, o, g, f, q, n, l, r, w)
BY DEF VisitedIs

(* A traversal starts with nothing visited. *)
LEMMA StartOrder ==
  ASSUME IInv, NEW o \in Int, NEW p, StartWalk(o, p)
  PROVE  WalkInv'
<1>1. /\ stack' = <<>> /\ top'.node = root /\ i' = 0 /\ order' = o /\ pc' = "at"
      /\ visited' = <<>> /\ ignored' = {} /\ sub' = sub
  BY DEF StartWalk, Item, nodeVars, IInv, LoopInv
<1>2. VisitedIs(sub', order', ignored', Visits(sub', order', ignored'), <<>>, root, 0, -1, <<>>)
  BY <1>1, ChainFirst
<1>3. Tested' = -1
  BY <1>1 DEF Tested
<1>4. WalkSoFar'
  BY <1>1, <1>2, <1>3 DEF WalkSoFar
<1>5. MarkedLeft'
  <2>1. root \in Node /\ Len(sub[root]) \in Nat
    BY DEF StartWalk, IInv, TypeOK, NodeOrNil
  <2> QED BY <1>1, <2>1 DEF MarkedLeft
<1>6. AheadUnmarked'
  BY <1>1 DEF AheadUnmarked, Unmarked
<1> QED BY <1>4, <1>5, <1>6 DEF WalkInv

(* The order test fails: the slot is passed, nothing is visited. *)
LEMMA PassStep ==
  ASSUME OrderInv, PassOrder
  PROVE  WalkInv'
<1> SUFFICES ASSUME purpose # "clear", ~Reentered  PROVE WalkInv'
  BY DEF WalkInv, Reentered, PassOrder
<1>1. /\ pc = "at" /\ pc' = "past" /\ i < Len(sub[top.node]) /\ i # order
      /\ sub' = sub /\ order' = order /\ ignored' = ignored /\ stack' = stack /\ top' = top
      /\ i' = i /\ visited' = visited
  BY DEF PassOrder, SubNodeCount, nodeVars
<1> DEFINE f == Visits(sub, order, ignored)
           n == top.node
           m == i - 1
<1>2. /\ VisitedIs(sub, order, ignored, f, stack, n, i, m, visited)
      /\ i \in Nat /\ order \in Int /\ MarkedLeft /\ AheadUnmarked /\ Len(sub[n]) \in Nat
  BY <1>1, WalkFacts DEF WalkSoFar, Tested
<1>3. Done(sub, order, ignored, f, n, i, i) = Done(sub, order, ignored, f, n, i, m)
  <2> HIDE DEF f, n
  <2> QED BY <1>1, <1>2, DonePass
<1>4. VisitedIs(sub, order, ignored, f, stack, n, i, i, visited)
  <2> HIDE DEF f, n, m
  <2> QED BY <1>2, <1>3, ChainSame
<1>5. WalkSoFar'
  <2>1. Tested' = i
    BY <1>1 DEF Tested
  <2> QED BY <1>1, <1>4, <2>1 DEF WalkSoFar
<1>6. MarkedLeft'
  BY <1>1, <1>2 DEF MarkedLeft
<1>7. AheadUnmarked'
  BY <1>1, <1>2 DEF AheadUnmarked
<1> QED BY <1>5, <1>6, <1>7 DEF WalkInv

(* A null slot is finished at once. *)
LEMMA SkipStep ==
  ASSUME OrderInv, SkipNull
  PROVE  WalkInv'
<1> SUFFICES ASSUME purpose # "clear", ~Reentered  PROVE WalkInv'
  BY DEF WalkInv, Reentered, SkipNull
<1>1. /\ pc = "past" /\ pc' = "at" /\ sub[top.node][i + 1] = Nil
      /\ sub' = sub /\ order' = order /\ ignored' = ignored /\ stack' = stack /\ top' = top
      /\ i' = i + 1 /\ visited' = visited
  BY DEF SkipNull, nodeVars
<1> DEFINE f == Visits(sub, order, ignored)
           n == top.node
           l == i + 1
<1>2. /\ VisitedIs(sub, order, ignored, f, stack, n, i, i, visited)
      /\ Told(sub, order, ignored, f) /\ n \in Node /\ i < Len(sub[n])
      /\ i \in Nat /\ order \in Int /\ MarkedLeft /\ AheadUnmarked /\ Len(sub[n]) \in Nat
  BY <1>1, WalkFacts DEF WalkSoFar, Tested
<1>3. n \notin ignored
  BY <1>1, <1>2 DEF MarkedLeft
<1>4. Done(sub, order, ignored, f, n, l, i) = Done(sub, order, ignored, f, n, i, i)
  <2>1. Done(sub, order, ignored, f, n, i + 1, i)
          = Done(sub, order, ignored, f, n, i, i) \o Under(f, sub[n][i + 1])
    <3> HIDE DEF f, n, l
    <3> QED BY <1>2, <1>3, DoneSlot
  <2>2. Under(f, sub[n][i + 1]) = <<>>
    BY <1>1 DEF Under
  <2> DEFINE d == Done(sub, order, ignored, f, n, i, i)
  <2>3. d \in Seq(Node)
    <3>1. i \in 0..Len(sub[n]) /\ i \in Int /\ i <= i
      BY <1>2
    <3> HIDE DEF f, n, l
    <3> QED BY <1>2, <3>1, DoneParts
  <2>4. d \o <<>> = d
    <3> HIDE DEF d
    <3> QED BY <2>3, ConcatEmptySeq
  <2> QED BY <2>1, <2>2, <2>4
<1>5. VisitedIs(sub, order, ignored, f, stack, n, l, i, visited)
  <2> HIDE DEF f, n, l
  <2> QED BY <1>2, <1>4, ChainSame
<1>6. WalkSoFar'
  <2>1. Tested' = i
    BY <1>1, <1>2 DEF Tested
  <2> QED BY <1>1, <1>5, <2>1 DEF WalkSoFar
<1>7. MarkedLeft'
  BY <1>1, <1>2, <1>3 DEF MarkedLeft
<1>8. AheadUnmarked'
  <2>1. Unmarked(sub, ignored, n, l + 1)
    BY <1>2 DEF AheadUnmarked, Unmarked
  <2> QED BY <1>1, <1>2, <2>1 DEF AheadUnmarked
<1> QED BY <1>6, <1>7, <1>8 DEF WalkInv

(* The node at hand is visited, and its sub-nodes are entered. *)
LEMMA VisitStep ==
  ASSUME OrderInv, VisitAt("zero")
  PROVE  WalkInv'
<1> SUFFICES ASSUME purpose # "clear", ~Reentered  PROVE WalkInv'
  BY DEF WalkInv, Reentered, VisitAt
<1>1. /\ pc = "at" /\ pc' = "past" /\ i < Len(sub[top.node]) /\ i = order
      /\ sub' = sub /\ order' = order /\ ignored' = ignored /\ stack' = stack /\ top' = top
      /\ i' = i /\ visited' = Append(visited, top.node)
  BY DEF VisitAt, OnTraversal, SubNodeCount
<1> DEFINE f == Visits(sub, order, ignored)
           n == top.node
           m == i - 1
           e == <<n>>
           w == visited \o e
<1>2. /\ VisitedIs(sub, order, ignored, f, stack, n, i, m, visited)
      /\ Told(sub, order, ignored, f) /\ n \in Node /\ visited \in Seq(Node)
      /\ stack \in Seq(StackItem)
      /\ i \in Nat /\ order \in Int /\ MarkedLeft /\ AheadUnmarked /\ Len(sub[n]) \in Nat
  BY <1>1, WalkFacts DEF WalkSoFar, Tested
<1>3. Done(sub, order, ignored, f, n, i, i) = Done(sub, order, ignored, f, n, i, m) \o e
  <2>1. order \in 0..Len(sub[n])
    BY <1>1, <1>2
  <2>2. Done(sub, order, ignored, f, n, order, order)
          = Done(sub, order, ignored, f, n, order, order - 1) \o <<n>>
    <3> HIDE DEF f, n, m, w
    <3> QED BY <1>2, <2>1, DoneVisit
  <2> QED BY <2>2, <1>1
<1>4. Done(sub, order, ignored, f, n, i, m) \in Seq(Node)
  <2>1. i \in 0..Len(sub[n]) /\ m \in Int /\ m <= i
    BY <1>1, <1>2
  <2> HIDE DEF f, n, m, w
  <2> QED BY <1>2, <2>1, DoneParts
<1>5. VisitedIs(sub, order, ignored, f, stack, n, i, i, w)
  <2>1. e \in Seq(Node)
    BY <1>2
  <2> HIDE DEF f, n, m, e
  <2> QED BY <1>2, <1>3, <1>4, <2>1, ChainMove
<1>6. WalkSoFar'
  <2>1. Tested' = i
    BY <1>1, <1>2 DEF Tested
  <2>2. visited' = w
    <3>1. visited' = Append(visited, n)
      BY <1>1
    <3> HIDE DEF n
    <3> QED BY <3>1, <1>2
  <2> HIDE DEF w
  <2> QED BY <1>1, <1>5, <2>1, <2>2 DEF WalkSoFar
<1>7. MarkedLeft'
  BY <1>1, <1>2 DEF MarkedLeft
<1>8. AheadUnmarked'
  BY <1>1, <1>2 DEF AheadUnmarked
<1> QED BY <1>6, <1>7, <1>8 DEF WalkInv

(* A sub-node is entered. *)
LEMMA EnterStep ==
  ASSUME OrderInv, PushStack
  PROVE  WalkInv'
<1> SUFFICES ASSUME purpose # "clear", ~Reentered  PROVE WalkInv'
  BY DEF WalkInv, Reentered, PushStack
<1> DEFINE f == Visits(sub, order, ignored)
           n == top.node
           l == Len(stack)
           c == sub[n][i + 1]
           g == ignored
<1>1. /\ pc = "past" /\ pc' = "at" /\ c # Nil
      /\ sub' = sub /\ order' = order /\ ignored' = ignored
      /\ stack' = Append(stack, Item(n, i + 1)) /\ top'.node = c
      /\ i' = 0 /\ visited' = visited
  BY DEF PushStack, Item, nodeVars
<1>2. /\ VisitedIs(sub, order, g, f, stack, n, i, i, visited)
      /\ Told(sub, order, g, f) /\ n \in Node /\ visited \in Seq(Node)
      /\ stack \in Seq(StackItem) /\ i < Len(sub[n])
      /\ i \in Nat /\ order \in Int /\ MarkedLeft /\ AheadUnmarked /\ Len(sub[n]) \in Nat
  BY <1>1, WalkFacts DEF WalkSoFar, Tested
<1>3. /\ l \in Nat /\ Len(stack') = l + 1 /\ stack' \in Seq(StackItem)
      /\ \A k \in 1..l : stack'[k] = stack[k]
      /\ stack'[l + 1].node = n /\ stack'[l + 1].next = i + 1
  <2>1. Item(n, i + 1) \in StackItem /\ Item(n, i + 1).node = n /\ Item(n, i + 1).next = i + 1
    BY <1>2 DEF Item, StackItem, NodeOrNil
  <2> DEFINE item == Item(n, i + 1)
  <2>2. stack' = Append(stack, item) /\ item \in StackItem
    BY <1>1, <2>1
  <2>3. /\ l \in Nat /\ Len(stack') = l + 1 /\ stack' \in Seq(StackItem)
        /\ (\A k \in 1..l : stack'[k] = stack[k]) /\ stack'[l + 1] = item
    <3> HIDE DEF item
    <3> QED BY <1>2, <2>2
  <2> QED BY <2>1, <2>3
<1>4. c \in Node /\ sub \in Buffers /\ i + 1 \in 1..Len(sub[n])
  <2>1. i + 1 \in 1..Len(sub[n])
    BY <1>2
  <2> QED BY <1>1, <1>2, <2>1 DEF Told, Buffers, NodeOrNil
<1>5. VisitedIs(sub, order, g, f, stack', c, 0, -1, visited)
  <2> DEFINE q == stack
             p == stack'
             w == visited
  <2>1. /\ q \in Seq(StackItem) /\ p \in Seq(StackItem) /\ Len(p) = Len(q) + 1
        /\ \A k \in 1..Len(q) : p[k] = q[k]
        /\ p[Len(q) + 1].node = n /\ p[Len(q) + 1].next = i + 1
        /\ VisitedIs(sub, order, g, f, q, n, i, i, w) /\ w \in Seq(Node)
    BY <1>2, <1>3
  <2> HIDE DEF f, n, l, c, g, q, p, w
  <2>2. VisitedIs(sub, order, g, f, p, c, 0, -1, w)
    BY <1>2, <2>1, ChainPush
  <2> QED BY <2>2 DEF p, w
<1>6. Unmarked(sub, g, n, i + 1) /\ Unmarked(sub, g, n, i + 2)
  <2>1. Unmarked(sub, g, n, i + 1)
    BY <1>2 DEF AheadUnmarked
  <2>2. \A k \in (i + 2)..Len(sub[n]) : k \in (i + 1)..Len(sub[n])
    BY <1>2
  <2> QED BY <2>1, <2>2 DEF Unmarked
<1>7. Beneath(sub, c) \cap g = {}
  BY <1>2, <1>4, <1>6 DEF Unmarked
<1>8. c \in Beneath(sub, c) /\ Beneath(sub, c) \in SUBSET Node /\ Shut(sub, Beneath(sub, c))
  BY <1>4, BeneathShut
<1>9. WalkSoFar'
  <2>1. Tested' = -1
    BY <1>1 DEF Tested
  <2> QED BY <1>1, <1>5, <2>1 DEF WalkSoFar
<1>10. MarkedLeft'
  <2>1. c \notin g /\ n \notin g /\ Len(sub[c]) \in Nat
    BY <1>1, <1>2, <1>4, <1>7, <1>8 DEF MarkedLeft, Buffers
  <2>2. \A k \in 1..(l + 1) : stack'[k].node \notin g
    <3> TAKE k \in 1..(l + 1)
    <3>1. CASE k = l + 1
      BY <3>1, <1>3, <2>1
    <3>2. CASE k # l + 1
      <4>1. k \in 1..l
        BY <3>2, <1>3
      <4> QED BY <4>1, <1>2, <1>3 DEF MarkedLeft
    <3> QED BY <3>1, <3>2
  <2> QED BY <1>1, <1>3, <2>1, <2>2 DEF MarkedLeft
<1>11. Unmarked(sub, g, c, 1)
  <2> SUFFICES ASSUME NEW k \in 1..Len(sub[c])  PROVE Beneath(sub, sub[c][k]) \cap g = {}
    BY DEF Unmarked
  <2>1. CASE sub[c][k] = Nil
    BY <2>1 DEF Beneath
  <2>2. CASE sub[c][k] # Nil
    <3>1. sub[c][k] \in Beneath(sub, c)
      BY <1>8, <2>2 DEF Shut
    <3>2. Beneath(sub, sub[c][k]) \subseteq Beneath(sub, c)
      BY <1>8, <3>1, BeneathLeast
    <3> QED BY <3>2, <1>7
  <2> QED BY <2>1, <2>2
<1>12. AheadUnmarked'
  <2>1. \A k \in 1..(l + 1) : Unmarked(sub, g, stack'[k].node, stack'[k].next + 1)
    <3> TAKE k \in 1..(l + 1)
    <3>1. CASE k = l + 1
      <4>1. stack'[k].node = n /\ stack'[k].next + 1 = i + 2
        BY <3>1, <1>2, <1>3
      <4> QED BY <4>1, <1>6
    <3>2. CASE k # l + 1
      <4>1. k \in 1..l
        BY <3>2, <1>3
      <4> QED BY <4>1, <1>2, <1>3 DEF AheadUnmarked
    <3> QED BY <3>1, <3>2
  <2>2. i' + 1 = 1
    BY <1>1
  <2> QED BY <1>1, <1>3, <1>11, <2>1, <2>2 DEF AheadUnmarked
<1> QED BY <1>9, <1>10, <1>12 DEF WalkInv

(* Ignoring the node at hand changes nothing for what is walked already:   *)
(* the node is below none of those slots.                                  *)
LEMMA IgnoreAlike ==
  ASSUME OrderInv, pc # "idle", purpose # "clear", ~Reentered, NEW d, d = ignored \cup {top.node},
         NEW s \in 1..(Len(stack) + 1), NEW j \in 0..Len(sub[Path[s]]),
         s <= Len(stack) => j < stack[s].next
  PROVE  Agree(sub, Path[s], Visits(sub, order, ignored), Visits(sub, order, d), j)
<1> SUFFICES ASSUME NEW k \in 1..j, sub[Path[s]][k] # Nil
             PROVE  Visits(sub, order, ignored)[sub[Path[s]][k]]
                      = Visits(sub, order, d)[sub[Path[s]][k]]
  BY DEF Agree
<1> DEFINE c == sub[Path[s]][k]
<1>1. /\ sub \in Buffers /\ order \in Int /\ Founded(sub) /\ IInv
      /\ Path \in [1..(Len(stack) + 1) -> Node]
  BY WalkFacts DEF Told, Trail, OrderInv
<1>2. Path[s] \in Node
  BY <1>1
<1>3. Len(sub[Path[s]]) \in Nat /\ sub[Path[s]] \in Seq(NodeOrNil)
  BY <1>1, <1>2 DEF Buffers
<1>4. k \in 1..Len(sub[Path[s]])
  BY <1>3
<1>5. c \in Node
  BY <1>3, <1>4 DEF NodeOrNil
<1>6. s <= Len(stack) => k # stack[s].next
  <2> SUFFICES ASSUME s <= Len(stack)  PROVE k # stack[s].next
    OBVIOUS
  <2>1. s \in 1..Len(stack) /\ stack \in Seq(StackItem)
    BY WalkFacts
  <2>2. stack[s] \in StackItem
    BY <2>1
  <2>3. stack[s].next \in Nat
    BY <2>2 DEF StackItem
  <2> QED BY <2>3, <1>3, <1>4
<1>7. top.node \notin Beneath(sub, c)
  BY <1>1, <1>4, <1>6, PathOnly
<1>8. \A m \in Beneath(sub, c) : m \in ignored <=> m \in d
  BY <1>7
<1>9. Visits(sub, order, ignored)[c] = Visits(sub, order, d)[c]
  <2> HIDE DEF c
  <2>1. sub \in Buffers
    BY <1>1
  <2>2. Founded(sub)
    BY <1>1
  <2>3. order \in Int
    BY <1>1
  <2> QED BY ONLY <2>1, <2>2, <2>3, <1>5, <1>8, VisitsKept
<1> QED BY <1>9

(* The callback wants the node at hand ignored: its sub-nodes that are not *)
(* entered yet are left out.                                               *)
LEMMA IgnoreStep ==
  ASSUME OrderInv, VisitAt("positive")
  PROVE  WalkInv'
<1> SUFFICES ASSUME purpose # "clear", ~Reentered  PROVE WalkInv'
  BY DEF WalkInv, Reentered, VisitAt
<1> DEFINE f == Visits(sub, order, ignored)
           n == top.node
           c == Len(sub[n])
           g == ignored
           d == ignored \cup {n}
           h == Visits(sub, order, d)
           m == i - 1
           e == <<n>>
           w == visited \o e
<1>1. /\ pc = "at" /\ pc' = "at" /\ i < Len(sub[n]) /\ i = order
      /\ sub' = sub /\ order' = order /\ ignored' = d /\ stack' = stack /\ top' = top
      /\ i' = c /\ visited' = Append(visited, n)
  BY DEF VisitAt, OnTraversal, SubNodeCount
<1>2. /\ VisitedIs(sub, order, g, f, stack, n, i, m, visited)
      /\ Told(sub, order, g, f) /\ n \in Node /\ visited \in Seq(Node)
      /\ stack \in Seq(StackItem) /\ Waiting(sub, g, stack) /\ Trail(sub, stack, Path, root)
      /\ n = Path[Len(stack) + 1]
      /\ i \in Nat /\ order \in Int /\ MarkedLeft /\ AheadUnmarked /\ Len(sub[n]) \in Nat
  BY <1>1, WalkFacts DEF WalkSoFar, Tested
<1>3. n \notin g
  BY <1>1, <1>2 DEF MarkedLeft
<1>4. IInv /\ Len(stack) \in Nat /\ Len(stack) + 1 \in 1..(Len(stack) + 1)
      /\ (\A k \in 1..Len(stack) : k \in 1..(Len(stack) + 1) /\ Path[k] = stack[k].node)
      /\ ~(Len(stack) + 1 <= Len(stack))
  BY <1>1, PathFacts DEF OrderInv
(* No suspended node is the one at hand. *)
<1>5. \A k \in 1..Len(stack) : stack[k].node # n
  <2> TAKE k \in 1..Len(stack)
  <2>1. Path[k] # Path[Len(stack) + 1]
    BY <1>1, <1>4 DEF IInv, PathDistinct
  <2> QED BY <2>1, <1>2, <1>4
<1>6. \A k \in 1..Len(stack) : Alike(sub, g, f, d, h, stack[k].node, stack[k].next - 1)
  <2> TAKE k \in 1..Len(stack)
  <2> DEFINE a == stack[k].node
             j == stack[k].next - 1
  <2>1. /\ a \in Node /\ a \notin g /\ stack[k].next \in 1..Len(sub[a]) /\ a = Path[k]
        /\ k \in 1..(Len(stack) + 1)
    BY <1>2, <1>4 DEF Waiting
  <2>2. Len(sub[a]) \in Nat
    BY <1>2, <2>1 DEF Told, Buffers
  <2>3. j \in 0..Len(sub[Path[k]]) /\ j < stack[k].next
    BY <2>1, <2>2
  <2>4. Agree(sub, Path[k], f, h, j)
    <3> HIDE DEF j
    <3> QED BY <1>1, <2>1, <2>3, IgnoreAlike
  <2>5. a \in g <=> a \in d
    BY <1>5
  <2> QED BY <2>1, <2>3, <2>4, <2>5 DEF Alike
<1>7. Agree(sub, n, f, h, order)
  <2> DEFINE s == Len(stack) + 1
  <2>1. s \in 1..(Len(stack) + 1) /\ ~(s <= Len(stack)) /\ Path[s] = n
    BY <1>2, <1>4
  <2>2. order \in 0..Len(sub[Path[s]])
    BY <1>1, <1>2, <2>1
  <2>3. Agree(sub, Path[s], f, h, order)
    <3>1. s <= Len(stack) => order < stack[s].next
      BY <2>1
    <3>2. pc # "idle"
      BY <1>1
    <3> HIDE DEF s
    <3> QED BY <3>1, <3>2, <2>1, <2>2, IgnoreAlike
  <2> QED BY <2>1, <2>3
<1>8. Done(sub, order, d, h, n, c, c - 1) = Done(sub, order, g, f, n, i, m) \o e
  <2>1. order \in 0..(Len(sub[n]) - 1) /\ n \in d
    BY <1>1, <1>2
  <2>2. Done(sub, order, d, h, n, Len(sub[n]), Len(sub[n]) - 1)
          = Done(sub, order, g, f, n, order, order - 1) \o <<n>>
    <3> HIDE DEF f, n, c, g, d, h, m, w
    <3>1. Told(sub, order, g, f)
      BY <1>2
    <3>2. n \in Node
      BY <1>2
    <3>3. n \in d
      BY <2>1
    <3>4. order \in 0..(Len(sub[n]) - 1)
      BY <2>1
    <3>5. IgnoredAt(sub, order, g, f, d, h, n)
      BY <3>1, <3>2, <3>3, <3>4, <1>3, <1>7, DoneIgnored
    <3> QED BY <3>5 DEF IgnoredAt
  <2> QED BY <2>2, <1>1
<1>9. Done(sub, order, g, f, n, i, m) \in Seq(Node)
  <2>1. i \in 0..Len(sub[n]) /\ m \in Int /\ m <= i
    BY <1>1, <1>2
  <2> HIDE DEF f, n, m, w
  <2> QED BY <1>2, <2>1, DoneParts
<1>10. VisitedIs(sub, order, d, h, stack, n, c, c - 1, w)
  <2>1. PICK V : /\ Chain(sub, order, g, f, stack, V)
                 /\ visited = V[Len(stack) + 1] \o Done(sub, order, g, f, n, i, m)
    BY <1>2 DEF VisitedIs
  <2>2. Chain(sub, order, d, h, stack, V)
    <3> HIDE DEF f, n, g, d, h, m, w
    <3> QED BY <1>2, <1>6, <2>1, ChainKept
  <2> DEFINE v == V[Len(stack) + 1]
             t == Done(sub, order, g, f, n, i, m)
             r == Done(sub, order, d, h, n, c, c - 1)
  <2>3. v \in Seq(Node)
    <3>1. V \in [1..(Len(stack) + 1) -> Seq(Node)]
      BY <2>1 DEF Chain
    <3> QED BY <1>4, <3>1, Zenon
  <2>4. t \in Seq(Node) /\ e \in Seq(Node) /\ r = t \o e /\ visited = v \o t
    <3>1. t \in Seq(Node)
      BY <1>9
    <3>2. e \in Seq(Node)
      <4> HIDE DEF n
      <4> QED BY <1>2
    <3>3. r = t \o e
      BY <1>8
    <3>4. visited = v \o t
      BY <2>1
    <3> QED BY <3>1, <3>2, <3>3, <3>4
  <2>5. w = v \o r
    <3> HIDE DEF v, t, r, e
    <3>0. v \in Seq(Node) /\ t \in Seq(Node) /\ e \in Seq(Node)
      BY <2>3, <2>4
    <3>1. (v \o t) \o e = v \o (t \o e)
      BY <3>0, ConcatAssociative
    <3> QED BY <3>1, <2>4
  <2> QED BY <2>2, <2>5 DEF VisitedIs
<1>11. WalkSoFar'
  <2>1. Tested' = c - 1
    BY <1>1, <1>2 DEF Tested
  <2>2. visited' = w
    <3>1. visited' = Append(visited, n)
      BY <1>1
    <3>2. visited \in Seq(Node) /\ n \in Node
      BY <1>2
    <3> HIDE DEF n
    <3>3. Append(visited, n) = visited \o <<n>>
      BY ONLY <3>2
    <3> QED BY <3>1, <3>3
  <2>3. Visits(sub', order', ignored') = h
    BY <1>1
  <2> HIDE DEF w, h, d
  <2> QED BY <1>1, <1>10, <2>1, <2>2, <2>3 DEF WalkSoFar
<1>12. MarkedLeft'
  <2>1. order \in 0..(c - 1)
    BY <1>1, <1>2
  <2>2. \A k \in 1..Len(stack) : stack[k].node \notin d
    BY <1>2, <1>5 DEF MarkedLeft
  <2> QED BY <1>1, <1>2, <2>1, <2>2 DEF MarkedLeft
<1>13. AheadUnmarked'
  <2>1. Unmarked(sub, d, n, c + 1)
    BY <1>2 DEF Unmarked
  <2>2. \A k \in 1..Len(stack) : Unmarked(sub, d, stack[k].node, stack[k].next + 1)
    <3> TAKE k \in 1..Len(stack)
    <3> SUFFICES ASSUME NEW j \in (stack[k].next + 1)..Len(sub[stack[k].node])
                 PROVE  Beneath(sub, sub[stack[k].node][j]) \cap d = {}
      BY DEF Unmarked
    <3>1. Beneath(sub, sub[stack[k].node][j]) \cap g = {}
      BY <1>2 DEF AheadUnmarked, Unmarked
    <3>2. /\ stack[k].node \in Node /\ stack[k].next \in 1..Len(sub[stack[k].node])
          /\ k \in 1..(Len(stack) + 1) /\ Path[k] = stack[k].node
      BY <1>2, <1>4 DEF Waiting
    <3>3. Len(sub[stack[k].node]) \in Nat
      BY <1>2, <3>2 DEF Told, Buffers
    <3>4. j \in 1..Len(sub[Path[k]]) /\ j # stack[k].next
      BY <3>2, <3>3
    <3>5. top.node \notin Beneath(sub, sub[Path[k]][j])
      BY <1>1, <1>4, <3>2, <3>4, PathOnly
    <3> QED BY <3>1, <3>2, <3>5
  <2> QED BY <1>1, <2>1, <2>2 DEF AheadUnmarked
<1> QED BY <1>11, <1>12, <1>13 DEF WalkInv

(* A finished node gives way to the one that waits for it. *)
LEMMA BackStep ==
  ASSUME OrderInv, AtEnd, purpose # "clear", ~Reentered, PopStack(FALSE),
         UNCHANGED <<alive, sub, ignored>>,
         NEW e \in Seq(Node), visited' = visited \o e,
         Visits(sub, order, ignored)[top.node]
           = Done(sub, order, ignored, Visits(sub, order, ignored), top.node, i, i - 1) \o e
  PROVE  WalkInv'
<1>1. CASE stack = <<>>
  <2>1. pc' = "idle"
    BY <1>1 DEF PopStack, Finish
  <2> QED BY <2>1 DEF WalkInv
<1>2. CASE stack # <<>>
  <2> DEFINE f == Visits(sub, order, ignored)
             n == top.node
             m == i - 1
             q == stack
             l == Len(q)
             a == q[l].node
             x == q[l].next
             g == ignored
             w == visited
             p == stack'
  <2>1. pc # "idle" /\ pc = "at" /\ IInv /\ FALSE \in BOOLEAN
    BY DEF AtEnd, OrderInv
  <2>2. /\ l \in Nat \ {0} /\ Len(p) = l - 1 /\ p \in Seq(StackItem)
        /\ \A k \in 1..(l - 1) : p[k] = q[k]
        /\ top'.node = a /\ i' = x /\ pc' = "at" /\ order' = order /\ purpose' = purpose
    BY <1>2, <2>1, PopFacts
  <2>3. /\ VisitedIs(sub, order, g, f, q, n, i, m, w)
        /\ Told(sub, order, g, f) /\ Waiting(sub, g, q) /\ n \in Node /\ w \in Seq(Node)
        /\ q \in Seq(StackItem) /\ MarkedLeft /\ AheadUnmarked /\ i \in 0..Len(sub[n])
        /\ Len(sub[n]) \in Nat /\ n = Path[l + 1]
    BY <2>1, WalkFacts DEF WalkSoFar, Tested
  <2>4. sub[a][x] = n /\ l \in 1..l
    <3>1. l \in 1..Len(stack)
      BY <2>2
    <3>2. sub[stack[l].node][stack[l].next] = Path[l + 1]
      BY <2>1, <3>1 DEF IInv, PathLinked
    <3> QED BY <2>2, <2>3, <3>2
  <2>5. Done(sub, order, g, f, n, i, m) \in Seq(Node)
    <3>1. m \in Int /\ m <= i
      BY <2>3
    <3> HIDE DEF f, n, m
    <3> QED BY <2>3, <3>1, DoneParts
  <2>6. VisitedIs(sub, order, g, f, p, a, x, x - 1, w \o e)
    <3>1. f[n] = Done(sub, order, g, f, n, i, m) \o e
      OBVIOUS
    <3>2. q # <<>>
      BY <1>2
    <3>3. sub[q[Len(q)].node][q[Len(q)].next] = n
      BY <2>4
    <3>4. Len(p) = Len(q) - 1 /\ \A k \in 1..(Len(q) - 1) : p[k] = q[k]
      BY <2>2
    <3> HIDE DEF f, n, m, q, p, g, w, a, x, l
    <3>5. VisitedIs(sub, order, g, f, p, q[Len(q)].node, q[Len(q)].next, q[Len(q)].next - 1, w \o e)
      BY <2>2, <2>3, <2>5, <3>1, <3>2, <3>3, <3>4, ChainPop
    <3> QED BY <3>5 DEF a, x, l
  <2>7. WalkSoFar'
    <3>1. Tested' = x - 1
      BY <2>2 DEF Tested
    <3>2. Visits(sub', order', ignored') = f
      BY <2>2
    <3> HIDE DEF f, a, x
    <3> QED BY <2>2, <2>6, <3>1, <3>2 DEF WalkSoFar
  <2>8. a \notin g /\ x \in 1..Len(sub[a])
    BY <2>3, <2>4 DEF Waiting
  <2>9. MarkedLeft'
    <3>1. \A k \in 1..(l - 1) : p[k].node \notin g
      <4> TAKE k \in 1..(l - 1)
      <4>1. k \in 1..l /\ p[k] = q[k]
        BY <2>2
      <4> QED BY <4>1, <2>3 DEF MarkedLeft
    <3>2. x <= Len(sub[a])
      <4>1. sub \in Buffers
        BY <2>3 DEF Told
      <4>2. a \in Node
        BY <2>3, <2>4 DEF Waiting
      <4>3. Len(sub[a]) \in Nat
        BY <4>1, <4>2 DEF Buffers
      <4> QED BY <2>8, <4>3
    <3> HIDE DEF a, x, l
    <3> QED BY <2>2, <2>8, <3>1, <3>2 DEF MarkedLeft
  <2>10. AheadUnmarked'
    <3>1. Unmarked(sub, g, a, x + 1)
      BY <2>3, <2>4 DEF AheadUnmarked
    <3>2. \A k \in 1..(l - 1) : Unmarked(sub, g, p[k].node, p[k].next + 1)
      <4> TAKE k \in 1..(l - 1)
      <4>1. k \in 1..l /\ p[k] = q[k]
        BY <2>2
      <4> QED BY <4>1, <2>3 DEF AheadUnmarked
    <3> HIDE DEF a, x, l
    <3> QED BY <2>2, <3>1, <3>2 DEF AheadUnmarked
  <2> QED BY <2>7, <2>9, <2>10 DEF WalkInv
<1> QED BY <1>1, <1>2

(* At the end of a node its traversal is complete, but for the visit it    *)
(* gets on leaving if it had none on the way.                              *)
LEMMA AtEndDone ==
  ASSUME OrderInv, AtEnd, purpose # "clear", ~Reentered, NEW f, f = Visits(sub, order, ignored),
         NEW n, n = top.node
  PROVE  /\ i = Len(sub[n])
         /\ Done(sub, order, ignored, f, n, i, i - 1) \in Seq(Node)
         /\ PostOrder => f[n] = Done(sub, order, ignored, f, n, i, i - 1) \o <<n>>
         /\ ~PostOrder => f[n] = Done(sub, order, ignored, f, n, i, i - 1)
<1>1. pc # "idle" /\ pc = "at"
  BY DEF AtEnd
<1>2. /\ Told(sub, order, ignored, f) /\ n \in Node /\ i \in Nat /\ i \in 0..Len(sub[n])
      /\ Len(sub[n]) \in Nat /\ order \in Int
  BY <1>1, WalkFacts
<1>3. i = Len(sub[n])
  BY <1>2 DEF AtEnd, SubNodeCount
<1>4. Done(sub, order, ignored, f, n, i, i - 1) \in Seq(Node)
  <2> DEFINE m == i - 1
  <2>1. m \in Int /\ m <= i
    BY <1>2
  <2>2. Done(sub, order, ignored, f, n, i, m) \in Seq(Node)
    <3> HIDE DEF m
    <3> QED BY <1>2, <2>1, DoneParts
  <2> QED BY <2>2
<1>5. ASSUME PostOrder  PROVE f[n] = Done(sub, order, ignored, f, n, i, i - 1) \o <<n>>
  <2>1. order \notin 0..(Len(sub[n]) - 1)
    BY <1>2, <1>5 DEF PostOrder, SubNodeCount
  <2>2. IsAllBut(sub, order, ignored, f, n)
    BY <1>2, <2>1, DonePost
  <2> QED BY <1>3, <2>2 DEF IsAllBut
<1>6. ASSUME ~PostOrder  PROVE f[n] = Done(sub, order, ignored, f, n, i, i - 1)
  <2> DEFINE m == i - 1
  <2>1. ~(order < 0 \/ order >= Len(sub[n]))
    BY <1>6 DEF PostOrder, SubNodeCount
  <2>2. m \in Int /\ order \in 0..m /\ m < Len(sub[n])
    BY <1>2, <1>3, <2>1
  <2>3. f[n] = Done(sub, order, ignored, f, n, Len(sub[n]), m)
    <3> HIDE DEF m
    <3>1. Told(sub, order, ignored, f)
      BY <1>2
    <3>2. n \in Node
      BY <1>2
    <3>3. IsAll(sub, order, ignored, f, n, m)
      BY <3>1, <3>2, <2>2, DoneIn
    <3> QED BY <3>3 DEF IsAll
  <2> QED BY <1>3, <2>3
<1> QED BY <1>3, <1>4, <1>5, <1>6

(* Leaving a node that was visited on the way. *)
LEMMA LeaveOrder ==
  ASSUME OrderInv, Leave(FALSE)
  PROVE  WalkInv'
<1> SUFFICES ASSUME ~Reentered  PROVE WalkInv'
  BY DEF WalkInv, Reentered, Leave
<1>1. AtEnd /\ ~PostOrder /\ PopStack(FALSE) /\ UNCHANGED <<alive, sub, visited, ignored>>
      /\ purpose # "clear" /\ pc # "idle"
  <2>1. AtEnd /\ ~PostOrder /\ PopStack(FALSE) /\ UNCHANGED <<alive, sub, visited, ignored>>
    BY DEF Leave
  <2>2. pc # "idle"
    BY <2>1 DEF AtEnd
  <2>3. order # -1
    BY <2>1 DEF PostOrder
  <2>4. purpose # "clear"
    BY <2>2, <2>3 DEF OrderInv, IInv, LoopInv
  <2> QED BY <2>1, <2>2, <2>4
<1> DEFINE f == Visits(sub, order, ignored)
           n == top.node
           t == Done(sub, order, ignored, f, n, i, i - 1)
           e == <<>>
<1>2. t \in Seq(Node) /\ f[n] = t
  BY <1>1, AtEndDone
<1>3. t \o e = t /\ visited \o e = visited /\ e \in Seq(Node)
  <2>1. visited \in Seq(Node)
    BY <1>1, WalkFacts
  <2> HIDE DEF t
  <2> QED BY <1>2, <2>1, ConcatEmptySeq
<1>4. visited' = visited \o e /\ f[n] = t \o e
  BY <1>1, <1>2, <1>3
<1> HIDE DEF e
<1> QED BY <1>1, <1>3, <1>4, BackStep

(* With the visit. *)
LEMMA LeaveVisitOrder ==
  ASSUME OrderInv, VisitAndLeave("zero", FALSE)
  PROVE  WalkInv'
<1> SUFFICES ASSUME purpose # "clear", ~Reentered  PROVE WalkInv'
  <2> SUFFICES ASSUME purpose = "clear" \/ Reentered  PROVE WalkInv'
    OBVIOUS
  <2>1. purpose' = purpose \/ pc' = "idle"
    BY DEF VisitAndLeave, PopStack, Finish
  <2>2. Reentered => Reentered'
    BY DEF VisitAndLeave, Reentered
  <2> QED BY <2>1, <2>2 DEF WalkInv
<1>1. AtEnd /\ PostOrder /\ PopStack(FALSE) /\ UNCHANGED <<alive, sub, ignored>>
      /\ visited' = Append(visited, top.node) /\ pc # "idle"
  BY DEF VisitAndLeave, AtEnd, OnTraversal
<1> DEFINE f == Visits(sub, order, ignored)
           n == top.node
           t == Done(sub, order, ignored, f, n, i, i - 1)
           e == <<n>>
<1>2. f[n] = t \o e
  BY <1>1, AtEndDone
<1>3. visited \in Seq(Node) /\ n \in Node
  BY <1>1, WalkFacts
<1>4. visited' = visited \o e /\ e \in Seq(Node)
  <2>1. visited' = Append(visited, n)
    BY <1>1
  <2> HIDE DEF n
  <2> QED BY <1>3, <2>1
<1> HIDE DEF e
<1> QED BY <1>1, <1>2, <1>4, BackStep

(* One case per action. *)
LEMMA OrderStep ==
  ASSUME NoThrow, OrderInv, [Next]_vars
  PROVE  OrderInv'
<1>0. IInv /\ Founded(sub) /\ WalkInv
  BY DEF OrderInv
<1>1. IInv' /\ Founded(sub')
  BY <1>0, NextInv, FoundedStep
<1>2. CASE (\E n \in Node : CreateNode(n)) \/ (\E n \in Node : SetRoot(n))
           \/ \E n \in Node, idx \in 0..Slots, c \in NodeOrNil : SetSubNode(n, idx, c)
  <2>1. pc' = "idle"
    BY <1>2 DEF CreateNode, SetRoot, SetSubNode, BetweenWalks
  <2> QED BY <1>1, <2>1 DEF OrderInv, WalkInv
<1>3. CASE (\E o \in Orders : ForEach(o)) \/ Clear
  <2>1. PICK o \in Int, p \in {"each", "clear"} : StartWalk(o, p)
    BY <1>3, TreeAssumption DEF ForEach, Clear
  <2>2. WalkInv'
    BY <1>0, <2>1, StartOrder
  <2> QED BY <1>1, <2>2 DEF OrderInv
<1>4. CASE Walk
  <2>1. ASSUME NEW r \in CallbackOutcomes, VisitAt(r)  PROVE WalkInv'
    <3>1. r \in {"zero", "positive", "negative"}
      BY TreeAssumption DEF NoThrow, CallbackOutcomes
    <3>2. CASE r = "negative"
      <4>1. pc' = "idle"
        BY <2>1, <3>2 DEF VisitAt, Finish
      <4> QED BY <4>1 DEF WalkInv
    <3> QED BY <2>1, <3>1, <3>2, VisitStep, IgnoreStep
  <2>2. ASSUME NEW r \in LeaveOutcomes, VisitAndLeave(r, FALSE)  PROVE WalkInv'
    <3>1. r \in {"zero", "positive", "negative"}
      BY TreeAssumption DEF NoThrow, CallbackOutcomes, LeaveOutcomes
    <3>2. CASE r = "negative"
      <4>1. pc' = "idle"
        BY <2>2, <3>2 DEF VisitAndLeave, Finish
      <4> QED BY <4>1 DEF WalkInv
    <3>3. CASE r = "positive"
      <4>1. pc' = "idle" \/ Reentered'
        BY <2>2, <3>3 DEF VisitAndLeave, PopStack, Finish, Reentered
      <4> QED BY <4>1 DEF WalkInv
    <3> QED BY <2>2, <3>1, <3>2, <3>3, LeaveVisitOrder
  <2>3. WalkInv'
    BY <1>4, <2>1, <2>2, PassStep, SkipStep, EnterStep, LeaveOrder DEF Walk
  <2> QED BY <1>1, <2>3 DEF OrderInv
<1>5. CASE UNCHANGED vars
  <2>1. WalkInv'
    BY <1>0, <1>5 DEF WalkInv, Reentered, WalkSoFar, MarkedLeft, AheadUnmarked, Tested, vars, nodeVars, walkVars
  <2> QED BY <1>1, <2>1 DEF OrderInv
<1> QED BY <1>2, <1>3, <1>4, <1>5 DEF Next

(* It holds before anything is created. *)
LEMMA OrderInit == Init => OrderInv
<1> SUFFICES ASSUME Init  PROVE OrderInv
  OBVIOUS
<1>1. IInv
  BY InitInv
<1>2. Founded(sub)
  <2>1. \A n \in Node : sub[n] = <<>>
    BY DEF Init
  <2> QED BY <2>1 DEF Founded
<1>3. WalkInv
  BY DEF Init, WalkInv
<1> QED BY <1>1, <1>2, <1>3 DEF OrderInv

(* The inductive invariant: the tree has no circle, what is visited are    *)
(* the pieces of the nodes on the path, and nothing below a slot still to  *)
(* come is ignored.                                                        *)
THEOREM OrderInvariant ==
  ASSUME NoThrow
  PROVE  Spec => []OrderInv
<1>1. Init => OrderInv
  BY OrderInit
<1>2. OrderInv /\ [Next]_vars => OrderInv'
  BY OrderStep
<1> QED BY <1>1, <1>2, PTL DEF Spec

(* Whatever the tree and the order, what ForEach() has visited at any      *)
(* moment comes first in the traversal its comments promise: nothing       *)
(* twice, nothing out of order, nothing below an ignored node (tree.h,     *)
(* ForEach), until a callback that never throws answers > 0 on leaving a   *)
(* node and has its parent's sub-nodes walked again.                       *)
THEOREM WalksInOrder ==
  ASSUME NoThrow
  PROVE  Spec => []WalkOrder
<1>1. OrderInv => WalkOrder
  BY InOrder
<1> QED BY <1>1, OrderInvariant, PTL

(* When the loop runs out of work the whole traversal has been made. *)
LEMMA LastStep ==
  ASSUME NoThrow, OrderInv, [Next]_vars, AtEnd, stack = <<>>, purpose = "each", ~Reentered,
         pc' = "idle"
  PROVE  visited' = Below(root, ignored)
<1> DEFINE f == Visits(sub, order, ignored)
           n == top.node
           t == Done(sub, order, ignored, f, n, i, i - 1)
<1>1. /\ t \in Seq(Node)
      /\ PostOrder => f[n] = t \o <<n>>
      /\ ~PostOrder => f[n] = t
      /\ i = Len(sub[n])
  BY AtEndDone
<1>2. /\ pc = "at" /\ pc # "idle" /\ Below(root, ignored) = f[root]
  BY BelowIs DEF AtEnd
<1>3. n = root /\ n \in Node /\ visited \in Seq(Node)
  <2>1. root = Path[1] /\ n = Path[Len(stack) + 1]
    BY <1>2, PathFacts DEF OrderInv
  <2>2. Len(stack) + 1 = 1
    OBVIOUS
  <2> QED BY <1>2, <2>1, <2>2, WalkFacts
<1>4. visited = t
  <2>1. VisitedIs(sub, order, ignored, f, stack, n, i, i - 1, visited)
    BY <1>2, WalkFacts DEF WalkSoFar, Tested
  <2>2. PICK V : Chain(sub, order, ignored, f, stack, V) /\ visited = V[Len(stack) + 1] \o t
    BY <2>1 DEF VisitedIs
  <2>3. V[Len(stack) + 1] = <<>>
    <3>1. Len(stack) + 1 = 1
      OBVIOUS
    <3> QED BY <2>2, <3>1 DEF Chain
  <2> HIDE DEF t
  <2> QED BY <1>1, <2>2, <2>3, ConcatEmptySeq
<1>5. CASE Leave(FALSE)
  <2>1. visited' = visited /\ ~PostOrder
    BY <1>5 DEF Leave
  <2> HIDE DEF t
  <2> QED BY <1>1, <1>2, <1>3, <1>4, <2>1
<1>6. CASE \E r \in LeaveOutcomes : VisitAndLeave(r, FALSE)
  <2>1. visited' = Append(visited, n) /\ PostOrder
    BY <1>6 DEF VisitAndLeave, OnTraversal
  <2>2. visited' = visited \o <<n>>
    <3> HIDE DEF n
    <3> QED BY <1>3, <2>1
  <2> HIDE DEF t
  <2> QED BY <1>1, <1>2, <1>3, <1>4, <2>1, <2>2
<1>7. Leave(FALSE) \/ \E r \in LeaveOutcomes : VisitAndLeave(r, FALSE)
  <2>1. Walk
    BY <1>2 DEF Next, CreateNode, SetSubNode, SetRoot, ForEach, Clear, StartWalk, BetweenWalks,
                vars, walkVars
  <2>2. ~(i < SubNodeCount(top.node))
    BY <1>1, <1>3 DEF SubNodeCount, OrderInv, IInv, TypeOK
  <2> QED BY <2>1, <2>2, <1>2 DEF Walk, VisitAt, PassOrder, SkipNull, PushStack
<1> QED BY <1>5, <1>6, <1>7

(* When the loop of ForEach() runs out of work it has made the whole       *)
(* promised traversal (tree.h, ForEach), under the same two conditions.    *)
THEOREM WalksCompletely ==
  ASSUME NoThrow
  PROVE  Spec => WalkComplete
<1>1. OrderInv /\ [Next]_vars
        => [(AtEnd /\ stack = <<>> /\ purpose = "each" /\ stale = 0 /\ ~Reentered
             /\ pc' = "idle")
              => visited' = Below(root, ignored)]_vars
  BY LastStep
<1> QED BY <1>1, OrderInvariant, PTL DEF Spec, WalkComplete
=============================================================================

------------------------- MODULE PropertyMap_proofs --------------------------
(***************************************************************************)
(* Proofs about PropertyMap: the types, that ValCount() is right for a     *)
(* client that keeps to the rules, that no lookup loses a node, that every *)
(* node is found under its key, that every lookup comes closer to its end, *)
(* that the map implements PropertyStore, and that a ForEach tells every   *)
(* value once, under its key.                                              *)
(*                                                                         *)
(* The tree.  MapInv is inductive.  The count is right because a value     *)
(* goes or comes at a node of the tree only, so one must know that the     *)
(* nodes are a tree at all times: that the rotation of a lookup ends       *)
(* (SpineIs), that it leaves every node where the root leads to            *)
(* (RotatedTree), and that Clear() reaches them all (ClearEnds).           *)
(*                                                                         *)
(* The keys.  Every node can be given two marks: the key above it, and the *)
(* characters that its place has room for.  KeyInv, inductive as well,     *)
(* says that there are marks which fit every slot of every node            *)
(* (Marked), the place a lookup stands at (Fits) and the reference of the  *)
(* client (Refers).  A rotation only changes the room of the nodes it      *)
(* moves (MarkedRotated).  Marks make keys differ (MarksDiffer), lead a    *)
(* search for a key to its node (NodeOfFinds), and leave no node for the   *)
(* key of a lookup that comes to an empty slot (NobodyHas): what the       *)
(* abstract map needs.                                                     *)
(*                                                                         *)
(* The traversals.  BufInv adds that the key buffer spells the mark of the *)
(* node a ForEach stands on; TellInv, that the nodes are in three parts:   *)
(* the path to that node, those done, and those to do (Coloured), with the *)
(* slots of the path leading to what is done before the one at hand and to *)
(* what is to do behind it.  At the end nothing is left to do (ColourEnd). *)
(***************************************************************************)
EXTENDS PropertyMap, FiniteSetTheorems, SequenceTheorems, TLAPS

(* A tree of the nodes A: every slot of them leads to one of them or       *)
(* nowhere, no two to the same node and none to the root, and whoever      *)
(* starts at the root and follows all slots comes by all of A.             *)
Places == 1..3
Leads(S, s) == \A n \in S : \A k \in Places : s[n][k] \in S \cup {Nil}
OneParent(A, s) ==
  \A n, m \in A : \A j, k \in Places :
     (s[n][j] # Nil /\ s[n][j] = s[m][k]) => n = m /\ j = k
RootFree(A, s, r) == r # Nil => \A n \in A : \A k \in Places : s[n][k] # r
Rooted(A, s, r) == \A S \in SUBSET A : (r \in S \cup {Nil} /\ Leads(S, s)) => S = A

Tree(A, s, r) ==
  /\ r \in A \cup {Nil}
  /\ Leads(A, s)
  /\ OneParent(A, s)
  /\ RootFree(A, s, r)
  /\ Rooted(A, s, r)

(* Every node has three slots. *)
Shaped == alive \in SUBSET Node /\ IsFiniteSet(alive) /\ \A n \in alive : Len(sub[n]) = 3

TreeOK == purpose # "clear" => Tree(alive, sub, root)

(* A lookup stands at a slot of the tree, and remembers the one above. *)
SlotOK(s) == s = RootSlot \/ (s.node \in alive /\ s.idx \in 0..2)

CallSpace ==
  [op : {"get", "remove", "index", None}, key : Keys \cup {<<>>}, pos : Nat,
   cur : SlotRange, prev : SlotRange, dir : 0..2]

DataTypes ==
  /\ item \in [Node -> Nat]
  /\ val \in [Node -> Val \cup {Empty}]
  /\ valCount \in 0..(CountModulus - 1)
  /\ keyBuf \in Seq(Nat)
  /\ call \in CallSpace
  /\ tally \in {"even", "owed", "lost"}

CallOK ==
  Searching =>
    /\ pc = "idle"
    /\ call.pos \in 1..(Len(call.key) + 1)
    /\ call.op \in {"get", "remove", "index"}
    /\ call.key \in Keys
    /\ call.op = "index" => call.key # <<>>
    /\ call.key # <<>> => call.pos \in 1..Len(call.key)
    /\ SlotOK(call.cur)
    /\ call.prev # NoSlot =>
         /\ SlotOK(call.prev)
         /\ At(call.prev) = call.cur.node
         /\ call.cur.node \in alive
         /\ call.dir \in {1, 2}
         /\ call.cur.idx = 3 - call.dir

LoopOK ==
  /\ purpose \in {"each", "clear"}
  /\ pc = "idle" => purpose = "each"
  /\ purpose = "clear" => order = -1 /\ ref = Nil
  /\ pc = "past" => i < Len(sub[top.node])
  /\ ref \in alive \cup {Nil}

(* The path of Clear(), which starts above what exceptions have left.      *)
Path(k) == IF k <= Len(stack) THEN stack[k].node ELSE top.node
Steps == (stale + 1)..(Len(stack) + 1)

PathOK ==
  /\ Path(stale + 1) = root /\ root # Nil
  /\ \A k \in Steps : Path(k) \in alive
  /\ \A j, k \in Steps : Path(j) = Path(k) => j = k
  /\ \A k \in (stale + 1)..Len(stack) :
        /\ stack[k].next \in Places
        /\ sub[stack[k].node][stack[k].next] = Path(k + 1)

(* The slots Clear() is through with: nothing is alive behind them.        *)
Passed(n, j) ==
  \/ n = top.node /\ j <= i
  \/ \E k \in (stale + 1)..Len(stack) : stack[k].node = n /\ j < stack[k].next

PassedOK ==
  \A n \in alive : \A j \in Places :
     IF Passed(n, j) THEN sub[n][j] \notin alive ELSE sub[n][j] \in alive \cup {Nil}

(* What is left of the tree hangs below the path.                          *)
Within(S) == \A n \in S : \A k \in Places : sub[n][k] \in alive => sub[n][k] \in S
Left ==
  \A S \in SUBSET alive : ((\A k \in Steps : Path(k) \in S) /\ Within(S)) => S = alive

ClearOK ==
  purpose = "clear" =>
    IF Len(stack) >= stale
    THEN PathOK /\ PassedOK /\ Left /\ OneParent(alive, sub) /\ RootFree(alive, sub, root)
    ELSE alive = {}

(* The count of a client that keeps to the rules. *)
Values == Cardinality({n \in alive : Valid(n)})
CountOK ==
  purpose # "clear" =>
    /\ tally = "even" =>
         valCount = (IF call.op = "index" THEN Values + 1 ELSE Values) % CountModulus
    /\ tally = "owed" =>
         /\ ref \in alive /\ ~Valid(ref)
         /\ call.op # "index" => valCount = (Values + 1) % CountModulus

MapInv == TypeOK /\ DataTypes /\ Shaped /\ TreeOK /\ CallOK /\ LoopOK /\ ClearOK /\ CountOK

-----------------------------------------------------------------------------
(***************************************************************************)
(* The slots as a graph.                                                   *)
(***************************************************************************)
Hanging(B, s) == \A b \in B : \E p \in B : \E k \in Places : s[p][k] = b

(* Nodes each of which hangs below one of them are none: the root does not *)
(* hang anywhere, so whoever starts at it does not come by them.           *)
LEMMA NoLoop ==
  ASSUME NEW A, NEW s, NEW r, Tree(A, s, r), Nil \notin A, NEW B \in SUBSET A,
         Hanging(B, s)
  PROVE  B = {}
<1> DEFINE S == A \ B
<1>1. Leads(S, s)
  <2> SUFFICES ASSUME NEW n \in S, NEW k \in Places, s[n][k] \in B  PROVE FALSE
    BY DEF Leads, Tree
  <2>1. PICK p \in B, j \in Places : s[p][j] = s[n][k]
    BY DEF Hanging
  <2> QED BY <2>1 DEF Tree, OneParent
<1>2. r \in S \cup {Nil}
  <2> SUFFICES ASSUME r \in B  PROVE FALSE
    BY DEF Tree
  <2>1. PICK p \in B, j \in Places : s[p][j] = r
    BY DEF Hanging
  <2> QED BY <2>1 DEF Tree, RootFree
<1>3. S = A
  BY <1>1, <1>2 DEF Tree, Rooted
<1> QED BY <1>3

(* The nodes linked to n through slot k. *)
Follows(S, s, k) == \A m \in S : s[m][k] \in S \cup {Nil}
Chain(A, s, k, n) == {m \in A : \A S \in SUBSET A : (n \in S /\ Follows(S, s, k)) => m \in S}

LEMMA ChainFacts ==
  ASSUME NEW A, NEW s, NEW k, Nil \notin A, Follows(A, s, k), NEW n \in A
  PROVE  LET C == Chain(A, s, k, n)
         IN  /\ C \in SUBSET A
             /\ n \in C
             /\ Follows(C, s, k)
             /\ \A m \in C \ {n} : \E p \in C : s[p][k] = m
<1> DEFINE C == Chain(A, s, k, n)
<1>1. C \in SUBSET A /\ n \in C
  BY DEF Chain
<1>2. Follows(C, s, k)
  <2> SUFFICES ASSUME NEW m \in C, s[m][k] # Nil  PROVE s[m][k] \in C
    BY DEF Follows
  <2>1. s[m][k] \in A
    BY DEF Chain, Follows
  <2>2. ASSUME NEW S \in SUBSET A, n \in S, Follows(S, s, k)  PROVE s[m][k] \in S
    <3>1. m \in S
      BY <2>2 DEF Chain
    <3> QED BY <2>2, <3>1 DEF Follows
  <2> QED BY <2>1, <2>2 DEF Chain
<1>3. ASSUME NEW m \in C, m # n, ~ \E p \in C : s[p][k] = m  PROVE FALSE
  <2> DEFINE S == C \ {m}
  <2>1. n \in S /\ S \in SUBSET A
    BY <1>1, <1>3
  <2>2. Follows(S, s, k)
    BY <1>2, <1>3 DEF Follows
  <2> HIDE DEF S
  <2>3. m \in S
    BY <2>1, <2>2 DEF Chain
  <2> QED BY <2>3 DEF S
<1> QED BY <1>1, <1>2, <1>3

(* What hangs below a slot contains neither the node of that slot nor the  *)
(* one it hangs below.                                                     *)
LEMMA ChainBelow ==
  ASSUME NEW A, NEW s, NEW r, Tree(A, s, r), Nil \notin A,
         NEW k \in Places, NEW t \in A, NEW j \in Places, NEW n \in A, s[t][j] = n
  PROVE  /\ t \notin Chain(A, s, k, n)
         /\ \A q \in A, l \in Places : s[q][l] = t => q \notin Chain(A, s, k, n)
<1> DEFINE C == Chain(A, s, k, n)
<1>1. Follows(A, s, k)
  BY DEF Tree, Leads, Follows
<1>2. /\ C \in SUBSET A /\ n \in C
      /\ \A m \in C \ {n} : \E p \in C : s[p][k] = m
  BY <1>1, ChainFacts
<1> HIDE DEF C
<1>3. t \notin C
  <2> SUFFICES ASSUME t \in C  PROVE FALSE
    OBVIOUS
  <2>1. Hanging(C, s)
    BY <1>2 DEF Hanging
  <2> QED BY <1>2, <2>1, NoLoop
<1>4. ASSUME NEW q \in A, NEW l \in Places, s[q][l] = t, q \in C  PROVE FALSE
  <2> DEFINE B == C \cup {t}
  <2>1. Hanging(B, s)
    BY <1>2, <1>4 DEF Hanging
  <2>2. B \in SUBSET A /\ B # {}
    BY <1>2
  <2> HIDE DEF B
  <2> QED BY <2>1, <2>2, NoLoop
<1> QED BY <1>3, <1>4 DEF C

(* Of finitely many nodes not every one has a next, if no two have the     *)
(* same.                                                                   *)
LEMMA NoCycle ==
  ASSUME NEW A, IsFiniteSet(A), NEW s, NEW r, Tree(A, s, r), Nil \notin A,
         NEW k \in Places, NEW B \in SUBSET A, \A m \in B : s[m][k] \in B
  PROVE  B = {}
<1> DEFINE f == [m \in B |-> s[m][k]]
<1>1. IsFiniteSet(B)
  BY FS_Subset
<1>2. f \in [B -> B]
  OBVIOUS
<1>3. \A a, b \in B : f[a] = f[b] => a = b
  <2> SUFFICES ASSUME NEW a \in B, NEW b \in B, f[a] = f[b]  PROVE a = b
    OBVIOUS
  <2>1. s[a][k] = s[b][k] /\ s[a][k] # Nil
    OBVIOUS
  <2> QED BY <2>1 DEF Tree, OneParent
<1>4. f \in Injection(B, B)
  BY <1>2, <1>3 DEF Injection, IsInjective
<1>5. f \in Surjection(B, B)
  BY <1>1, <1>4, FS_Injection
<1>6. \A b \in B : \E p \in B : f[p] = b
  BY <1>5 DEF Surjection
<1>7. Hanging(B, s)
  BY <1>6 DEF Hanging
<1> QED BY <1>7, NoLoop

-----------------------------------------------------------------------------
(***************************************************************************)
(* The end of a chain, as Rotate looks for it.                             *)
(***************************************************************************)
Ends(A, s, k, n) == {e \in Chain(A, s, k, n) : s[e][k] = Nil}
AnyOf(S) == CHOOSE e : e \in S
Lasts(A, s, k, f) == f = [m \in A |-> IF s[m][k] = Nil THEN m ELSE f[s[m][k]]]

LEMMA EndsOf ==
  ASSUME NEW A, NEW s, NEW k, Nil \notin A, Follows(A, s, k), NEW m \in A
  PROVE  /\ s[m][k] = Nil => Ends(A, s, k, m) = {m}
         /\ s[m][k] # Nil => s[m][k] \in A /\ Ends(A, s, k, m) = Ends(A, s, k, s[m][k])
<1> DEFINE c == s[m][k]
           C == Chain(A, s, k, m)
           D == Chain(A, s, k, c)
<1>1. C \in SUBSET A /\ m \in C /\ Follows(C, s, k)
  BY ChainFacts
<1>2. CASE c = Nil
  <2>1. Follows({m}, s, k)
    BY <1>2 DEF Follows
  <2>2. C \subseteq {m}
    BY <2>1 DEF Chain
  <2> QED BY <1>1, <1>2, <2>2 DEF Ends
<1>3. CASE c # Nil
  <2>1. c \in C /\ c \in A
    BY <1>1, <1>3 DEF Follows
  <2>2. D \in SUBSET A /\ c \in D /\ Follows(D, s, k)
    BY <2>1, ChainFacts
  <2>3. D \subseteq C
    <3>1. C \in SUBSET A /\ c \in C /\ Follows(C, s, k)
      BY <1>1, <2>1
    <3> HIDE DEF C
    <3> QED BY <3>1 DEF Chain
  <2>4. C \subseteq D \cup {m}
    <3> DEFINE S == D \cup {m}
    <3>1. S \in SUBSET A /\ m \in S
      BY <2>2
    <3>2. Follows(S, s, k)
      BY <2>2 DEF Follows
    <3> HIDE DEF S
    <3>3. C \subseteq S
      BY <3>1, <3>2 DEF Chain
    <3> QED BY <3>3 DEF S
  <2> QED BY <1>3, <2>1, <2>3, <2>4 DEF Ends
<1> QED BY <1>2, <1>3

(* The search for the end of a chain has a result, for no chain is a ring. *)
LEMMA LastsExists ==
  ASSUME NEW A, NEW s, NEW k, Nil \notin A, Follows(A, s, k)
  PROVE  \E f : Lasts(A, s, k, f)
<1> DEFINE f == [m \in A |-> AnyOf(Ends(A, s, k, m))]
<1>1. ASSUME NEW m \in A
      PROVE  f[m] = IF s[m][k] = Nil THEN m ELSE f[s[m][k]]
  <2>1. CASE s[m][k] = Nil
    <3>1. Ends(A, s, k, m) = {m}
      BY <2>1, EndsOf
    <3>2. AnyOf({m}) = m
      BY DEF AnyOf
    <3> QED BY <2>1, <3>1, <3>2
  <2>2. CASE s[m][k] # Nil
    <3>1. s[m][k] \in A /\ Ends(A, s, k, m) = Ends(A, s, k, s[m][k])
      BY <2>2, EndsOf
    <3> QED BY <2>2, <3>1
  <2> QED BY <2>1, <2>2
<1>2. f = [m \in A |-> f[m]]
  OBVIOUS
<1>3. f = [m \in A |-> IF s[m][k] = Nil THEN m ELSE f[s[m][k]]]
  BY <1>1, <1>2
<1> HIDE DEF f
<1> QED BY <1>3 DEF Lasts

LEMMA SpineIs ==
  ASSUME Nil \notin alive, NEW s, NEW idx, Follows(alive, s, idx + 1),
         \A B \in SUBSET alive : (\A m \in B : s[m][idx + 1] \in B) => B = {},
         NEW n \in alive
  PROVE  /\ SpineEnd(s, n, idx) \in Chain(alive, s, idx + 1, n)
         /\ s[SpineEnd(s, n, idx)][idx + 1] = Nil
<1> DEFINE last == CHOOSE f : Lasts(alive, s, idx + 1, f)
           k == idx + 1
<1>1. SpineEnd(s, n, idx) = last[n]
  BY Zenon DEF SpineEnd, Lasts
<1>2. Lasts(alive, s, k, last)
  BY LastsExists, Zenon
<1> HIDE DEF last, k
<1>3. \A m \in alive : last[m] = IF s[m][k] = Nil THEN m ELSE last[s[m][k]]
  BY <1>2 DEF Lasts
<1> DEFINE B == {m \in alive : last[m] \notin Ends(alive, s, k, m)}
<1>4. ASSUME NEW m \in B  PROVE s[m][k] \in B
  <2>1. s[m][k] # Nil
    <3> SUFFICES ASSUME s[m][k] = Nil  PROVE FALSE
      OBVIOUS
    <3>1. Ends(alive, s, k, m) = {m}
      BY EndsOf DEF k
    <3> QED BY <1>3, <3>1
  <2>2. s[m][k] \in alive /\ Ends(alive, s, k, m) = Ends(alive, s, k, s[m][k])
    BY <2>1, EndsOf DEF k
  <2> QED BY <1>3, <2>1, <2>2
<1>5. B = {}
  <2> HIDE DEF B
  <2>1. B \in SUBSET alive
    BY DEF B
  <2> QED BY <1>4, <2>1 DEF k
<1>6. last[n] \in Ends(alive, s, k, n)
  BY <1>5
<1> QED BY <1>1, <1>6 DEF Ends, k

-----------------------------------------------------------------------------
(***************************************************************************)
(* The slots a rotation writes.                                            *)
(***************************************************************************)
Buffers == [Node -> Seq(NodeOrNil)]

(* One slot is written. *)
Wrote(x, a, k, v) == [x EXCEPT ![a][k] = v]

LEMMA ElementWritten ==
  ASSUME NEW S, NEW s \in Seq(S), NEW k \in 1..Len(s), NEW v \in S,
         NEW z, z = [s EXCEPT ![k] = v]
  PROVE  /\ z \in Seq(S) /\ Len(z) = Len(s)
         /\ \A j \in 1..Len(s) : z[j] = IF j = k THEN v ELSE s[j]
<1>1. z \in Seq(S) /\ Len(z) = Len(s)
  OBVIOUS
<1>2. \A j \in 1..Len(s) : z[j] = IF j = k THEN v ELSE s[j]
  OBVIOUS
<1> QED BY <1>1, <1>2

LEMMA Written ==
  ASSUME NEW x \in Buffers, NEW a \in Node, Len(x[a]) = 3, NEW k \in Places,
         NEW v \in NodeOrNil
  PROVE  LET y == Wrote(x, a, k, v)
         IN  /\ y \in Buffers
             /\ \A n \in Node : Len(y[n]) = Len(x[n])
             /\ \A n \in Node : \A j \in Places :
                  y[n][j] = IF n = a /\ j = k THEN v ELSE x[n][j]
<1> DEFINE y == Wrote(x, a, k, v)
           z == [x[a] EXCEPT ![k] = v]
<1>1. x[a] \in Seq(NodeOrNil) /\ k \in 1..Len(x[a])
  BY DEF Buffers, Places
<1>2. /\ z \in Seq(NodeOrNil) /\ Len(z) = 3
      /\ \A j \in Places : z[j] = IF j = k THEN v ELSE x[a][j]
  <2> DEFINE old == x[a]
  <2>1. old \in Seq(NodeOrNil) /\ Len(old) = 3 /\ k \in 1..Len(old) /\ z = [old EXCEPT ![k] = v]
    BY <1>1
  <2> HIDE DEF old, z
  <2>2. v \in NodeOrNil
    OBVIOUS
  <2>3. /\ z \in Seq(NodeOrNil) /\ Len(z) = Len(old)
        /\ \A j \in 1..Len(old) : z[j] = IF j = k THEN v ELSE old[j]
    BY <2>1, <2>2, ElementWritten
  <2> QED BY <2>1, <2>3 DEF old, Places
<1>3. y = [x EXCEPT ![a] = z]
  BY DEF Buffers, Wrote
<1> HIDE DEF z, y
<1>4. y \in Buffers
  BY <1>2, <1>3 DEF Buffers
<1>5. y[a] = z /\ \A n \in Node : n # a => y[n] = x[n]
  BY <1>3 DEF Buffers
<1>6. \A n \in Node : Len(y[n]) = Len(x[n])
  BY <1>2, <1>5
<1>7. \A n \in Node : \A j \in Places : y[n][j] = IF n = a /\ j = k THEN v ELSE x[n][j]
  BY <1>2, <1>5
<1> QED BY <1>4, <1>6, <1>7 DEF y

(* What a rotation does to the slots: t leaves its place to next, which    *)
(* leaves its own, and goes to a free slot of e.                           *)
Rotated(s, u, node, p, next, t, q, e, d) ==
  \A n \in alive : \A j \in Places :
     u[n][j] = IF n = node /\ j = p THEN next
               ELSE IF n = e /\ j = d THEN t
               ELSE IF n = t /\ j = q THEN Nil
               ELSE s[n][j]

LEMMA RotateSlots ==
  ASSUME sub \in Buffers, Shaped, Nil \notin Node,
         Tree(alive, sub, root),
         NEW target, SlotOK(target), At(target) \in alive,
         NEW q \in {1, 2}, sub[At(target)][q + 1] \in alive,
         Rotate(target, q, 3 - q)
  PROVE  \E e \in Chain(alive, sub, 3 - q + 1, sub[At(target)][q + 1]) :
            /\ sub[e][3 - q + 1] = Nil
            /\ sub' \in Buffers
            /\ \A n \in alive : Len(sub'[n]) = 3
            /\ Rotated(sub, sub', target.node, target.idx + 1, sub[At(target)][q + 1],
                       At(target), q + 1, e, 3 - q + 1)
            /\ root' = IF target.node = Nil THEN sub[At(target)][q + 1] ELSE root
<1> DEFINE t == At(target)
           next == sub[t][q + 1]
           d == 3 - q + 1
           sep == Wrote(sub, t, q + 1, Nil)
           e == SpineEnd(sep, next, 3 - q)
           moved == Wrote(sep, e, d, t)
<1>1. /\ alive \in SUBSET Node /\ \A n \in alive : Len(sub[n]) = 3
      /\ q + 1 \in Places /\ d \in Places /\ d # q + 1 /\ Nil \in NodeOrNil
      /\ Nil \notin alive /\ alive \subseteq NodeOrNil /\ IsFiniteSet(alive)
  BY DEF Shaped, Places, NodeOrNil
<1>2. /\ sep \in Buffers /\ \A n \in Node : Len(sep[n]) = Len(sub[n])
      /\ \A n \in Node : \A j \in Places :
           sep[n][j] = IF n = t /\ j = q + 1 THEN Nil ELSE sub[n][j]
  <2>1. t \in Node /\ Len(sub[t]) = 3
    BY <1>1
  <2> HIDE DEF t
  <2> QED BY <1>1, <2>1, Written
<1>3. /\ root' = IF target.node = Nil THEN next ELSE root
      /\ sub' = IF target.node = Nil THEN moved
                ELSE Wrote(moved, target.node, target.idx + 1, next)
  BY Zenon DEF Rotate, Wrote
<1>4. e \in Chain(alive, sub, d, next) /\ sub[e][d] = Nil
  <2> HIDE DEF sep, t
  <2>1. \A n \in alive : sep[n][d] = sub[n][d]
    <3> HIDE DEF d
    <3> QED BY <1>1, <1>2
  <2>2. Follows(alive, sep, d) /\ Follows(alive, sub, d)
    BY <1>1, <2>1 DEF Follows, Tree, Leads
  <2>3. \A B \in SUBSET alive : (\A m \in B : sep[m][d] \in B) => B = {}
    <3> SUFFICES ASSUME NEW B \in SUBSET alive, \A m \in B : sep[m][d] \in B
                 PROVE  B = {}
      OBVIOUS
    <3>1. \A m \in B : sub[m][d] \in B
      BY <2>1
    <3> HIDE DEF d
    <3> QED BY <1>1, <3>1, NoCycle
  <2>4. e \in Chain(alive, sep, d, next) /\ sep[e][d] = Nil
    <3> HIDE DEF next
    <3>1. next \in alive
      BY DEF next, t
    <3> QED BY <1>1, <2>2, <2>3, <3>1, SpineIs
  <2>5. Chain(alive, sep, d, next) = Chain(alive, sub, d, next)
    <3>1. \A S \in SUBSET alive : Follows(S, sep, d) <=> Follows(S, sub, d)
      BY <2>1 DEF Follows
    <3> QED BY <3>1 DEF Chain
  <2>6. e \in alive
    BY <2>4 DEF Chain
  <2> HIDE DEF e
  <2> QED BY <2>1, <2>4, <2>5, <2>6
<1>5. e \in alive /\ e \in Node /\ Len(sep[e]) = 3
  <2>1. e \in alive
    BY <1>4 DEF Chain
  <2> HIDE DEF e, sep
  <2> QED BY <1>1, <1>2, <2>1
<1> HIDE DEF e, sep
<1>6. /\ moved \in Buffers /\ \A n \in Node : Len(moved[n]) = Len(sep[n])
      /\ \A n \in Node : \A j \in Places :
           moved[n][j] = IF n = e /\ j = d THEN t ELSE sep[n][j]
  <2>1. t \in NodeOrNil
    BY <1>1
  <2> HIDE DEF t, d
  <2> QED BY <1>1, <1>2, <1>5, <2>1, Written
<1> HIDE DEF moved
<1>7. CASE target.node = Nil
  <2>1. sub' = moved
    BY <1>3, <1>7
  <2> HIDE DEF t, d, next
  <2>2. \A n \in alive : n # target.node
    BY <1>1, <1>7
  <2>3. Rotated(sub, sub', target.node, target.idx + 1, next, t, q + 1, e, d)
    BY <1>1, <1>2, <1>6, <2>1, <2>2 DEF Rotated
  <2>4. sub' \in Buffers /\ \A n \in alive : Len(sub'[n]) = 3
    BY <1>1, <1>2, <1>6, <2>1
  <2> QED BY <1>3, <1>4, <2>3, <2>4 DEF t, d, next
<1>8. CASE target.node # Nil
  <2>1. sub' = Wrote(moved, target.node, target.idx + 1, next)
    BY <1>3, <1>8
  <2>2. target.node \in alive /\ target.idx + 1 \in Places
    BY <1>8 DEF SlotOK, RootSlot, Slot, Places
  <2>3. next \in NodeOrNil
    BY <1>1
  <2> HIDE DEF t, d, next
  <2>4. /\ sub' \in Buffers /\ \A n \in Node : Len(sub'[n]) = Len(moved[n])
        /\ \A n \in Node : \A j \in Places :
             sub'[n][j] = IF n = target.node /\ j = target.idx + 1 THEN next ELSE moved[n][j]
    <3>1. target.node \in Node /\ Len(moved[target.node]) = 3
      BY <1>1, <1>2, <1>6, <2>2
    <3> QED BY <1>6, <2>1, <2>2, <2>3, <3>1, Written
  <2>5. Rotated(sub, sub', target.node, target.idx + 1, next, t, q + 1, e, d)
    BY <1>1, <1>2, <1>6, <2>4 DEF Rotated
  <2>6. \A n \in alive : Len(sub'[n]) = 3
    BY <1>1, <1>2, <1>6, <2>4
  <2> QED BY <1>3, <1>4, <2>4, <2>5, <2>6 DEF t, d, next
<1> QED BY <1>7, <1>8

-----------------------------------------------------------------------------
(***************************************************************************)
(* Trees that are changed.                                                 *)
(***************************************************************************)
(* t hangs at slot p of a node, or is the root. *)
Hangs(s, r, node, p, t) == \/ node = Nil /\ r = t
                           \/ node \in alive /\ s[node][p] = t

(* n is made and linked there. *)
Linked(s, u, node, p, n) ==
  \A m \in alive \cup {n} : \A j \in Places :
     u[m][j] = IF m = node /\ j = p THEN n ELSE IF m = n THEN Nil ELSE s[m][j]

(* A rotation neither loses a node nor makes a second way to one. *)
LEMMA RotatedTree ==
  ASSUME Nil \notin alive, NEW s, NEW r, Tree(alive, s, r),
         NEW node, NEW p \in Places, NEW t \in alive, NEW next \in alive,
         NEW q \in Places, NEW d \in Places, q # d, s[t][q] = next,
         NEW e \in Chain(alive, s, d, next), s[e][d] = Nil,
         Hangs(s, r, node, p, t),
         NEW u, Rotated(s, u, node, p, next, t, q, e, d),
         NEW v, v = IF node = Nil THEN next ELSE r
  PROVE  Tree(alive, u, v)
<1> USE DEF Hangs
<1> DEFINE C == Chain(alive, s, d, next)
<1>1. /\ Leads(alive, s) /\ OneParent(alive, s) /\ RootFree(alive, s, r)
      /\ Rooted(alive, s, r) /\ r \in alive \cup {Nil}
  BY DEF Tree
<1>2. /\ C \in SUBSET alive /\ next \in C /\ Follows(C, s, d)
  <2>1. Follows(alive, s, d)
    BY <1>1 DEF Leads, Follows
  <2> QED BY <2>1, ChainFacts
<1>3. t \notin C /\ node \notin C
  <2>1. t \notin C
    BY ChainBelow
  <2>2. node \in alive => node \notin C
    BY ChainBelow
  <2> QED BY <1>2, <2>1, <2>2
<1>4. e \in C /\ e \in alive /\ e # t /\ e # node /\ next # t
  BY <1>2, <1>3
<1>5. \A n \in alive : \A j \in Places :
        u[n][j] = IF n = node /\ j = p THEN next
                  ELSE IF n = e /\ j = d THEN t
                  ELSE IF n = t /\ j = q THEN Nil
                  ELSE s[n][j]
  BY DEF Rotated
<1>6. \A S \in SUBSET alive : (next \in S /\ Follows(S, s, d)) => e \in S
  BY DEF Chain
<1> HIDE DEF C
(* The places of t and of next before. *)
<1>7. /\ \A n \in alive, j \in Places : s[n][j] = next => n = t /\ j = q
      /\ \A n \in alive, j \in Places : s[n][j] = t => n = node /\ j = p
      /\ node = Nil => \A n \in alive, j \in Places : s[n][j] # t
      /\ r # next /\ (node # Nil => r # t)
  BY <1>1 DEF OneParent, RootFree
<1>8. v \in alive \cup {Nil} /\ Leads(alive, u)
  BY <1>1, <1>5 DEF Leads
<1>9. OneParent(alive, u)
  <2> SUFFICES ASSUME NEW n \in alive, NEW m \in alive, NEW j \in Places, NEW k \in Places,
                      u[n][j] # Nil, u[n][j] = u[m][k]
               PROVE  n = m /\ j = k
    BY DEF OneParent
  <2>1. CASE u[n][j] = next
    <3>1. ASSUME NEW a \in alive, NEW b \in Places, u[a][b] = next
          PROVE  a = node /\ b = p
      <4>1. s[a][b] = next => a = t /\ b = q
        BY <1>7
      <4>2. t \in alive /\ next # Nil
        OBVIOUS
      <4> QED BY <1>4, <1>5, <3>1, <4>1, <4>2
    <3> QED BY <2>1, <3>1
  <2>2. CASE u[n][j] = t
    <3>1. ASSUME NEW a \in alive, NEW b \in Places, u[a][b] = t
          PROVE  a = e /\ b = d
      <4>1. s[a][b] = t => a = node /\ b = p
        BY <1>7
      <4> QED BY <1>4, <1>5, <3>1, <4>1
    <3> QED BY <2>2, <3>1
  <2>3. CASE u[n][j] # next /\ u[n][j] # t
    <3>1. u[n][j] = s[n][j] /\ u[m][k] = s[m][k]
      BY <1>5, <2>3
    <3>2. s[n][j] # Nil /\ s[n][j] = s[m][k] /\ OneParent(alive, s)
      BY <1>1, <3>1
    <3> QED BY <3>2 DEF OneParent
  <2> QED BY <2>1, <2>2, <2>3
<1>10. RootFree(alive, u, v)
  <2> SUFFICES ASSUME NEW n \in alive, NEW j \in Places, u[n][j] = v, v # Nil
               PROVE  FALSE
    BY DEF RootFree
  <2>1. CASE node = Nil
    <3>1. v = next /\ n # node
      BY <2>1
    <3> QED BY <1>4, <1>5, <1>7, <3>1
  <2>2. CASE node # Nil
    <3>1. v = r /\ s[n][j] # r
      BY <1>1, <2>2 DEF RootFree
    <3> QED BY <1>5, <1>7, <2>2, <3>1
  <2> QED BY <2>1, <2>2
<1>11. Rooted(alive, u, v)
  <2> SUFFICES ASSUME NEW S \in SUBSET alive, v \in S \cup {Nil}, Leads(S, u)
               PROVE  S = alive
    BY DEF Rooted
  <2>1. CASE next \in S
    <3>1. Follows(S \cap C, s, d)
      <4> SUFFICES ASSUME NEW n \in S, n \in C, s[n][d] # Nil  PROVE s[n][d] \in S \cap C
        BY DEF Follows
      <4>1. n # node /\ n # t /\ n # e /\ n \in alive
        BY <1>2, <1>3
      <4>2. u[n][d] = s[n][d]
        BY <1>5, <4>1
      <4> QED BY <1>2, <4>2 DEF Leads, Follows
    <3>2. e \in S
      <4>1. next \in S \cap C /\ S \cap C \in SUBSET alive
        BY <1>2, <2>1
      <4> QED BY <1>6, <3>1, <4>1
    <3>3. t \in S
      <4>1. u[e][d] = t
        BY <1>4, <1>5
      <4> QED BY <3>2, <4>1 DEF Leads
    <3>4. Leads(S, s)
      <4> SUFFICES ASSUME NEW n \in S, NEW j \in Places  PROVE s[n][j] \in S \cup {Nil}
        BY DEF Leads
      <4>1. u[n][j] \in S \cup {Nil}
        BY DEF Leads
      <4> QED BY <1>5, <2>1, <3>3, <4>1
    <3>5. r \in S \cup {Nil}
      BY <3>3
    <3> QED BY <1>1, <3>4, <3>5 DEF Rooted
  <2>2. CASE next \notin S
    <3>1. node # Nil /\ node \in alive /\ s[node][p] = t
      BY <2>2
    <3>2. node \notin S
      <4>1. u[node][p] = next
        BY <1>5, <3>1
      <4> QED BY <2>2, <4>1 DEF Leads
    <3> DEFINE T == S \ {t}
    <3>3. Leads(T, s)
      <4> SUFFICES ASSUME NEW n \in T, NEW j \in Places  PROVE s[n][j] \in T \cup {Nil}
        BY DEF Leads
      <4>1. n # node /\ n # t /\ s[n][j] # t
        BY <1>7, <3>2
      <4>2. u[n][j] \in S \cup {Nil}
        BY DEF Leads
      <4> QED BY <1>5, <4>1, <4>2
    <3>4. r \in T \cup {Nil}
      BY <1>7, <3>1
    <3>5. T = alive
      BY <1>1, <3>3, <3>4 DEF Rooted
    <3> QED BY <3>5
  <2> QED BY <2>1, <2>2
<1> QED BY <1>8, <1>9, <1>10, <1>11 DEF Tree

(* A fresh node, linked where nothing was. *)
LEMMA InsertedTree ==
  ASSUME Nil \notin alive, NEW s, NEW r, Tree(alive, s, r),
         NEW n, n \notin alive, n # Nil, NEW node, NEW p \in Places,
         Hangs(s, r, node, p, Nil),
         NEW u, Linked(s, u, node, p, n),
         NEW v, v = IF node = Nil THEN n ELSE r
  PROVE  Tree(alive \cup {n}, u, v)
<1> USE DEF Hangs, Linked
<1> DEFINE A == alive \cup {n}
<1>1. /\ Leads(alive, s) /\ OneParent(alive, s) /\ RootFree(alive, s, r)
      /\ Rooted(alive, s, r) /\ r \in alive \cup {Nil}
  BY DEF Tree
<1>2. \A m \in alive, j \in Places : s[m][j] # n
  BY <1>1 DEF Leads
<1>3. node = Nil => alive = {}
  <2> SUFFICES ASSUME node = Nil  PROVE alive = {}
    OBVIOUS
  <2>1. Leads({}, s) /\ r \in {} \cup {Nil}
    BY DEF Leads
  <2> QED BY <1>1, <2>1 DEF Rooted
<1>4. v \in A \cup {Nil} /\ Leads(A, u)
  BY <1>1 DEF Leads
<1>5. OneParent(A, u)
  <2> SUFFICES ASSUME NEW a \in A, NEW b \in A, NEW j \in Places, NEW k \in Places,
                      u[a][j] # Nil, u[a][j] = u[b][k]
               PROVE  a = b /\ j = k
    BY DEF OneParent
  <2>1. CASE u[a][j] = n
    <3>1. ASSUME NEW c \in A, NEW l \in Places, u[c][l] = n
          PROVE  c = node /\ l = p
      <4>1. u[c][l] = IF c = node /\ l = p THEN n ELSE IF c = n THEN Nil ELSE s[c][l]
        OBVIOUS
      <4>2. c # n => s[c][l] # n
        BY <1>2
      <4>3. CASE c = n /\ ~(c = node /\ l = p)
        BY <3>1, <4>1, <4>3
      <4>4. CASE c # n /\ ~(c = node /\ l = p)
        BY <3>1, <4>1, <4>2, <4>4
      <4> QED BY <4>3, <4>4
    <3>2. u[b][k] = n
      BY <2>1
    <3>3. a = node /\ j = p
      BY <2>1, <3>1
    <3>4. b = node /\ k = p
      BY <3>1, <3>2
    <3> QED BY <3>3, <3>4
  <2>2. CASE u[a][j] # n
    <3>1. ASSUME NEW c \in A, NEW l \in Places, u[c][l] # Nil, u[c][l] # n
          PROVE  c \in alive /\ u[c][l] = s[c][l]
      BY <3>1
    <3>2. u[a][j] = s[a][j] /\ u[b][k] = s[b][k] /\ a \in alive /\ b \in alive
      BY <2>2, <3>1
    <3>3. s[a][j] # Nil /\ s[a][j] = s[b][k] /\ OneParent(alive, s)
      BY <1>1, <3>2
    <3> QED BY <3>2, <3>3 DEF OneParent
  <2> QED BY <2>1, <2>2
<1>6. RootFree(A, u, v)
  <2> SUFFICES ASSUME NEW a \in A, NEW j \in Places, u[a][j] = v, v # Nil
               PROVE  FALSE
    BY DEF RootFree
  <2>1. CASE node = Nil
    BY <1>3, <2>1
  <2>2. CASE node # Nil
    <3>1. v = r /\ r \in alive /\ r # n
      BY <1>1, <2>2
    <3> QED BY <1>1, <3>1 DEF RootFree
  <2> QED BY <2>1, <2>2
<1>7. Rooted(A, u, v)
  <2> SUFFICES ASSUME NEW S \in SUBSET A, v \in S \cup {Nil}, Leads(S, u)
               PROVE  S = A
    BY DEF Rooted
  <2>1. CASE node = Nil
    BY <1>3, <2>1
  <2>2. CASE node # Nil
    <3> DEFINE T == S \ {n}
    <3>1. Leads(T, s)
      <4> SUFFICES ASSUME NEW m \in T, NEW j \in Places  PROVE s[m][j] \in T \cup {Nil}
        BY DEF Leads
      <4>1. u[m][j] \in S \cup {Nil} /\ m \in alive
        BY DEF Leads
      <4> QED BY <1>2, <2>2, <4>1
    <3>2. r \in T \cup {Nil}
      BY <1>1, <2>2
    <3>3. T = alive
      BY <1>1, <3>1, <3>2 DEF Rooted
    <3>4. node \in S /\ u[node][p] = n
      BY <2>2, <3>3
    <3>5. n \in S
      BY <3>4 DEF Leads
    <3> QED BY <3>3, <3>5
  <2> QED BY <2>1, <2>2
<1> QED BY <1>4, <1>5, <1>6, <1>7 DEF Tree

-----------------------------------------------------------------------------
(***************************************************************************)
(* Counting; the initial state.                                            *)
(***************************************************************************)
LEMMA RemainderIs ==
  ASSUME NEW M \in Nat \ {0}, NEW k \in Int, NEW v \in 0..(M - 1)
  PROVE  (M * k + v) % M = v
<1> DEFINE x == M * k + v
           q == x \div M
           r == x % M
           d == k - q
<1>1. x \in Int /\ q \in Int /\ r \in 0..(M - 1) /\ x = M * q + r
  OBVIOUS
<1>2. M * d = r - v
  BY <1>1
<1> HIDE DEF x, q, r
<1>3. d \in Int /\ M * d < M /\ M * d > 0 - M
  BY <1>1, <1>2
<1> HIDE DEF d
<1>4. d = 0
  <2>1. d >= 1 => M * d >= M
    BY <1>3
  <2>2. d <= -1 => M * d <= 0 - M
    BY <1>3
  <2> QED BY <1>3, <2>1, <2>2
<1>5. r = v
  BY <1>1, <1>2, <1>4
<1> QED BY <1>5 DEF r, x

(* Counting on is possible from the remainder alone. *)
LEMMA CountOn ==
  ASSUME NEW M \in Nat \ {0}, NEW v \in Nat, NEW c \in Nat
  PROVE  ((v % M) + c) % M = (v + c) % M
<1> DEFINE q == v \div M
           y == (v % M) + c
           p == y \div M
           z == y % M
<1>1. v = M * q + (v % M) /\ v % M \in 0..(M - 1) /\ q \in Nat
  OBVIOUS
<1>2. y \in Nat
  BY <1>1
<1>3. y = M * p + z /\ z \in 0..(M - 1) /\ p \in Int
  BY <1>2
<1>4. v + c = M * q + y
  BY <1>1
<1> HIDE DEF q, y, p, z
<1>5. v + c = M * (q + p) + z /\ q + p \in Int
  BY <1>1, <1>3, <1>4
<1>6. (M * (q + p) + z) % M = z
  BY <1>3, <1>5, RemainderIs
<1> QED BY <1>5, <1>6 DEF z, y

(* So is counting back, for what was counted. *)
LEMMA CountBack ==
  ASSUME NEW M \in Nat \ {0}, NEW v \in Nat \ {0}
  PROVE  ((v % M) + M - 1) % M = (v - 1) % M
<1> DEFINE w == v - 1
           q == w \div M
           z == w % M
<1>1. ((v % M) + (M - 1)) % M = (v + (M - 1)) % M
  <2> DEFINE c == M - 1
  <2>1. c \in Nat /\ v \in Nat
    OBVIOUS
  <2> HIDE DEF c
  <2>2. ((v % M) + c) % M = (v + c) % M
    BY <2>1, CountOn
  <2> QED BY <2>2 DEF c
<1>2. w = M * q + z /\ z \in 0..(M - 1) /\ q \in Int
  OBVIOUS
<1> HIDE DEF q, z
<1>3. v + (M - 1) = M * (q + 1) + z /\ q + 1 \in Int
  BY <1>2
<1>4. (M * (q + 1) + z) % M = z
  BY <1>2, <1>3, RemainderIs
<1>5. v % M \in Int /\ (v % M) + (M - 1) = (v % M) + M - 1
  OBVIOUS
<1> QED BY <1>1, <1>3, <1>4, <1>5 DEF z

LEMMA InRange == ASSUME NEW M \in Nat \ {0}, NEW v \in Int  PROVE v % M \in 0..(M - 1)
OBVIOUS

(* One value more or less. *)
Held == {n \in alive : Valid(n)}

LEMMA Counted ==
  ASSUME IsFiniteSet(alive)
  PROVE  /\ Values \in Nat
         /\ Held' = Held => Values' = Values
         /\ \A n : n \notin Held /\ Held' = Held \cup {n} => Values' = Values + 1
         /\ \A n : n \in Held /\ Held' = Held \ {n} => Values' = Values - 1 /\ Values > 0
<1>1. IsFiniteSet(Held)
  BY FS_Subset DEF Held
<1>2. Values = Cardinality(Held) /\ Values' = Cardinality(Held')
  BY DEF Values, Held
<1>3. Values \in Nat
  BY <1>1, <1>2, FS_CardinalityType
<1>4. ASSUME NEW n, n \notin Held, Held' = Held \cup {n}
      PROVE  Values' = Values + 1
  BY <1>1, <1>2, <1>4, FS_AddElement
<1>5. ASSUME NEW n, n \in Held, Held' = Held \ {n}
      PROVE  Values' = Values - 1 /\ Values > 0
  <2>1. Values' = Values - 1
    BY <1>1, <1>2, <1>5, FS_RemoveElement
  <2>2. Values # 0
    BY <1>1, <1>2, <1>5, FS_EmptySet
  <2> QED BY <1>3, <2>1, <2>2
<1> QED BY <1>2, <1>3, <1>4, <1>5

(* Between the traversals the nodes are a tree, and a slot of it leads to  *)
(* a node of it or nowhere.                                                *)
LEMMA IdleFacts ==
  ASSUME MapInv, pc = "idle"
  PROVE  /\ purpose = "each" /\ Tree(alive, sub, root)
         /\ Nil \notin Node /\ Nil \notin alive /\ alive \subseteq Node
         /\ IsFiniteSet(alive) /\ sub \in Buffers
         /\ \A s : SlotOK(s) => At(s) \in alive \cup {Nil}
         /\ root \in alive \cup {Nil}
         /\ CountModulus \in Nat \ {0}
<1>1. /\ purpose = "each" /\ Nil \notin Node /\ alive \subseteq Node /\ IsFiniteSet(alive)
      /\ sub \in Buffers /\ CountModulus \in Nat \ {0}
  BY TreeAssumption, PropertyMapAssumption DEF MapInv, LoopOK, Shaped, TypeOK, Buffers
<1>2. Tree(alive, sub, root)
  BY <1>1 DEF MapInv, TreeOK
<1>3. ASSUME NEW s, SlotOK(s)  PROVE At(s) \in alive \cup {Nil}
  <2>1. CASE s = RootSlot
    BY <1>2, <2>1 DEF At, RootSlot, Slot, Tree
  <2>2. CASE s.node \in alive /\ s.idx \in 0..2
    <3>1. s.idx + 1 \in Places /\ s.node # Nil
      BY <1>1, <2>2 DEF Places
    <3> QED BY <1>2, <2>2, <3>1 DEF At, Tree, Leads
  <2> QED BY <1>3, <2>1, <2>2 DEF SlotOK
<1> QED BY <1>1, <1>2, <1>3 DEF Tree

LEMMA MapInit_Inv == MapInit => MapInv
<1> SUFFICES ASSUME MapInit  PROVE MapInv
  OBVIOUS
<1> USE TreeAssumption, PropertyMapAssumption DEF MapInit, Init, Item
<1>1. TypeOK
  BY DEF TypeOK, NodeOrNil, StackItem
<1>2. call \in CallSpace
  BY DEF CallSpace, NoCall, SlotRange, RootSlot, NoSlot, Slot, NodeOrNil
<1>3. DataTypes
  BY <1>2 DEF DataTypes
<1>4. Shaped
  BY FS_EmptySet DEF Shaped
<1>5. TreeOK
  BY DEF TreeOK, Tree, Leads, OneParent, RootFree, Rooted
<1>6. CallOK /\ LoopOK /\ ClearOK
  BY DEF CallOK, Searching, NoCall, LoopOK, ClearOK
<1>7. CountOK
  <2>1. Values = 0
    <3>1. {n \in alive : Valid(n)} = {}
      OBVIOUS
    <3> QED BY <3>1, FS_EmptySet DEF Values
  <2>2. call.op = None
    BY DEF NoCall
  <2>3. 0 % CountModulus = 0
    BY RemainderIs
  <2> QED BY <2>1, <2>2, <2>3 DEF CountOK
<1> QED BY <1>1, <1>3, <1>4, <1>5, <1>6, <1>7 DEF MapInv

-----------------------------------------------------------------------------
(***************************************************************************)
(* Lookups, step by step.                                                  *)
(***************************************************************************)
(* Between the traversals the walk stands still. *)
LEMMA StandsStill ==
  ASSUME MapInv, pc = "idle", UNCHANGED <<stack, top, i, order, purpose, pc, stale>>,
         ref' \in alive' \cup {Nil}
  PROVE  LoopOK' /\ ClearOK'
<1>1. purpose' = "each" /\ pc' = "idle"
  BY IdleFacts
<1> QED BY <1>1 DEF LoopOK, ClearOK

LEMMA SameTypes ==
  ASSUME MapInv, UNCHANGED <<stack, top, i, order, purpose, pc, stale>>,
         alive' \in SUBSET Node, sub' \in Buffers, root' \in NodeOrNil,
         visited' \in Seq(Node), ignored' \in SUBSET NodeOrNil
  PROVE  TypeOK'
BY DEF MapInv, TypeOK, Buffers

(* The calls of the client. *)
LEMMA CallKeeps ==
  ASSUME MapInv, NEW o \in {"get", "remove", "index"}, NEW k \in Keys, Call(o, k)
  PROVE  MapInv'
<1>1. /\ ~Searching /\ pc = "idle"
      /\ visited' = <<>> /\ ignored' = {}
      /\ UNCHANGED <<stack, top, i, order, purpose, pc, stale>>
      /\ UNCHANGED <<alive, sub, root, item, val, ref, tally, keyBuf>>
      /\ o = "index" => k # <<>>
      /\ call' = [NoCall EXCEPT !.op = o, !.key = k, !.cur = RootSlot]
      /\ valCount' = IF o = "index" THEN (valCount + 1) % CountModulus ELSE valCount
  BY DEF Call, BetweenCalls, BetweenWalks, nodeVars
<1>2. k \in Seq(Nat \ {0}) /\ Len(k) \in Nat /\ (k # <<>> => Len(k) # 0)
  <2>1. k \in Seq(Nat \ {0})
    BY PropertyMapAssumption
  <2> QED BY <2>1
<1>3. /\ call' \in CallSpace /\ call'.op = o /\ call'.key = k /\ call'.pos = 1
      /\ call'.cur = RootSlot /\ call'.prev = NoSlot
  <2>1. call' = [op |-> o, key |-> k, pos |-> 1, cur |-> RootSlot, prev |-> NoSlot, dir |-> 0]
    BY <1>1 DEF NoCall
  <2>2. RootSlot \in SlotRange /\ NoSlot \in SlotRange
    BY DEF SlotRange, RootSlot, NoSlot, Slot, NodeOrNil
  <2>3. o \in {"get", "remove", "index", None} /\ k \in Keys \cup {<<>>} /\ 1 \in Nat /\ 0 \in 0..2
    OBVIOUS
  <2> QED BY <2>1, <2>2, <2>3 DEF CallSpace
<1>4. CallOK'
  BY <1>1, <1>2, <1>3 DEF CallOK, SlotOK
<1>5. TypeOK'
  <2>1. <<>> \in Seq(Node) /\ {} \in SUBSET Node
    OBVIOUS
  <2> QED BY <1>1, <2>1, SameTypes DEF MapInv, TypeOK, Buffers
<1>6. LoopOK' /\ ClearOK'
  BY <1>1, StandsStill DEF MapInv, LoopOK
<1>7. DataTypes'
  <2>1. valCount' \in 0..(CountModulus - 1)
    <3>1. valCount \in 0..(CountModulus - 1) /\ CountModulus \in Nat \ {0}
      BY PropertyMapAssumption DEF MapInv, DataTypes
    <3>2. (valCount + 1) % CountModulus \in 0..(CountModulus - 1)
      BY <3>1, InRange
    <3> QED BY <1>1, <3>1, <3>2
  <2> QED BY <1>1, <1>3, <2>1 DEF MapInv, DataTypes
<1>8. CountOK'
  <2>1. Values \in Nat /\ Values' = Values
    <3>1. IsFiniteSet(alive) /\ Held' = Held
      BY <1>1 DEF MapInv, Shaped, Held, Valid
    <3> QED BY <3>1, Counted
  <2>2. call.op # "index" /\ purpose = "each" /\ CountModulus \in Nat \ {0}
    BY <1>1, IdleFacts, PropertyMapAssumption DEF Searching
  <2>3. tally = "even" => valCount = Values % CountModulus
    BY <2>2 DEF MapInv, CountOK
  <2>4. tally = "owed" => /\ ref \in alive /\ ~Valid(ref)
                          /\ valCount = (Values + 1) % CountModulus
    BY <2>2 DEF MapInv, CountOK
  <2>5. ((Values % CountModulus) + 1) % CountModulus = (Values + 1) % CountModulus
    BY <2>1, <2>2, CountOn
  <2> QED BY <1>1, <1>3, <2>1, <2>3, <2>4, <2>5 DEF CountOK, Valid
<1>9. Shaped' /\ TreeOK'
  BY <1>1 DEF MapInv, Shaped, TreeOK
<1> QED BY <1>4, <1>5, <1>6, <1>7, <1>8, <1>9 DEF MapInv

(* What a lookup knows at every step. *)
LEMMA SearchFacts ==
  ASSUME MapInv, Searching
  PROVE  /\ pc = "idle" /\ call \in CallSpace
         /\ call.op \in {"get", "remove", "index"} /\ call.key \in Keys
         /\ call.op = "index" => call.key # <<>>
         /\ call.key # <<>> => call.pos \in 1..Len(call.key) /\ Wanted \in Nat
         /\ SlotOK(call.cur) /\ At(call.cur) \in alive \cup {Nil}
         /\ call.key \in Seq(Nat \ {0})
<1>1. /\ pc = "idle" /\ call \in CallSpace
      /\ call.op \in {"get", "remove", "index"} /\ call.key \in Keys
      /\ call.op = "index" => call.key # <<>>
      /\ call.key # <<>> => call.pos \in 1..Len(call.key)
      /\ SlotOK(call.cur)
  BY DEF MapInv, CallOK, DataTypes
<1>2. call.key \in Seq(Nat \ {0})
  BY <1>1, PropertyMapAssumption
<1>3. ASSUME call.key # <<>>  PROVE call.key[call.pos] \in Nat
  <2> DEFINE key == call.key
             pos == call.pos
  <2>1. pos \in 1..Len(key) /\ key \in Seq(Nat \ {0})
    BY <1>1, <1>2, <1>3
  <2> HIDE DEF key, pos
  <2>2. key[pos] \in Nat
    BY <2>1
  <2> QED BY <2>2 DEF key, pos
<1> QED BY <1>1, <1>2, <1>3, IdleFacts DEF Wanted

LEMMA DescendKeeps ==
  ASSUME MapInv, Descend
  PROVE  MapInv'
<1> DEFINE n == At(call.cur)
           side == Side(n)
<1>1. /\ Searching /\ call.key # <<>> /\ n # Nil
      /\ call' = [call EXCEPT !.prev = call.cur, !.cur = Slot(n, side), !.dir = 3 - side]
      /\ UNCHANGED <<alive, sub, root, stack, top, i, order, purpose, pc, visited, ignored, stale>>
      /\ UNCHANGED <<item, val, valCount, keyBuf, ref, tally>>
  BY DEF Descend, vars, nodeVars, walkVars, dataVars, tellVars, clientVars
<1>2. n \in alive /\ n \in Node /\ pc = "idle" /\ call \in CallSpace /\ SlotOK(call.cur)
  BY <1>1, SearchFacts, IdleFacts
<1>3. side \in {1, 2}
  BY DEF Side
<1> HIDE DEF side
<1>4. /\ call' \in CallSpace /\ call'.op = call.op /\ call'.key = call.key
      /\ call'.pos = call.pos /\ call'.cur = Slot(n, side) /\ call'.prev = call.cur
      /\ call'.dir = 3 - side
  <2>1. Slot(n, side) \in SlotRange /\ 3 - side \in 0..2
    BY <1>2, <1>3 DEF Slot, SlotRange, NodeOrNil
  <2> HIDE DEF n
  <2> QED BY <1>1, <1>2, <2>1 DEF CallSpace
<1>5. CallOK'
  <2>1. SlotOK(call.cur)' /\ SlotOK(call.prev)'
    BY <1>1, <1>2, <1>3, <1>4 DEF SlotOK, Slot
  <2>2. At(call.prev)' = n /\ call'.cur.node = n /\ call'.cur.idx = side
    BY <1>1, <1>4 DEF At, Slot
  <2>3. call'.dir \in {1, 2} /\ side = 3 - call'.dir
    BY <1>3, <1>4
  <2>4. /\ call.op \in {"get", "remove", "index"} /\ call.key \in Keys
        /\ call.pos \in 1..(Len(call.key) + 1) /\ call.pos \in 1..Len(call.key)
    BY <1>1 DEF MapInv, CallOK
  <2> QED BY <1>1, <1>2, <1>4, <2>1, <2>2, <2>3, <2>4 DEF CallOK
<1>6. TypeOK' /\ LoopOK' /\ ClearOK'
  BY <1>1, <1>2, StandsStill DEF MapInv, LoopOK, TypeOK
<1>7. DataTypes' /\ Shaped' /\ TreeOK'
  BY <1>1, <1>4 DEF MapInv, DataTypes, Shaped, TreeOK
<1>8. CountOK'
  BY <1>1, <1>4 DEF MapInv, CountOK, Values, Valid
<1> QED BY <1>5, <1>6, <1>7, <1>8 DEF MapInv

LEMMA MissingKeeps ==
  ASSUME MapInv, Missing
  PROVE  MapInv'
<1>1. /\ Searching /\ (call.key = <<>> \/ call.op # "index")
      /\ call' = NoCall
      /\ UNCHANGED <<alive, sub, root, stack, top, i, order, purpose, pc, visited, ignored, stale>>
      /\ UNCHANGED <<item, val, valCount, keyBuf, ref, tally>>
  BY DEF Missing, vars, nodeVars, walkVars, dataVars, tellVars
<1>2. call' \in CallSpace /\ call'.op = None
  BY <1>1 DEF NoCall, CallSpace, SlotRange, NoSlot, Slot, NodeOrNil
<1>3. call.op # "index" /\ pc = "idle"
  BY <1>1, SearchFacts
<1>4. CallOK' /\ DataTypes' /\ Shaped' /\ TreeOK'
  BY <1>1, <1>2 DEF MapInv, CallOK, Searching, DataTypes, Shaped, TreeOK
<1>5. TypeOK' /\ LoopOK' /\ ClearOK'
  BY <1>1, <1>3, StandsStill DEF MapInv, LoopOK, TypeOK
<1>6. CountOK'
  <2>1. call'.op # "index"
    BY <1>2, PropertyMapAssumption
  <2> QED BY <1>1, <1>3, <2>1 DEF MapInv, CountOK, Values, Valid
<1> QED BY <1>4, <1>5, <1>6 DEF MapInv

(* A new node hangs in the free slot the search ended at. *)
LEMMA InsertSlots ==
  ASSUME MapInv, NEW n \in Node, Insert(n)
  PROVE  /\ sub' \in Buffers /\ \A m \in alive' : Len(sub'[m]) = 3
         /\ root' = IF call.cur.node = Nil THEN n ELSE root
         /\ \A m \in alive \cup {n} : \A j \in Places :
              sub'[m][j] = IF m = call.cur.node /\ j = call.cur.idx + 1 THEN n
                           ELSE IF m = n THEN Nil ELSE sub[m][j]
         /\ \/ call.cur.node = Nil /\ root = Nil /\ call.cur.idx = 0
            \/ /\ call.cur.node \in alive /\ call.cur.idx \in 0..2
               /\ sub[call.cur.node][call.cur.idx + 1] = Nil
<1> DEFINE a == call.cur.node
           p == call.cur.idx + 1
           s == [sub EXCEPT ![n] = <<Nil, Nil, Nil>>]
<1>1. /\ Searching /\ At(call.cur) = Nil /\ n \notin alive /\ alive' = alive \cup {n}
      /\ root' = IF a = Nil THEN n ELSE root
      /\ sub' = IF a = Nil THEN s ELSE Wrote(s, a, p, n)
  BY DEF Insert, Wrote
<1>2. /\ pc = "idle" /\ SlotOK(call.cur)
      /\ sub \in Buffers /\ Nil \notin alive /\ alive \subseteq Node
      /\ \A m \in alive : Len(sub[m]) = 3
  BY <1>1, SearchFacts, IdleFacts DEF MapInv, Shaped
<1>3. \/ a = Nil /\ root = Nil /\ call.cur.idx = 0
      \/ a \in alive /\ call.cur.idx \in 0..2 /\ sub[a][p] = Nil
  BY <1>1, <1>2 DEF SlotOK, At, RootSlot, Slot
<1>4. /\ s \in Buffers /\ \A m \in alive' : Len(s[m]) = 3
      /\ \A m \in alive \cup {n} : \A j \in Places : s[m][j] = IF m = n THEN Nil ELSE sub[m][j]
  <2>1. <<Nil, Nil, Nil>> \in Seq(NodeOrNil) /\ Len(<<Nil, Nil, Nil>>) = 3
        /\ \A j \in Places : <<Nil, Nil, Nil>>[j] = Nil
    BY DEF NodeOrNil, Places
  <2>2. s[n] = <<Nil, Nil, Nil>> /\ \A m \in Node : m # n => s[m] = sub[m]
    BY <1>2 DEF Buffers
  <2>3. s \in Buffers
    BY <1>2, <2>1 DEF Buffers
  <2> HIDE DEF s
  <2> QED BY <1>1, <1>2, <2>1, <2>2, <2>3
<1> HIDE DEF s
<1>5. CASE a = Nil
  BY <1>1, <1>2, <1>3, <1>4, <1>5
<1>6. CASE a # Nil
  <2>1. a \in alive /\ a \in Node /\ p \in Places /\ Len(s[a]) = 3 /\ n \in NodeOrNil
    BY <1>1, <1>2, <1>3, <1>4, <1>6 DEF Places, NodeOrNil
  <2> HIDE DEF a, p
  <2>2. sub' = Wrote(s, a, p, n)
    BY <1>1, <1>6
  <2>3. /\ sub' \in Buffers /\ \A m \in Node : Len(sub'[m]) = Len(s[m])
        /\ \A m \in Node : \A j \in Places :
             sub'[m][j] = IF m = a /\ j = p THEN n ELSE s[m][j]
    BY <1>4, <2>1, <2>2, Written
  <2>4. /\ \A m \in alive' : Len(sub'[m]) = 3
        /\ \A m \in alive \cup {n} : \A j \in Places :
             sub'[m][j] = IF m = a /\ j = p THEN n ELSE IF m = n THEN Nil ELSE sub[m][j]
    BY <1>1, <1>2, <1>4, <2>3
  <2> QED BY <1>1, <1>3, <2>3, <2>4 DEF a, p
<1> QED BY <1>5, <1>6

LEMMA InsertKeeps ==
  ASSUME MapInv, NEW n \in Node, Insert(n)
  PROVE  MapInv'
<1> DEFINE a == call.cur.node
           p == call.cur.idx + 1
<1>1. /\ Searching /\ call.op = "index" /\ n \notin alive /\ alive' = alive \cup {n}
      /\ item' = [item EXCEPT ![n] = Wanted] /\ val' = [val EXCEPT ![n] = Empty]
      /\ UNCHANGED <<stack, top, i, order, purpose, pc, visited, ignored, stale>>
      /\ UNCHANGED <<valCount, keyBuf, ref, tally, call>>
  BY DEF Insert, walkVars, tellVars, clientVars
<1>2. /\ pc = "idle" /\ call.key # <<>> /\ Wanted \in Nat
      /\ purpose = "each" /\ Tree(alive, sub, root)
      /\ Nil \notin Node /\ Nil \notin alive /\ alive \subseteq Node /\ IsFiniteSet(alive)
      /\ root \in alive \cup {Nil}
  BY <1>1, SearchFacts, IdleFacts
<1>3. /\ sub' \in Buffers /\ \A m \in alive' : Len(sub'[m]) = 3
      /\ root' = IF a = Nil THEN n ELSE root
      /\ \A m \in alive \cup {n} : \A j \in Places :
           sub'[m][j] = IF m = a /\ j = p THEN n ELSE IF m = n THEN Nil ELSE sub[m][j]
      /\ \/ a = Nil /\ root = Nil /\ call.cur.idx = 0
         \/ a \in alive /\ call.cur.idx \in 0..2 /\ sub[a][p] = Nil
  BY InsertSlots
<1>4. TypeOK' /\ Shaped'
  <2>1. alive' \in SUBSET Node /\ IsFiniteSet(alive') /\ root' \in NodeOrNil
    BY <1>1, <1>2, <1>3, FS_AddElement DEF NodeOrNil
  <2>2. visited' \in Seq(Node) /\ ignored' \in SUBSET NodeOrNil
    BY <1>1 DEF MapInv, TypeOK
  <2> QED BY <1>1, <1>3, <2>1, <2>2, SameTypes DEF Shaped
<1>5. TreeOK'
  <2>1. p \in Places
    BY <1>3 DEF Places
  <2>2. n # Nil
    BY <1>2
  <2> HIDE DEF a, p
  <2>3. Hangs(sub, root, a, p, Nil) /\ Linked(sub, sub', a, p, n)
    BY <1>3 DEF Hangs, Linked
  <2>4. Tree(alive \cup {n}, sub', root')
    BY <1>1, <1>2, <1>3, <2>1, <2>2, <2>3, InsertedTree
  <2> QED BY <1>1, <2>4 DEF TreeOK
<1>6. CallOK'
  <2>1. CallOK /\ SlotOK(call.cur)
    BY <1>1 DEF MapInv, CallOK
  <2>2. \A s : SlotOK(s) => SlotOK(s)'
    BY <1>1 DEF SlotOK
  <2>3. ASSUME call.prev # NoSlot
        PROVE  At(call.prev)' = At(call.prev)
    <3>1. SlotOK(call.prev) /\ At(call.prev) = a /\ a \in alive /\ a # Nil
      BY <1>1, <1>2, <2>1, <2>3 DEF CallOK
    <3>2. root' = root
      BY <1>3, <3>1
    <3>3. CASE call.prev.node = Nil
      BY <1>1, <3>2, <3>3 DEF At
    <3>4. CASE call.prev.node # Nil
      <4>1. call.prev.node \in alive /\ call.prev.idx + 1 \in Places
        BY <3>1, <3>4 DEF SlotOK, RootSlot, Slot, Places
      <4>2. sub[call.prev.node][call.prev.idx + 1] = a
        BY <3>1, <3>4 DEF At
      <4>3. sub[a][p] = Nil
        BY <1>3, <3>1
      <4>4. sub'[call.prev.node][call.prev.idx + 1] = sub[call.prev.node][call.prev.idx + 1]
        <5> HIDE DEF a, p
        <5> QED BY <1>1, <1>3, <3>1, <4>1, <4>2, <4>3
      <4> QED BY <1>1, <3>4, <4>4 DEF At
    <3> QED BY <3>3, <3>4
  <2> QED BY <1>1, <2>1, <2>2, <2>3 DEF CallOK, Searching
<1>7. LoopOK' /\ ClearOK'
  <2>1. ref' \in alive' \cup {Nil}
    BY <1>1 DEF MapInv, LoopOK
  <2> QED BY <1>1, <1>2, <2>1, StandsStill
<1>8. DataTypes'
  <2>1. item' \in [Node -> Nat] /\ val' \in [Node -> Val \cup {Empty}]
    BY <1>1, <1>2 DEF MapInv, DataTypes
  <2> QED BY <1>1, <2>1 DEF MapInv, DataTypes
<1>9. CountOK'
  <2>1. /\ val'[n] = Empty /\ \A m \in alive : val'[m] = val[m]
    BY <1>1, <1>2 DEF MapInv, DataTypes
  <2>2. Held' = Held
    BY <1>1, <2>1 DEF Held, Valid
  <2>3. Values' = Values
    BY <1>2, <2>2, Counted
  <2> QED BY <1>1, <1>2, <2>1, <2>3 DEF MapInv, CountOK, Valid
<1> QED BY <1>4, <1>5, <1>6, <1>7, <1>8, <1>9 DEF MapInv

(* The node found takes the top of its place. *)
LEMMA FoundTree ==
  ASSUME MapInv, Found
  PROVE  /\ sub' \in Buffers /\ \A m \in alive : Len(sub'[m]) = 3
         /\ Tree(alive, sub', root')
<1> DEFINE target == call.prev
           q == 3 - call.dir
           t == At(target)
           next == At(call.cur)
<1>1. /\ Searching /\ next # Nil
      /\ IF target = NoSlot THEN UNCHANGED <<root, sub>> ELSE Rotate(target, q, call.dir)
  BY DEF Found
<1>2. /\ Nil \notin Node /\ Nil \notin alive /\ sub \in Buffers /\ Tree(alive, sub, root)
      /\ next \in alive
  BY <1>1, SearchFacts, IdleFacts
<1>3. CASE target = NoSlot
  BY <1>1, <1>2, <1>3 DEF MapInv, Shaped
<1>4. CASE target # NoSlot
  <2>1. /\ SlotOK(target) /\ t = call.cur.node /\ t \in alive
        /\ call.dir \in {1, 2} /\ call.cur.idx = q
    BY <1>1, <1>4 DEF MapInv, CallOK
  <2>2. q \in {1, 2} /\ 3 - q = call.dir /\ sub[t][q + 1] = next
    BY <1>2, <2>1 DEF At
  <2>3. Rotate(target, q, 3 - q)
    BY <1>1, <1>4, <2>2
  <2>4. target.idx + 1 \in Places
    BY <2>1 DEF SlotOK, RootSlot, Slot, Places
  <2>5. Hangs(sub, root, target.node, target.idx + 1, t)
    BY <1>2, <2>1 DEF SlotOK, At, RootSlot, Slot, Hangs
  <2>6. Shaped
    BY DEF MapInv
  <2> HIDE DEF q, target
  <2>7. PICK e \in Chain(alive, sub, 3 - q + 1, next) :
            /\ sub[e][3 - q + 1] = Nil
            /\ sub' \in Buffers
            /\ \A n \in alive : Len(sub'[n]) = 3
            /\ Rotated(sub, sub', target.node, target.idx + 1, next, t, q + 1, e, 3 - q + 1)
            /\ root' = IF target.node = Nil THEN next ELSE root
    BY <1>2, <2>1, <2>2, <2>3, <2>6, RotateSlots
  <2> HIDE DEF t, next
  <2>8. q + 1 \in Places /\ 3 - q + 1 \in Places /\ q + 1 # 3 - q + 1
    BY <2>2 DEF Places
  <2>9. Tree(alive, sub', root')
    BY <1>2, <2>1, <2>2, <2>4, <2>5, <2>7, <2>8, RotatedTree
  <2> QED BY <2>7, <2>9
<1> QED BY <1>3, <1>4

(* The caller of findNode has the node: what it does with its value.       *)
LEMMA ReturnCounts ==
  ASSUME MapInv, Searching, call.key # <<>>, NEW t \in alive, Return(t),
         UNCHANGED <<alive, item, purpose, keyBuf>>
  PROVE  DataTypes' /\ CountOK' /\ call'.op = None /\ ref' \in alive \cup {Nil}
<1> DEFINE M == CountModulus
<1>1. /\ call.op \in {"get", "remove", "index"} /\ purpose = "each" /\ M \in Nat \ {0}
      /\ IsFiniteSet(alive) /\ alive \subseteq Node
      /\ val \in [Node -> Val \cup {Empty}] /\ valCount \in 0..(M - 1)
      /\ tally \in {"even", "owed", "lost"} /\ ref \in alive \cup {Nil}
  BY SearchFacts, IdleFacts DEF MapInv, DataTypes, LoopOK
<1>2. /\ call' = NoCall /\ call' \in CallSpace /\ call'.op = None
      /\ None \notin {"get", "remove", "index"}
  <2>1. call' = NoCall
    BY DEF Return
  <2> QED BY <2>1, PropertyMapAssumption
          DEF NoCall, CallSpace, SlotRange, NoSlot, Slot, NodeOrNil
<1>3. /\ Values \in Nat
      /\ tally = "even" =>
           valCount = (IF call.op = "index" THEN Values + 1 ELSE Values) % M
      /\ tally = "owed" => /\ ref \in alive /\ ~Valid(ref)
                           /\ call.op # "index" => valCount = (Values + 1) % M
  BY <1>1, Counted DEF MapInv, CountOK
<1>4. DataTypes /\ UNCHANGED <<alive, item, purpose, keyBuf>>
  BY DEF MapInv
<1>5. CASE call.op = "get"
  <2>1. UNCHANGED <<val, valCount, ref, tally>>
    BY <1>5 DEF Return
  <2>2. Values' = Values /\ (Valid(ref)' <=> Valid(ref))
    BY <1>4, <2>1 DEF Values, Valid
  <2>3. CountOK'
    BY <1>2, <1>3, <1>4, <1>5, <2>1, <2>2 DEF CountOK
  <2>4. DataTypes'
    BY <1>2, <1>4, <2>1 DEF DataTypes
  <2> QED BY <1>1, <1>2, <2>1, <2>3, <2>4
<1>6. CASE call.op = "remove"
  <2>1. /\ val' = [val EXCEPT ![t] = Empty] /\ valCount' = (valCount + M - 1) % M
        /\ tally' = (IF Valid(t) THEN tally ELSE "lost") /\ ref' = ref
    BY <1>6 DEF Return
  <2>2. val' \in [Node -> Val \cup {Empty}] /\ val'[t] = Empty
        /\ \A m \in alive : m # t => val'[m] = val[m]
    BY <1>1, <2>1
  <2>3. DataTypes'
    <3>1. valCount + M - 1 \in Int
      BY <1>1
    <3>2. valCount' \in 0..(M - 1)
      BY <1>1, <2>1, <3>1, InRange
    <3> QED BY <1>1, <1>2, <1>4, <2>1, <2>2, <3>2 DEF DataTypes
  <2>4. ASSUME Valid(t)
        PROVE  /\ Values' = Values - 1 /\ Values > 0
               /\ tally = "even" => valCount' = Values' % M
               /\ tally = "owed" => valCount' = (Values' + 1) % M
    <3>1. t \in Held /\ Held' = Held \ {t}
      BY <1>4, <2>2, <2>4 DEF Held, Valid
    <3>2. Values' = Values - 1 /\ Values > 0
      BY <1>1, <3>1, Counted
    <3>3. tally = "even" => valCount' = (Values - 1) % M
      <4>1. Values \in Nat \ {0}
        BY <1>3, <3>2
      <4>2. ((Values % M) + M - 1) % M = (Values - 1) % M
        BY <1>1, <4>1, CountBack
      <4> QED BY <1>3, <1>6, <2>1, <4>2
    <3>4. tally = "owed" => valCount' = Values % M
      <4>1. Values + 1 \in Nat \ {0} /\ (Values + 1) - 1 = Values
        BY <1>3
      <4>2. (((Values + 1) % M) + M - 1) % M = ((Values + 1) - 1) % M
        BY <1>1, <4>1, CountBack
      <4> QED BY <1>3, <1>6, <2>1, <4>1, <4>2
    <3> QED BY <1>3, <3>2, <3>3, <3>4
  <2>5. CountOK'
    <3>1. tally = "owed" => ref \in alive /\ val'[ref] = Empty
      BY <1>3, <2>2 DEF Valid
    <3> QED BY <1>2, <1>4, <2>1, <2>4, <3>1 DEF CountOK, Valid
  <2> QED BY <1>1, <1>2, <2>1, <2>3, <2>5
<1>7. CASE call.op = "index"
  <2>1. /\ UNCHANGED <<val, valCount>> /\ ref' = t
        /\ tally' = IF tally = "even" /\ ~Valid(t) THEN "owed" ELSE "lost"
    BY <1>7 DEF Return
  <2>2. Values' = Values /\ (Valid(t)' <=> Valid(t))
    BY <1>4, <2>1 DEF Values, Valid
  <2>3. CountOK'
    <3>1. ~Valid(t) => ~Valid(ref)'
      BY <2>1 DEF Valid
    <3> QED BY <1>2, <1>3, <1>4, <1>7, <2>1, <2>2, <3>1 DEF CountOK
  <2>4. DataTypes'
    BY <1>2, <1>4, <2>1 DEF DataTypes
  <2> QED BY <1>1, <1>2, <2>1, <2>3, <2>4
<1> QED BY <1>1, <1>5, <1>6, <1>7

LEMMA FoundKeeps ==
  ASSUME MapInv, Found
  PROVE  MapInv'
<1> DEFINE t == At(call.cur)
<1>1. /\ Searching /\ call.key # <<>> /\ t # Nil
      /\ UNCHANGED <<alive, item, stack, top, i, order, purpose, pc, visited, ignored, stale, keyBuf>>
      /\ IF call.pos = Len(call.key) THEN Return(t)
         ELSE /\ call' = [call EXCEPT !.pos = @ + 1, !.cur = Slot(t, 0), !.prev = NoSlot]
              /\ UNCHANGED <<val, valCount, clientVars>>
  BY DEF Found, walkVars, tellVars
<1>2. /\ t \in alive /\ pc = "idle" /\ purpose = "each" /\ alive \subseteq Node
      /\ call \in CallSpace /\ call.key \in Seq(Nat \ {0}) /\ call.pos \in 1..Len(call.key)
      /\ call.op \in {"get", "remove", "index"} /\ call.key \in Keys
  BY <1>1, SearchFacts, IdleFacts
<1> HIDE DEF t
<1>3. sub' \in Buffers /\ (\A m \in alive : Len(sub'[m]) = 3) /\ Tree(alive, sub', root')
  BY FoundTree
<1>4. Shaped' /\ TreeOK'
  BY <1>1, <1>3 DEF MapInv, Shaped, TreeOK
<1>5. TypeOK'
  <2>1. root' \in NodeOrNil /\ visited' \in Seq(Node) /\ ignored' \in SUBSET NodeOrNil
    BY <1>1, <1>2, <1>3 DEF MapInv, TypeOK, Tree, NodeOrNil
  <2> QED BY <1>1, <1>2, <1>3, <2>1, SameTypes
<1>6. CASE call.pos = Len(call.key)
  <2>1. DataTypes' /\ CountOK' /\ call'.op = None /\ ref' \in alive \cup {Nil}
    BY <1>1, <1>2, <1>6, ReturnCounts
  <2>2. CallOK'
    BY <2>1 DEF CallOK, Searching
  <2>3. LoopOK' /\ ClearOK'
    BY <1>1, <1>2, <2>1, StandsStill
  <2> QED BY <1>4, <1>5, <2>1, <2>2, <2>3 DEF MapInv
<1>7. CASE call.pos # Len(call.key)
  <2>1. /\ call' = [call EXCEPT !.pos = @ + 1, !.cur = Slot(t, 0), !.prev = NoSlot]
        /\ UNCHANGED <<val, valCount, ref, tally>>
    BY <1>1, <1>7 DEF clientVars
  <2>2. Slot(t, 0) \in SlotRange /\ NoSlot \in SlotRange /\ call.pos + 1 \in Nat
    BY <1>2 DEF Slot, SlotRange, NoSlot, NodeOrNil
  <2>3. /\ call' \in CallSpace /\ call'.op = call.op /\ call'.key = call.key
        /\ call'.pos = call.pos + 1 /\ call'.cur = Slot(t, 0) /\ call'.prev = NoSlot
    BY <1>2, <2>1, <2>2 DEF CallSpace
  <2>4. CallOK'
    <3>1. SlotOK(call.cur)'
      BY <1>1, <1>2, <2>3 DEF SlotOK, Slot
    <3>2. call.pos + 1 \in 1..Len(call.key) /\ call.pos + 1 \in 1..(Len(call.key) + 1)
      BY <1>2, <1>7
    <3> QED BY <1>1, <1>2, <2>3, <3>1, <3>2 DEF CallOK
  <2>5. LoopOK' /\ ClearOK'
    <3>1. ref' \in alive' \cup {Nil}
      BY <1>1, <2>1 DEF MapInv, LoopOK
    <3> QED BY <1>1, <1>2, <3>1, StandsStill
  <2>6. DataTypes' /\ CountOK'
    BY <1>1, <2>1, <2>3 DEF MapInv, DataTypes, CountOK, Values, Valid
  <2> QED BY <1>4, <1>5, <2>4, <2>5, <2>6 DEF MapInv
<1> QED BY <1>6, <1>7

(* Assignments of the client. *)
LEMMA AssignKeeps ==
  ASSUME MapInv, NEW v \in Val \cup {Empty}, Assign(v)
  PROVE  MapInv'
<1> DEFINE M == CountModulus
<1>1. /\ ~Searching /\ pc = "idle" /\ ref # Nil /\ visited' = <<>> /\ ignored' = {}
      /\ val' = [val EXCEPT ![ref] = v]
      /\ tally' = (IF (v # Empty) = Valid(ref) THEN tally
                   ELSE IF tally = "owed" THEN "even" ELSE "lost")
      /\ UNCHANGED <<alive, sub, root, item, valCount, ref, call, keyBuf>>
      /\ UNCHANGED <<stack, top, i, order, purpose, pc, stale>>
  BY DEF Assign, BetweenCalls, BetweenWalks, nodeVars
<1>2. /\ purpose = "each" /\ M \in Nat \ {0} /\ IsFiniteSet(alive) /\ alive \subseteq Node
      /\ ref \in alive /\ call.op # "index"
      /\ val \in [Node -> Val \cup {Empty}]
  BY <1>1, IdleFacts, PropertyMapAssumption DEF MapInv, LoopOK, DataTypes, Searching
<1>3. TypeOK' /\ Shaped' /\ TreeOK'
  <2>1. <<>> \in Seq(Node) /\ {} \in SUBSET Node
    OBVIOUS
  <2> QED BY <1>1, <2>1, SameTypes DEF MapInv, TypeOK, Buffers, Shaped, TreeOK
<1>4. CallOK' /\ LoopOK' /\ ClearOK'
  <2>1. ref' \in alive' \cup {Nil}
    BY <1>1, <1>2
  <2> QED BY <1>1, <2>1, StandsStill DEF CallOK, Searching
<1>5. val' \in [Node -> Val \cup {Empty}] /\ val'[ref] = v
      /\ \A m \in alive : m # ref => val'[m] = val[m]
  BY <1>1, <1>2
<1>6. DataTypes'
  <2>1. tally' \in {"even", "owed", "lost"}
    BY <1>1 DEF MapInv, DataTypes
  <2> QED BY <1>1, <1>5, <2>1 DEF MapInv, DataTypes
<1>7. CountOK'
  <2>1. /\ Values \in Nat
        /\ tally = "even" => valCount = Values % M
        /\ tally = "owed" => ~Valid(ref) /\ valCount = (Values + 1) % M
    BY <1>2, Counted DEF MapInv, CountOK
  <2>2. CASE (v # Empty) = Valid(ref)
    <3>1. Held' = Held
      BY <1>1, <1>2, <1>5, <2>2 DEF Held, Valid
    <3>2. Values' = Values /\ tally' = tally /\ (Valid(ref)' <=> Valid(ref))
      BY <1>1, <1>2, <1>5, <2>2, <3>1, Counted DEF Valid
    <3> QED BY <1>1, <1>2, <2>1, <3>2 DEF CountOK
  <2>3. CASE (v # Empty) # Valid(ref) /\ tally = "owed"
    <3>1. ref \notin Held /\ Held' = Held \cup {ref}
      BY <1>1, <1>2, <1>5, <2>1, <2>3 DEF Held, Valid
    <3>2. Values' = Values + 1 /\ tally' = "even"
      BY <1>1, <1>2, <2>3, <3>1, Counted
    <3> QED BY <1>1, <1>2, <2>1, <2>3, <3>2 DEF CountOK
  <2>4. CASE (v # Empty) # Valid(ref) /\ tally # "owed"
    BY <1>1, <2>4 DEF CountOK
  <2> QED BY <2>2, <2>3, <2>4
<1> QED BY <1>3, <1>4, <1>6, <1>7 DEF MapInv

-----------------------------------------------------------------------------
(***************************************************************************)
(* Traversals begin.                                                       *)
(***************************************************************************)
(* A traversal begins at the root, above what exceptions have left.        *)
LEMMA StartKeeps ==
  ASSUME MapInv, NEW o \in Int, NEW p \in {"each", "clear"}, StartMapWalk(o, p),
         p = "clear" => o = -1 /\ ref' = Nil, ref' \in {ref, Nil},
         p = "each" => ref' = ref
  PROVE  MapInv'
<1>1. /\ ~Searching /\ pc = "idle" /\ root # Nil
      /\ top' = Item(root, 0) /\ i' = 0 /\ order' = o /\ purpose' = p /\ pc' = "at"
      /\ visited' = <<>> /\ ignored' = {} /\ stale' = Len(stack)
      /\ UNCHANGED <<alive, sub, root, stack, item, val, valCount, keyBuf, tally, call>>
  BY DEF StartMapWalk, StartWalk, nodeVars, dataVars
<1>2. /\ purpose = "each" /\ Tree(alive, sub, root) /\ Nil \notin alive
      /\ root \in alive /\ alive \subseteq Node /\ ref \in alive \cup {Nil}
  BY <1>1, IdleFacts DEF MapInv, LoopOK
<1>3. stack \in Seq(StackItem) /\ Len(stack) \in Nat
  BY DEF MapInv, TypeOK
<1>4. TypeOK'
  <2>1. top' \in StackItem
    BY <1>1, <1>2 DEF Item, StackItem, NodeOrNil
  <2>2. <<>> \in Seq(Node)
    OBVIOUS
  <2> QED BY <1>1, <1>3, <2>1, <2>2 DEF MapInv, TypeOK
<1>5. DataTypes' /\ Shaped' /\ CallOK'
  BY <1>1 DEF MapInv, DataTypes, Shaped, CallOK, Searching
<1>6. TreeOK'
  BY <1>1, <1>2 DEF TreeOK
<1>7. LoopOK'
  BY <1>1, <1>2 DEF LoopOK
<1>8. ClearOK'
  <2>1. /\ Steps' = {Len(stack) + 1} /\ Path(Len(stack) + 1)' = root
        /\ ((stale + 1)..Len(stack))' = {}
    BY <1>1, <1>3 DEF Steps, Path, Item
  <2>2. PathOK'
    <3>1. ASSUME NEW k \in Steps'  PROVE Path(k)' = root /\ k = Len(stack) + 1
      <4>1. k = Len(stack) + 1
        BY <2>1
      <4> QED BY <1>1, <1>3, <4>1 DEF Path, Item
    <3> QED BY <1>1, <1>2, <2>1, <3>1 DEF PathOK
  <2>3. PassedOK'
    <3>1. \A n \in alive, j \in Places : ~Passed(n, j)'
      BY <1>1, <2>1 DEF Passed, Places
    <3> QED BY <1>1, <1>2, <3>1 DEF PassedOK, Tree, Leads
  <2>4. Left'
    <3> SUFFICES ASSUME NEW S \in SUBSET alive, root \in S, Within(S)
                 PROVE  S = alive
      BY <1>1, <2>1 DEF Left, Within
    <3>1. Leads(S, sub)
      BY <1>2 DEF Within, Leads, Tree
    <3> QED BY <1>2, <3>1 DEF Tree, Rooted
  <2> QED BY <1>1, <1>2, <1>3, <2>2, <2>3, <2>4 DEF ClearOK, Tree, OneParent, RootFree
<1>9. CountOK'
  BY <1>1, <1>2 DEF MapInv, CountOK, Values, Valid
<1> QED BY <1>4, <1>5, <1>6, <1>7, <1>8, <1>9 DEF MapInv

LEMMA ForEachKeeps ==
  ASSUME MapInv, NEW o \in Orders, MapForEach(o)
  PROVE  MapInv'
<1>1. o \in Int
  BY TreeAssumption
<1> QED BY <1>1, StartKeeps DEF MapForEach

LEMMA ClearNodesKeeps ==
  ASSUME MapInv, ClearNodes
  PROVE  MapInv'
BY StartKeeps DEF ClearNodes

LEMMA ClearCountKeeps ==
  ASSUME MapInv, ClearCount
  PROVE  MapInv'
<1>1. /\ ~Searching /\ pc = "idle" /\ root = Nil /\ visited' = <<>> /\ ignored' = {}
      /\ valCount' = 0 /\ tally' = "even"
      /\ UNCHANGED <<alive, sub, root, item, val, ref, call, keyBuf>>
      /\ UNCHANGED <<stack, top, i, order, purpose, pc, stale>>
  BY DEF ClearCount, BetweenCalls, BetweenWalks, nodeVars
<1>2. /\ purpose = "each" /\ Tree(alive, sub, root) /\ CountModulus \in Nat \ {0}
      /\ call.op # "index"
  BY <1>1, IdleFacts, PropertyMapAssumption DEF Searching
<1>3. alive = {}
  <2>1. {} \in SUBSET alive /\ Leads({}, sub) /\ root \in {} \cup {Nil}
    BY <1>1 DEF Leads
  <2> QED BY <1>2, <2>1 DEF Tree, Rooted
<1>4. TypeOK' /\ Shaped' /\ TreeOK'
  <2>1. <<>> \in Seq(Node) /\ {} \in SUBSET Node
    OBVIOUS
  <2> QED BY <1>1, <2>1, SameTypes DEF MapInv, TypeOK, Buffers, Shaped, TreeOK
<1>5. DataTypes' /\ CallOK' /\ LoopOK' /\ ClearOK'
  <2>1. ref' \in alive' \cup {Nil} /\ 0 \in 0..(CountModulus - 1)
    BY <1>1, <1>2 DEF MapInv, LoopOK
  <2> QED BY <1>1, <2>1, StandsStill DEF MapInv, DataTypes, CallOK, Searching
<1>6. CountOK'
  <2>1. Values' = 0
    <3>1. {n \in alive : Valid(n)}' = {}
      BY <1>1, <1>3
    <3> QED BY <3>1, FS_EmptySet DEF Values
  <2>2. 0 % CountModulus = 0
    BY <1>2, RemainderIs
  <2> QED BY <1>1, <1>2, <2>1, <2>2 DEF CountOK
<1> QED BY <1>4, <1>5, <1>6 DEF MapInv

-----------------------------------------------------------------------------
(***************************************************************************)
(* The types along a traversal.                                            *)
(***************************************************************************)
(* The key buffer. *)
LEMMA BufferPushed ==
  ASSUME NEW buf \in Seq(Nat), NEW c \in Nat
  PROVE  PushKeyItem(buf, c) \in Seq(Nat)
<1>1. CASE buf = <<>>
  BY <1>1 DEF PushKeyItem
<1>2. CASE buf # <<>>
  <2>1. Len(buf) \in 1..Len(buf)
    BY <1>2
  <2> DEFINE k == Len(buf)
  <2> HIDE DEF k
  <2>2. k \in 1..Len(buf)
    BY <2>1 DEF k
  <2>3. [buf EXCEPT ![k] = c] \in Seq(Nat)
    BY <2>2
  <2> QED BY <1>2, <2>3 DEF PushKeyItem, k
<1> QED BY <1>1, <1>2

LEMMA BufferPopped ==
  ASSUME NEW buf \in Seq(Nat)
  PROVE  PopKeyItem(buf) \in Seq(Nat)
<1>1. CASE Len(buf) > 1
  <2> DEFINE s == SubSeq(buf, 1, Len(buf) - 1)
         k == Len(buf) - 1
  <2>1. k \in 1..Len(buf)
    BY <1>1
  <2>a. s \in Seq(Nat) /\ Len(s) = k
    BY <2>1
  <2> HIDE DEF s, k
  <2>2. [s EXCEPT ![k] = 0] \in Seq(Nat)
    BY <2>1, <2>a
  <2> QED BY <1>1, <2>2 DEF PopKeyItem, s, k
<1>2. CASE ~(Len(buf) > 1)
  BY <1>2 DEF PopKeyItem
<1> QED BY <1>1, <1>2

LEMMA BufferType ==
  ASSUME MapInv, MapWalk
  PROVE  keyBuf' \in Seq(Nat)
<1>1. keyBuf \in Seq(Nat) /\ item[top.node] \in Nat
  BY DEF MapInv, DataTypes, MapWalk, Shaped
<1>2. \A r : KeyBufAfter(r) \in Seq(Nat)
  <2>1. PushKeyItem(keyBuf, item[top.node]) \in Seq(Nat)
    BY <1>1, BufferPushed
  <2>2. PopKeyItem(PushKeyItem(keyBuf, item[top.node])) \in Seq(Nat)
    BY <2>1, BufferPopped
  <2> QED BY <1>1, <2>1, <2>2 DEF KeyBufAfter
<1>3. \A buf \in Seq(Nat) : AfterPopStack(buf) \in Seq(Nat)
  BY BufferPopped DEF AfterPopStack
<1>4. OnPushStack(keyBuf) \in Seq(Nat)
  BY <1>1, BufferPushed DEF OnPushStack
<1> QED BY <1>1, <1>2, <1>3, <1>4 DEF MapWalk, tellVars

(* The walk in the middle of which a step is made. *)
LEMMA WalkFacts ==
  ASSUME MapInv, MapWalk
  PROVE  /\ pc \in {"at", "past"} /\ top.node \in alive /\ ~Searching
         /\ purpose \in {"each", "clear"}
         /\ i \in Nat /\ Len(sub[top.node]) = 3 /\ sub \in Buffers
         /\ stack \in Seq(StackItem) /\ Len(stack) \in Nat /\ top \in StackItem
         /\ visited \in Seq(Node) /\ ignored \in SUBSET NodeOrNil /\ root \in NodeOrNil
         /\ alive \in SUBSET Node /\ Nil \notin Node /\ stale \in Nat /\ order \in Int
         /\ pc = "past" => i \in 0..2
         /\ UNCHANGED <<ref, call>>
         /\ \A n \in alive' : item'[n] = item[n] /\ val'[n] = val[n]
<1>1. pc # "idle" /\ top.node \in alive
  BY DEF MapWalk
<1>2. pc \in {"at", "past"} /\ ~Searching
  BY <1>1 DEF MapInv, TypeOK, CallOK
<1>3. Len(sub[top.node]) = 3 /\ (pc = "past" => i < 3)
  BY <1>1 DEF MapInv, Shaped, LoopOK
<1>4. /\ i \in Nat /\ sub \in Buffers /\ stack \in Seq(StackItem) /\ top \in StackItem
      /\ visited \in Seq(Node) /\ ignored \in SUBSET NodeOrNil /\ root \in NodeOrNil
      /\ alive \in SUBSET Node /\ Nil \notin Node /\ stale \in Nat /\ order \in Int
      /\ purpose \in {"each", "clear"}
  BY TreeAssumption DEF MapInv, TypeOK, Buffers, LoopOK
<1>5. alive' \in SUBSET Node
  BY <1>4 DEF MapWalk, VisitAt, VisitAndLeave, OnTraversal, PassOrder, SkipNull, PushStack,
              Leave, nodeVars
<1>6. \A n \in alive' : item'[n] = item[n] /\ val'[n] = val[n]
  BY <1>5 DEF MapWalk
<1>7. UNCHANGED <<ref, call>>
  BY DEF MapWalk
<1> QED BY <1>1, <1>2, <1>3, <1>4, <1>6, <1>7

(* The steps of it. *)
Visits == \E r \in Answers : VisitAt(r)
Leaves == \E r \in Answers : VisitAndLeave(r, FALSE)

LEMMA WalkSteps ==
  ASSUME MapWalk
  PROVE  Visits \/ PassOrder \/ SkipNull \/ PushStack \/ Leave(FALSE) \/ Leaves
BY DEF MapWalk, Visits, Leaves

(* What the end of a node does to the stack. *)
LEMMA PopTypes ==
  ASSUME MapInv, MapWalk, PopStack(FALSE)
  PROVE  /\ stack' \in Seq(StackItem) /\ top' \in StackItem /\ i' \in Nat /\ pc' \in {"at", "idle"}
         /\ root' \in {root, Nil} /\ order' \in {order, 0} /\ purpose' \in {purpose, "each"}
         /\ stale' \in Nat
<1>1. stack \in Seq(StackItem) /\ stale \in Nat /\ Nil \in NodeOrNil
  BY WalkFacts DEF NodeOrNil
<1>2. CASE stack = <<>>
  BY <1>1, <1>2 DEF PopStack, Finish, Item, StackItem
<1>3. CASE stack # <<>>
  <2> DEFINE back == stack[Len(stack)]
  <2>1. back \in StackItem /\ SubSeq(stack, 1, Len(stack) - 1) \in Seq(StackItem)
    BY <1>1, <1>3
  <2>2. /\ stack' = SubSeq(stack, 1, Len(stack) - 1)
        /\ top' = Item(back.node, back.next) /\ i' = back.next /\ pc' = "at"
        /\ UNCHANGED <<root, order, purpose, stale>>
    BY <1>3 DEF PopStack
  <2> HIDE DEF back
  <2>3. top' \in StackItem /\ i' \in Nat
    BY <2>1, <2>2 DEF Item, StackItem
  <2>4. stack' \in Seq(StackItem)
    BY <2>1, <2>2
  <2>5. root' = root /\ order' = order /\ purpose' = purpose /\ stale' \in Nat /\ pc' = "at"
    BY <1>1, <2>2
  <2> QED BY <2>3, <2>4, <2>5
<1> QED BY <1>2, <1>3

LEMMA EndTypes ==
  ASSUME MapInv, MapWalk, Finish \/ Unwind
  PROVE  /\ stack' \in Seq(StackItem) /\ top' \in StackItem /\ i' \in Nat /\ pc' = "idle"
         /\ root' \in {root, Nil} /\ order' = 0 /\ purpose' = "each" /\ stale' = 0
<1>1. stack \in Seq(StackItem)
  BY WalkFacts
<1>2. Item(Nil, 0) \in StackItem /\ <<>> \in Seq(StackItem)
  BY DEF Item, StackItem, NodeOrNil
<1>3. CASE Finish
  BY <1>2, <1>3 DEF Finish
<1>4. CASE Unwind
  BY <1>1, <1>2, <1>4 DEF Unwind
<1> QED BY <1>3, <1>4

LEMMA WalkTypes ==
  ASSUME MapInv, MapWalk
  PROVE  TypeOK' /\ DataTypes'
<1> DEFINE n == top.node
<1>0. /\ pc \in {"at", "past"} /\ n \in alive /\ n \in Node
      /\ i \in Nat /\ Len(sub[n]) = 3 /\ sub \in Buffers
      /\ stack \in Seq(StackItem) /\ top \in StackItem
      /\ visited \in Seq(Node) /\ ignored \in SUBSET NodeOrNil /\ root \in NodeOrNil
      /\ alive \in SUBSET Node /\ stale \in Nat /\ order \in Int
      /\ purpose \in {"each", "clear"} /\ Nil \in NodeOrNil
      /\ pc = "past" => i \in 0..2
  BY WalkFacts DEF NodeOrNil
<1>a. OnTraversal => /\ visited' \in Seq(Node) /\ alive' \in SUBSET Node /\ sub' \in Buffers
  <2> SUFFICES ASSUME OnTraversal
               PROVE  visited' \in Seq(Node) /\ alive' \in SUBSET Node /\ sub' \in Buffers
    OBVIOUS
  <2>1. visited' = Append(visited, n)
    BY DEF OnTraversal
  <2>2. \/ alive' = alive \ {n} /\ sub' = [sub EXCEPT ![n] = <<>>]
        \/ alive' = alive /\ sub' = sub
    BY DEF OnTraversal
  <2>3. <<>> \in Seq(NodeOrNil)
    OBVIOUS
  <2> HIDE DEF n
  <2>4. [sub EXCEPT ![n] = <<>>] \in Buffers
    BY <1>0, <2>3 DEF Buffers
  <2> QED BY <1>0, <2>1, <2>2, <2>4
<1>b. ASSUME Finish \/ Unwind
      PROVE  /\ stack' \in Seq(StackItem) /\ top' \in StackItem /\ i' \in Nat /\ pc' = "idle"
             /\ root' \in NodeOrNil /\ order' \in Int /\ purpose' = "each" /\ stale' \in Nat
  <2>1. /\ stack' \in Seq(StackItem) /\ top' \in StackItem /\ i' \in Nat /\ pc' = "idle"
        /\ root' \in {root, Nil} /\ order' = 0 /\ purpose' = "each" /\ stale' = 0
    BY <1>b, EndTypes
  <2> QED BY <1>0, <2>1
<1>1. ASSUME Visits  PROVE TypeOK'
  <2>1. PICK r \in Answers : VisitAt(r)
    BY <1>1 DEF Visits
  <2>2. /\ visited' \in Seq(Node) /\ alive' \in SUBSET Node /\ sub' \in Buffers
        /\ ignored' \in SUBSET NodeOrNil
    BY <1>0, <1>a, <2>1 DEF VisitAt, NodeOrNil
  <2>3. CASE Finish \/ Unwind
    BY <1>b, <2>2, <2>3 DEF TypeOK, Buffers
  <2>4. CASE ~(Finish \/ Unwind)
    <3>1. /\ UNCHANGED <<root, stack, top, order, purpose, stale>>
          /\ i' \in Nat /\ pc' \in {"at", "past"}
      BY <1>0, <2>1, <2>4 DEF VisitAt, SubNodeCount
    <3> QED BY <1>0, <2>2, <3>1 DEF TypeOK, Buffers
  <2> QED BY <2>3, <2>4
<1>2. ASSUME PassOrder  PROVE TypeOK'
  BY <1>0, <1>2 DEF PassOrder, nodeVars, TypeOK, Buffers
<1>3. ASSUME SkipNull  PROVE TypeOK'
  BY <1>0, <1>3 DEF SkipNull, nodeVars, TypeOK, Buffers
<1>4. ASSUME PushStack  PROVE TypeOK'
  <2>1. sub[n] \in Seq(NodeOrNil) /\ i + 1 \in 1..Len(sub[n])
    BY <1>0, <1>4 DEF PushStack, Buffers
  <2>2. sub[n][i + 1] \in NodeOrNil
    BY <2>1
  <2>3. Item(n, i + 1) \in StackItem /\ Item(sub[n][i + 1], 0) \in StackItem
    BY <1>0, <2>2 DEF Item, StackItem, NodeOrNil
  <2>4. /\ stack' = Append(stack, Item(n, i + 1)) /\ top' = Item(sub[n][i + 1], 0)
        /\ i' = 0 /\ pc' = "at"
        /\ UNCHANGED <<alive, sub, root, order, purpose, visited, ignored, stale>>
    BY <1>4 DEF PushStack, nodeVars
  <2>5. stack' \in Seq(StackItem)
    BY <1>0, <2>3, <2>4
  <2> QED BY <1>0, <2>3, <2>4, <2>5 DEF TypeOK, Buffers
<1>5. ASSUME Leave(FALSE)  PROVE TypeOK'
  <2>1. PopStack(FALSE) /\ UNCHANGED <<alive, sub, visited, ignored>>
    BY <1>5 DEF Leave
  <2> QED BY <1>0, <2>1, PopTypes DEF TypeOK, Buffers
<1>6. ASSUME Leaves  PROVE TypeOK'
  <2>1. PICK r \in Answers : VisitAndLeave(r, FALSE)
    BY <1>6 DEF Leaves
  <2>2. /\ visited' \in Seq(Node) /\ alive' \in SUBSET Node /\ sub' \in Buffers
        /\ ignored' \in SUBSET NodeOrNil
    BY <1>0, <1>a, <2>1 DEF VisitAndLeave, NodeOrNil
  <2>3. CASE Finish \/ Unwind
    BY <1>b, <2>2, <2>3 DEF TypeOK, Buffers
  <2>4. CASE PopStack(FALSE)
    BY <1>0, <2>2, <2>4, PopTypes DEF TypeOK, Buffers
  <2>5. CASE PopStack(TRUE) /\ r = "positive"
    <3>1. FALSE
      BY <2>1, <2>5 DEF VisitAndLeave, Answers, Told, AtEnd
    <3> QED BY <3>1
  <2> QED BY <2>1, <2>3, <2>4, <2>5 DEF VisitAndLeave
<1>7. DataTypes'
  <2>1. keyBuf' \in Seq(Nat) /\ UNCHANGED <<call>>
    BY BufferType DEF MapWalk
  <2>2. valCount' \in 0..(CountModulus - 1) /\ tally' \in {"even", "owed", "lost"}
    BY PropertyMapAssumption DEF MapInv, DataTypes, MapWalk, CountAfter
  <2>3. item' \in [Node -> Nat] /\ val' \in [Node -> Val \cup {Empty}]
    BY DEF MapInv, DataTypes, MapWalk
  <2> QED BY <2>1, <2>2, <2>3 DEF MapInv, DataTypes
<1> QED BY <1>1, <1>2, <1>3, <1>4, <1>5, <1>6, <1>7, WalkSteps

-----------------------------------------------------------------------------
(***************************************************************************)
(* A traversal goes on.                                                    *)
(***************************************************************************)
(* A traversal that does not destroy leaves the tree as it is.             *)
LEMMA EachStep ==
  ASSUME MapInv, MapWalk, purpose = "each"
  PROVE  /\ UNCHANGED <<alive, sub, root>> /\ purpose' = "each"
         /\ pc' = "past" => i' < Len(sub'[top'.node])
<1>1. CASE Visits
  <2>1. PICK r \in Answers : VisitAt(r)
    BY <1>1 DEF Visits
  <2>2. UNCHANGED <<alive, sub>> /\ i < Len(sub[top.node])
    BY <2>1 DEF VisitAt, OnTraversal, SubNodeCount
  <2>3. CASE Finish \/ Unwind
    BY <2>2, <2>3 DEF Finish, Unwind
  <2>4. CASE ~(Finish \/ Unwind)
    <3>1. UNCHANGED <<root, top, purpose>> /\ (pc' = "past" => i' = i)
      <4>1. CASE r = "zero"
        BY <2>1, <2>4, <4>1 DEF VisitAt
      <4>2. CASE r # "zero"
        BY <2>1, <2>4, <4>2 DEF VisitAt
      <4> QED BY <4>1, <4>2
    <3> QED BY <2>2, <3>1
  <2> QED BY <2>3, <2>4
<1>2. CASE PassOrder
  BY <1>2 DEF PassOrder, nodeVars, SubNodeCount
<1>3. CASE SkipNull
  BY <1>3 DEF SkipNull, nodeVars
<1>4. CASE PushStack
  BY <1>4 DEF PushStack, nodeVars
<1>5. CASE Leave(FALSE)
  BY <1>5 DEF Leave, PopStack, Finish
<1>6. CASE Leaves
  <2>1. PICK r \in Answers : VisitAndLeave(r, FALSE)
    BY <1>6 DEF Leaves
  <2>2. UNCHANGED <<alive, sub>>
    BY <2>1 DEF VisitAndLeave, OnTraversal
  <2>3. Finish \/ Unwind \/ PopStack(r = "positive" \/ FALSE)
    BY <2>1 DEF VisitAndLeave
  <2> QED BY <2>2, <2>3 DEF PopStack, Finish, Unwind
<1> QED BY <1>1, <1>2, <1>3, <1>4, <1>5, <1>6, WalkSteps

LEMMA EachKeeps ==
  ASSUME MapInv, MapWalk, purpose = "each"
  PROVE  MapInv'
<1>1. /\ UNCHANGED <<alive, sub, root, ref, call, valCount, tally>> /\ purpose' = "each"
      /\ pc' = "past" => i' < Len(sub'[top'.node])
      /\ \A n \in alive : val'[n] = val[n]
      /\ ~Searching
  <2>1. UNCHANGED <<valCount, tally>>
    BY DEF MapWalk, CountAfter
  <2> QED BY <2>1, EachStep, WalkFacts
<1>2. TypeOK' /\ DataTypes'
  BY WalkTypes
<1>3. Shaped' /\ TreeOK' /\ CallOK' /\ LoopOK' /\ ClearOK'
  BY <1>1 DEF MapInv, Shaped, TreeOK, CallOK, Searching, LoopOK, ClearOK
<1>4. CountOK'
  <2>1. Held' = Held
    BY <1>1 DEF Held, Valid
  <2>2. Values' = Values
    BY <2>1 DEF Values, Held
  <2>3. ref \in alive => (Valid(ref)' <=> Valid(ref))
    BY <1>1 DEF Valid
  <2> QED BY <1>1, <2>2, <2>3 DEF MapInv, CountOK
<1> QED BY <1>2, <1>3, <1>4 DEF MapInv

(***************************************************************************)
(* Clear(): what it is through with is destroyed, the rest hangs below the *)
(* path from the root to where it is.                                      *)
(***************************************************************************)
ClearKept == PathOK /\ PassedOK /\ Left /\ OneParent(alive, sub) /\ RootFree(alive, sub, root)

LEMMA ClearFacts ==
  ASSUME MapInv, MapWalk, purpose = "clear"
  PROVE  ClearKept /\ Len(stack) >= stale /\ order = -1 /\ ref = Nil /\ Len(stack) + 1 \in Steps
<1>1. top.node \in alive
  BY DEF MapWalk
<1>2. Len(stack) >= stale /\ ClearKept
  BY <1>1 DEF MapInv, ClearOK, ClearKept
<1>3. Len(stack) \in Nat /\ stale \in Nat
  BY WalkFacts
<1> QED BY <1>2, <1>3 DEF MapInv, LoopOK, Steps

(* Its callback answers 0 and is called behind the last slot only.         *)
LEMMA ClearSteps ==
  ASSUME MapInv, MapWalk, purpose = "clear"
  PROVE  PassOrder \/ SkipNull \/ PushStack \/ VisitAndLeave("zero", FALSE)
<1>1. order = -1 /\ i \in Nat /\ Answers = {"zero"}
  BY ClearFacts, WalkFacts DEF Answers, Told
<1>2. ~Visits
  BY <1>1 DEF Visits, VisitAt
<1>3. ~Leave(FALSE)
  BY <1>1 DEF Leave, PostOrder
<1>4. Leaves => VisitAndLeave("zero", FALSE)
  BY <1>1 DEF Leaves
<1> QED BY <1>2, <1>3, <1>4, WalkSteps

LEMMA ClearPasses ==
  ASSUME MapInv, MapWalk, purpose = "clear", PassOrder
  PROVE  ClearKept' /\ UNCHANGED <<alive, sub, root, stack, stale, purpose, order>>
         /\ pc' = "past" /\ i' < Len(sub'[top'.node])
<1>1. /\ UNCHANGED <<alive, sub, root, stack, top, i, stale, purpose, order>>
      /\ pc' = "past" /\ i < Len(sub[top.node])
  BY DEF PassOrder, nodeVars, SubNodeCount
<1>2. ClearKept
  BY ClearFacts
<1>3. PathOK'
  BY <1>1, <1>2 DEF ClearKept, PathOK, Path, Steps
<1>4. PassedOK'
  BY <1>1, <1>2 DEF ClearKept, PassedOK, Passed
<1>5. Left'
  BY <1>1, <1>2 DEF ClearKept, Left, Path, Steps, Within
<1>6. OneParent(alive, sub)' /\ RootFree(alive, sub, root)'
  BY <1>1, <1>2 DEF ClearKept, OneParent, RootFree
<1> QED BY <1>1, <1>3, <1>4, <1>5, <1>6 DEF ClearKept

LEMMA ClearSkips ==
  ASSUME MapInv, MapWalk, purpose = "clear", SkipNull
  PROVE  ClearKept' /\ UNCHANGED <<alive, sub, root, stack, stale, purpose, order>>
         /\ pc' = "at"
<1> DEFINE f == top.node
<1>1. /\ UNCHANGED <<alive, sub, root, stack, top, stale, purpose, order>>
      /\ pc' = "at" /\ i' = i + 1 /\ sub[f][i + 1] = Nil
  BY DEF SkipNull, nodeVars
<1>2. ClearKept /\ i \in Nat /\ Nil \notin alive
  BY ClearFacts, WalkFacts
<1>3. PathOK' /\ Left' /\ OneParent(alive, sub)' /\ RootFree(alive, sub, root)'
  <2>1. PathOK'
    BY <1>1, <1>2 DEF ClearKept, PathOK, Path, Steps
  <2>2. Left'
    BY <1>1, <1>2 DEF ClearKept, Left, Path, Steps, Within
  <2>3. OneParent(alive, sub)' /\ RootFree(alive, sub, root)'
    BY <1>1, <1>2 DEF ClearKept, OneParent, RootFree
  <2> QED BY <2>1, <2>2, <2>3
<1>4. PassedOK'
  <2>1. \A n \in alive : \A j \in Places :
          Passed(n, j)' <=> (Passed(n, j) \/ (n = f /\ j = i + 1))
    BY <1>1, <1>2 DEF Passed, Places
  <2> QED BY <1>1, <1>2, <2>1 DEF ClearKept, PassedOK
<1> QED BY <1>1, <1>3, <1>4 DEF ClearKept

LEMMA ClearPushes ==
  ASSUME MapInv, MapWalk, purpose = "clear", PushStack
  PROVE  ClearKept' /\ UNCHANGED <<alive, sub, root, stale, purpose, order>>
         /\ pc' = "at" /\ Len(stack') = Len(stack) + 1
<1> DEFINE f == top.node
           c == sub[f][i + 1]
           last == Len(stack) + 1
<1>1. /\ UNCHANGED <<alive, sub, root, stale, purpose, order>>
      /\ pc' = "at" /\ i' = 0 /\ c # Nil /\ pc = "past"
      /\ stack' = Append(stack, Item(f, i + 1)) /\ top' = Item(c, 0)
  BY DEF PushStack, nodeVars
<1>2. /\ PathOK /\ PassedOK /\ Left /\ OneParent(alive, sub) /\ RootFree(alive, sub, root)
      /\ f \in alive /\ i \in 0..2 /\ Len(stack) \in Nat /\ stale \in Nat /\ Len(stack) >= stale
      /\ stack \in Seq(StackItem) /\ Nil \notin alive
  BY <1>1, ClearFacts, WalkFacts DEF ClearKept
<1>3. last \in Steps /\ Path(last) = f /\ i + 1 \in Places
  BY <1>2 DEF Steps, Path, Places
<1>4. c \in alive
  <2>1. ~Passed(f, i + 1)
    <3>1. ASSUME NEW k \in (stale + 1)..Len(stack), stack[k].node = f  PROVE FALSE
      <4>1. k \in Steps /\ Path(k) = f /\ k # last
        BY <1>2, <3>1 DEF Steps, Path
      <4> QED BY <1>2, <1>3, <4>1 DEF PathOK
    <3> QED BY <1>2, <3>1 DEF Passed
  <2> QED BY <1>1, <1>2, <1>3, <2>1 DEF PassedOK
<1>5. \A k \in Steps : Path(k) # c
  <2> SUFFICES ASSUME NEW k \in Steps, Path(k) = c  PROVE FALSE
    OBVIOUS
  <2>1. k # stale + 1
    BY <1>2, <1>3, <1>4 DEF PathOK, RootFree
  <2>2. k - 1 \in (stale + 1)..Len(stack) /\ k - 1 \in Steps /\ k - 1 # last /\ (k - 1) + 1 = k
    BY <1>2, <2>1 DEF Steps
  <2>3. /\ stack[k - 1].next \in Places /\ sub[stack[k - 1].node][stack[k - 1].next] = Path(k)
        /\ Path(k - 1) = stack[k - 1].node /\ Path(k - 1) \in alive
    <3>1. Path(k - 1) = stack[k - 1].node /\ Path(k - 1) \in alive
      BY <1>2, <2>2 DEF PathOK, Path
    <3>2. \A l \in (stale + 1)..Len(stack) :
             stack[l].next \in Places /\ sub[stack[l].node][stack[l].next] = Path(l + 1)
      BY <1>2 DEF PathOK
    <3>3. /\ stack[k - 1].next \in Places
          /\ sub[stack[k - 1].node][stack[k - 1].next] = Path((k - 1) + 1)
      BY <2>2, <3>2
    <3> QED BY <2>2, <3>1, <3>3
  <2>4. stack[k - 1].node = f
    BY <1>1, <1>2, <1>3, <2>3 DEF OneParent
  <2> QED BY <1>2, <1>3, <2>2, <2>3, <2>4 DEF PathOK
<1> HIDE DEF c
<1>6. /\ Len(stack') = last /\ stack'[last] = Item(f, i + 1)
      /\ \A k \in 1..Len(stack) : stack'[k] = stack[k]
      /\ top'.node = c /\ Item(f, i + 1).node = f /\ Item(f, i + 1).next = i + 1
  <2>1. Item(f, i + 1) \in StackItem
    BY <1>2, WalkFacts DEF Item, StackItem, NodeOrNil
  <2> QED BY <1>1, <1>2, <2>1 DEF Item
<1>7. /\ Steps' = Steps \cup {last + 1} /\ Path(last + 1)' = c
      /\ \A k \in Steps : Path(k)' = Path(k)
      /\ ((stale + 1)..Len(stack))' = ((stale + 1)..Len(stack)) \cup {last}
  <2>1. Steps' = Steps \cup {last + 1} /\ Path(last + 1)' = c
    BY <1>1, <1>2, <1>6 DEF Steps, Path
  <2>2. ASSUME NEW k \in Steps  PROVE Path(k)' = Path(k)
    BY <1>1, <1>2, <1>6 DEF Steps, Path
  <2> QED BY <1>1, <1>2, <1>6, <2>1, <2>2
<1>8. PathOK'
  <2>1. stale + 1 \in Steps
    BY <1>2 DEF Steps
  <2>2. Path(stale + 1)' = root' /\ root' # Nil
    BY <1>1, <1>2, <1>7, <2>1 DEF PathOK
  <2>a. /\ \A k \in Steps : Path(k) \in alive
        /\ \A j, k \in Steps : Path(j) = Path(k) => j = k
    BY <1>2 DEF PathOK
  <2>3. ASSUME NEW k \in Steps'  PROVE Path(k)' \in alive'
    <3>1. CASE k = last + 1
      BY <1>1, <1>4, <1>7, <3>1 DEF Path
    <3>2. CASE k \in Steps
      BY <1>1, <1>7, <2>a, <3>2 DEF Path
    <3> QED BY <1>7, <3>1, <3>2
  <2>4. ASSUME NEW j \in Steps', NEW k \in Steps', Path(j)' = Path(k)'  PROVE j = k
    <3>0. ASSUME NEW m \in Steps'  PROVE Path(m)' = IF m = last + 1 THEN c ELSE Path(m)
      BY <1>1, <1>2, <1>6, <1>7 DEF Path, Steps
    <3>1. (IF j = last + 1 THEN c ELSE Path(j)) = (IF k = last + 1 THEN c ELSE Path(k))
      <4>1. Path(j)' = IF j = last + 1 THEN c ELSE Path(j)
        BY <3>0
      <4>2. Path(k)' = IF k = last + 1 THEN c ELSE Path(k)
        BY <3>0
      <4> QED BY <2>4, <4>1, <4>2
    <3>2. (j = last + 1 \/ j \in Steps) /\ (k = last + 1 \/ k \in Steps)
      BY <1>7
    <3> QED BY <1>5, <2>a, <3>1, <3>2
  <2>5. \A k \in ((stale + 1)..Len(stack))' :
          /\ stack'[k].next \in Places
          /\ sub'[stack'[k].node][stack'[k].next] = Path(k + 1)'
    <3> SUFFICES ASSUME NEW k \in ((stale + 1)..Len(stack))'
                 PROVE  /\ stack'[k].next \in Places
                        /\ sub'[stack'[k].node][stack'[k].next] = Path(k + 1)'
      OBVIOUS
    <3>1. CASE k = last
      BY <1>1, <1>3, <1>6, <1>7, <3>1 DEF c, Path
    <3>2. CASE k \in (stale + 1)..Len(stack)
      <4>1. k + 1 \in Steps /\ k \in 1..Len(stack)
        BY <1>2, <3>2 DEF Steps
      <4>2. stack'[k] = stack[k] /\ Path(k + 1)' = Path(k + 1)
        BY <1>6, <1>7, <4>1
      <4>3. /\ stack[k].next \in Places
            /\ sub[stack[k].node][stack[k].next] = Path(k + 1)
        BY <1>2, <3>2 DEF PathOK
      <4> QED BY <1>1, <4>2, <4>3
    <3> QED BY <1>7, <3>1, <3>2
  <2> QED BY <2>2, <2>3, <2>4, <2>5 DEF PathOK
<1>9. PassedOK'
  <2>1. \A n \in alive : \A j \in Places : Passed(n, j)' <=> Passed(n, j)
    <3> SUFFICES ASSUME NEW n \in alive, NEW j \in Places
                 PROVE  Passed(n, j)' <=> Passed(n, j)
      OBVIOUS
    <3>1. /\ i' = 0 /\ j > 0 /\ j \in Nat
          /\ \A k \in (stale + 1)..Len(stack) : stack'[k] = stack[k]
      BY <1>1, <1>2, <1>6 DEF Places
    <3>2. Passed(n, j)' <=> \/ f = n /\ j < i + 1
                            \/ \E k \in (stale + 1)..Len(stack) : stack[k].node = n /\ j < stack[k].next
      BY <1>6, <1>7, <3>1 DEF Passed
    <3> QED BY <1>2, <3>1, <3>2 DEF Passed
  <2> QED BY <1>1, <1>2, <2>1 DEF PassedOK
<1>10. Left'
  <2> SUFFICES ASSUME NEW S \in SUBSET alive, \A k \in Steps' : Path(k)' \in S, Within(S)
               PROVE  S = alive
    BY <1>1 DEF Left, Within
  <2>1. \A k \in Steps : Path(k) \in S
    BY <1>7
  <2> QED BY <1>2, <2>1 DEF Left
<1> QED BY <1>1, <1>2, <1>6, <1>8, <1>9, <1>10 DEF ClearKept

-----------------------------------------------------------------------------
(***************************************************************************)
(* Clear() destroys a node.                                                *)
(***************************************************************************)
(* The node the walk is at goes.                                           *)
LEMMA DestroyFacts ==
  ASSUME MapInv, MapWalk, purpose = "clear", VisitAndLeave("zero", FALSE)
  PROVE  LET f == top.node
         IN  /\ alive' = alive \ {f} /\ f \in alive
             /\ \A n \in alive' : sub'[n] = sub[n]
             /\ \A j \in Places : sub[f][j] \notin alive
             /\ PopStack(FALSE) /\ pc = "at"
<1> DEFINE f == top.node
<1>1. /\ OnTraversal /\ AtEnd /\ PopStack(FALSE)
  BY DEF VisitAndLeave
<1>2. /\ f \in alive /\ sub \in Buffers /\ alive \subseteq Node /\ i \in Nat
      /\ Len(sub[f]) = 3 /\ PassedOK
  BY WalkFacts, ClearFacts DEF ClearKept
<1>3. alive' = alive \ {f} /\ sub' = [sub EXCEPT ![f] = <<>>]
  BY <1>1 DEF OnTraversal
<1>4. \A n \in alive' : sub'[n] = sub[n]
  BY <1>2, <1>3 DEF Buffers
<1>5. i >= 3 /\ pc = "at"
  BY <1>1, <1>2 DEF AtEnd, SubNodeCount
<1>6. \A j \in Places : sub[f][j] \notin alive
  <2>1. \A j \in Places : Passed(f, j)
    BY <1>2, <1>5 DEF Passed, Places
  <2> QED BY <1>2, <2>1 DEF PassedOK
<1> QED BY <1>1, <1>2, <1>3, <1>4, <1>5, <1>6

(* The root is the last one: nobody is left then.                          *)
LEMMA ClearEnds ==
  ASSUME MapInv, MapWalk, purpose = "clear", VisitAndLeave("zero", FALSE),
         Len(stack) = stale
  PROVE  alive' = {}
<1> DEFINE f == top.node
<1>1. /\ alive' = alive \ {f} /\ f \in alive /\ \A j \in Places : sub[f][j] \notin alive
  BY DestroyFacts
<1>2. Left /\ Len(stack) \in Nat /\ stale \in Nat
  BY ClearFacts, WalkFacts DEF ClearKept
<1>3. \A k \in Steps : Path(k) \in {f}
  BY <1>2 DEF Steps, Path
<1>4. Within({f}) /\ {f} \in SUBSET alive
  BY <1>1 DEF Within
<1>5. {f} = alive
  <2> DEFINE S == {f}
  <2> HIDE DEF S
  <2>1. S \in SUBSET alive /\ Within(S) /\ \A k \in Steps : Path(k) \in S
    BY <1>3, <1>4 DEF S
  <2>2. S = alive
    BY <1>2, <2>1 DEF Left
  <2> QED BY <2>2 DEF S
<1> QED BY <1>1, <1>5

LEMMA ClearPops ==
  ASSUME MapInv, MapWalk, purpose = "clear", VisitAndLeave("zero", FALSE),
         Len(stack) > stale
  PROVE  ClearKept' /\ UNCHANGED <<root, stale, purpose, order>>
         /\ pc' = "at" /\ Len(stack') = Len(stack) - 1
<1> DEFINE f == top.node
           last == Len(stack) + 1
           back == stack[Len(stack)]
<1>1. /\ alive' = alive \ {f} /\ f \in alive /\ \A n \in alive' : sub'[n] = sub[n]
      /\ \A j \in Places : sub[f][j] \notin alive
      /\ PopStack(FALSE)
  BY DestroyFacts
<1>2. /\ PathOK /\ PassedOK /\ Left /\ OneParent(alive, sub) /\ RootFree(alive, sub, root)
      /\ Len(stack) \in Nat /\ stale \in Nat /\ stack \in Seq(StackItem) /\ Nil \notin alive
  BY ClearFacts, WalkFacts DEF ClearKept
<1>3. Len(stack) \in 1..Len(stack) /\ stack # <<>> /\ back \in StackItem
  BY <1>2
<1>4. /\ stack' = SubSeq(stack, 1, Len(stack) - 1)
      /\ top' = Item(back.node, back.next) /\ i' = back.next /\ pc' = "at"
      /\ UNCHANGED <<root, stale, purpose, order>>
  BY <1>1, <1>3 DEF PopStack
<1>5. /\ stack' \in Seq(StackItem) /\ Len(stack') = Len(stack) - 1
      /\ \A k \in 1..(Len(stack) - 1) : stack'[k] = stack[k]
      /\ top'.node = back.node
  <2>1. top'.node = back.node
    BY <1>4 DEF Item
  <2> DEFINE k == Len(stack) - 1
  <2>2. k \in 0..Len(stack) /\ k \in Nat
    BY <1>2, <1>3
  <2>3. stack' = SubSeq(stack, 1, k)
    BY <1>4
  <2> HIDE DEF k
  <2>4. stack' \in Seq(StackItem) /\ Len(stack') = k /\ \A m \in 1..k : stack'[m] = stack[m]
    BY <1>2, <2>2, <2>3
  <2> QED BY <2>1, <2>4 DEF k
<1>6. /\ last \in Steps /\ Path(last) = f
      /\ Len(stack) \in (stale + 1)..Len(stack) /\ Len(stack) \in Steps
      /\ Path(Len(stack)) = back.node /\ back.node \in alive /\ back.node # f
      /\ back.next \in Places /\ sub[back.node][back.next] = f
  <2>1. /\ last \in Steps /\ Path(last) = f
        /\ Len(stack) \in (stale + 1)..Len(stack) /\ Len(stack) \in Steps
        /\ Path(Len(stack)) = back.node /\ Len(stack) # last
    BY <1>2, <1>3 DEF Steps, Path
  <2> QED BY <1>2, <2>1 DEF PathOK
<1> HIDE DEF back
<1>7. /\ Steps' = Steps \ {last}
      /\ ((stale + 1)..Len(stack))' = (stale + 1)..(Len(stack) - 1)
  BY <1>2, <1>4, <1>5 DEF Steps
<1>8. ASSUME NEW k \in Steps'
      PROVE  Path(k)' = Path(k) /\ k \in Steps /\ Path(k) \in alive /\ Path(k) # f
  <2>1. k \in (stale + 1)..Len(stack) /\ k \in Steps /\ k # last
    BY <1>2, <1>7 DEF Steps
  <2>2. Path(k)' = Path(k)
    BY <1>2, <1>5, <2>1 DEF Path, back
  <2> QED BY <1>2, <1>6, <2>1, <2>2 DEF PathOK
<1>9. PathOK'
  <2>1. stale + 1 \in Steps' /\ Path(stale + 1) = root /\ root # Nil
    BY <1>2, <1>7 DEF Steps, PathOK
  <2>2. Path(stale + 1)' = root' /\ root' # Nil
    <3>1. Path(stale + 1)' = Path(stale + 1)
      BY <1>4, <1>8, <2>1 DEF Path
    <3> QED BY <1>4, <2>1, <3>1 DEF Path
  <2>3. ASSUME NEW k \in Steps'  PROVE Path(k)' \in alive'
    BY <1>1, <1>8
  <2>4. ASSUME NEW j \in Steps', NEW k \in Steps', Path(j)' = Path(k)'  PROVE j = k
    <3>1. Path(j)' = Path(j) /\ j \in Steps
      BY <1>8
    <3>2. Path(k)' = Path(k) /\ k \in Steps
      BY <1>8
    <3>3. Path(j) = Path(k)
      BY <2>4, <3>1, <3>2
    <3> QED BY <1>2, <3>1, <3>2, <3>3 DEF PathOK
  <2>5. ASSUME NEW k \in ((stale + 1)..Len(stack))'
        PROVE  /\ stack'[k].next \in Places
               /\ sub'[stack'[k].node][stack'[k].next] = Path(k + 1)'
    <3>1. /\ k \in (stale + 1)..Len(stack) /\ k \in 1..(Len(stack) - 1)
          /\ k \in Steps' /\ k + 1 \in Steps'
      BY <1>2, <1>4, <1>5, <1>7 DEF Steps
    <3>2. /\ stack'[k] = stack[k] /\ stack[k].next \in Places
          /\ sub[stack[k].node][stack[k].next] = Path(k + 1)
      BY <1>2, <1>5, <3>1 DEF PathOK
    <3>3. Path(k) = stack[k].node /\ Path(k) \in alive'
      <4>1. Path(k) \in alive /\ Path(k) # f
        BY <1>8, <3>1
      <4> QED BY <1>1, <1>2, <3>1, <4>1 DEF Path
    <3>4. Path(k + 1)' = Path(k + 1)
      BY <1>8, <3>1 DEF Path
    <3> QED BY <1>1, <3>2, <3>3, <3>4
  <2> QED BY <2>2, <2>3, <2>4, <2>5 DEF PathOK
<1>10. PassedOK'
  <2> SUFFICES ASSUME NEW n \in alive', NEW j \in Places
               PROVE  IF Passed(n, j)' THEN sub'[n][j] \notin alive'
                      ELSE sub'[n][j] \in alive' \cup {Nil}
    BY DEF PassedOK
  <2>1. n \in alive /\ n # f /\ sub'[n] = sub[n]
    BY <1>1
  <2>2. Passed(n, j)' <=> (Passed(n, j) \/ (n = back.node /\ j = back.next))
    <3>1. Passed(n, j)' <=> \/ n = back.node /\ j <= back.next
                            \/ \E k \in (stale + 1)..(Len(stack) - 1) :
                                  stack[k].node = n /\ j < stack[k].next
      <4>1. \A k \in (stale + 1)..(Len(stack) - 1) : stack'[k] = stack[k]
        BY <1>2, <1>5
      <4> QED BY <1>4, <1>5, <1>7, <4>1 DEF Passed
    <3>2. Passed(n, j) <=> \/ n = back.node /\ j < back.next
                           \/ \E k \in (stale + 1)..(Len(stack) - 1) :
                                 stack[k].node = n /\ j < stack[k].next
      <4>1. \A k : k \in (stale + 1)..Len(stack) <=>
                     (k \in (stale + 1)..(Len(stack) - 1) \/ k = Len(stack))
        BY <1>2, <1>6
      <4> QED BY <2>1, <4>1 DEF Passed, back
    <3>3. j <= back.next <=> (j < back.next \/ j = back.next)
      BY <1>6 DEF Places
    <3> QED BY <3>1, <3>2, <3>3
  <2>3. CASE Passed(n, j)
    BY <1>1, <1>2, <2>1, <2>2, <2>3 DEF PassedOK
  <2>4. CASE n = back.node /\ j = back.next
    BY <1>1, <1>6, <2>1, <2>2, <2>4
  <2>5. CASE ~Passed(n, j) /\ ~(n = back.node /\ j = back.next)
    <3>1. sub[n][j] \in alive \cup {Nil}
      BY <1>2, <2>1, <2>5 DEF PassedOK
    <3>2. sub[n][j] # f
      BY <1>1, <1>2, <1>6, <2>1, <2>5 DEF OneParent
    <3> QED BY <1>1, <2>1, <2>2, <2>5, <3>1, <3>2
  <2> QED BY <2>3, <2>4, <2>5
<1>11. Left'
  <2> SUFFICES ASSUME NEW S \in SUBSET alive', \A k \in Steps' : Path(k)' \in S,
                      \A n \in S : \A k \in Places : sub'[n][k] \in alive' => sub'[n][k] \in S
               PROVE  S = alive'
    BY DEF Left, Within
  <2> DEFINE U == S \cup {f}
  <2>1. U \in SUBSET alive /\ f \notin S
    BY <1>1
  <2>2. ASSUME NEW k \in Steps  PROVE Path(k) \in U
    <3>1. CASE k = last
      BY <1>6, <3>1
    <3>2. CASE k \in Steps'
      <4>1. Path(k)' \in S /\ Path(k)' = Path(k)
        BY <1>8, <3>2
      <4> QED BY <4>1
    <3> QED BY <1>7, <3>1, <3>2
  <2>3. Within(U)
    BY <1>1 DEF Within
  <2> HIDE DEF U
  <2>4. U = alive
    BY <1>2, <2>1, <2>2, <2>3 DEF Left
  <2> QED BY <1>1, <2>1, <2>4 DEF U
<1>12. OneParent(alive, sub)' /\ RootFree(alive, sub, root)'
  <2>1. OneParent(alive', sub')
    BY <1>1, <1>2 DEF OneParent
  <2>2. RootFree(alive', sub', root')
    BY <1>1, <1>2, <1>4 DEF RootFree
  <2> QED BY <2>1, <2>2
<1> QED BY <1>4, <1>5, <1>9, <1>10, <1>11, <1>12 DEF ClearKept

-----------------------------------------------------------------------------
(***************************************************************************)
(* The invariant and what follows.                                         *)
(***************************************************************************)
LEMMA ClearKeeps ==
  ASSUME MapInv, MapWalk, purpose = "clear"
  PROVE  MapInv'
<1>1. TypeOK' /\ DataTypes'
  BY WalkTypes
<1>2. /\ UNCHANGED <<ref, call>> /\ ref = Nil /\ ~Searching /\ order = -1
      /\ Len(stack) >= stale /\ Len(stack) \in Nat /\ stale \in Nat
      /\ IsFiniteSet(alive) /\ alive \subseteq Node /\ \A n \in alive : Len(sub[n]) = 3
  BY WalkFacts, ClearFacts DEF MapInv, Shaped
<1>3. CallOK'
  BY <1>2 DEF CallOK, Searching
<1>4. ASSUME ClearKept', Len(stack') >= stale', purpose' = "clear", order' = -1,
             pc' = "at" \/ (pc' = "past" /\ i' < Len(sub'[top'.node])), Shaped'
      PROVE  MapInv'
  <2>1. TreeOK' /\ CountOK'
    BY <1>4 DEF TreeOK, CountOK
  <2>2. LoopOK'
    BY <1>2, <1>4 DEF LoopOK
  <2>3. ClearOK'
    BY <1>4 DEF ClearOK, ClearKept
  <2> QED BY <1>1, <1>3, <1>4, <2>1, <2>2, <2>3 DEF MapInv
<1>5. UNCHANGED <<alive, sub>> => Shaped'
  BY DEF MapInv, Shaped
<1>6. CASE PassOrder
  BY <1>2, <1>4, <1>5, <1>6, ClearPasses
<1>7. CASE SkipNull
  BY <1>2, <1>4, <1>5, <1>7, ClearSkips
<1>8. CASE PushStack
  <2>1. Len(stack') >= stale'
    BY <1>2, <1>8, ClearPushes
  <2> QED BY <1>2, <1>4, <1>5, <1>8, <2>1, ClearPushes
<1>9. CASE VisitAndLeave("zero", FALSE)
  <2> DEFINE f == top.node
  <2>1. /\ alive' = alive \ {f} /\ f \in alive /\ \A n \in alive' : sub'[n] = sub[n]
        /\ PopStack(FALSE)
    BY <1>9, DestroyFacts
  <2>2. Shaped'
    BY <1>2, <2>1, FS_RemoveElement DEF Shaped
  <2>3. CASE Len(stack) > stale
    <3>1. Len(stack') >= stale'
      BY <1>2, <1>9, <2>3, ClearPops
    <3> QED BY <1>2, <1>4, <1>9, <2>2, <2>3, <3>1, ClearPops
  <2>4. CASE Len(stack) = stale
    <3>1. alive' = {}
      BY <1>9, <2>4, ClearEnds
    <3>2. CASE stack = <<>>
      <4>1. /\ pc' = "idle" /\ purpose' = "each" /\ root' = Nil
        BY <2>1, <3>2 DEF PopStack, Finish
      <4>2. valCount' = 0 /\ tally' = "even"
        BY <4>1 DEF MapWalk, CountAfter
      <4>3. TreeOK'
        BY <3>1, <4>1 DEF TreeOK, Tree, Leads, OneParent, RootFree, Rooted
      <4>4. LoopOK' /\ ClearOK'
        BY <1>2, <4>1 DEF LoopOK, ClearOK
      <4>5. CountOK'
        <5>1. Values' = 0
          <6>1. {n \in alive : Valid(n)}' = {}
            BY <3>1
          <6> QED BY <6>1, FS_EmptySet DEF Values
        <5>2. 0 % CountModulus = 0 /\ call'.op # "index"
          BY <1>2, RemainderIs, PropertyMapAssumption DEF Searching
        <5> QED BY <4>2, <5>1, <5>2 DEF CountOK
      <4> QED BY <1>1, <1>3, <2>2, <4>3, <4>4, <4>5 DEF MapInv
    <3>3. CASE stack # <<>>
      <4>1. /\ pc' = "at" /\ UNCHANGED <<order, purpose, stale>>
            /\ stack' = SubSeq(stack, 1, Len(stack) - 1)
        BY <2>1, <3>3 DEF PopStack
      <4>2. Len(stack') < stale'
        <5> DEFINE k == Len(stack) - 1
        <5>1. stack \in Seq(StackItem)
          BY WalkFacts
        <5>2. k \in 0..Len(stack) /\ k \in Nat
          BY <1>2, <3>3, <5>1
        <5>3. stack' = SubSeq(stack, 1, k)
          BY <4>1
        <5> HIDE DEF k
        <5>4. Len(stack') = k
          BY <5>1, <5>2, <5>3
        <5> QED BY <1>2, <2>4, <4>1, <5>4 DEF k
      <4>3. TreeOK' /\ CountOK'
        BY <4>1 DEF TreeOK, CountOK
      <4>4. LoopOK'
        BY <1>2, <4>1 DEF LoopOK
      <4>5. ClearOK'
        <5>1. Len(stack') \in Nat /\ stale' \in Nat
          BY <1>1 DEF TypeOK
        <5> QED BY <3>1, <4>2, <5>1 DEF ClearOK
      <4> QED BY <1>1, <1>3, <2>2, <4>3, <4>4, <4>5 DEF MapInv
    <3> QED BY <3>2, <3>3
  <2> QED BY <1>2, <2>3, <2>4
<1> QED BY <1>6, <1>7, <1>8, <1>9, ClearSteps

LEMMA MapStep ==
  ASSUME MapInv, [MapNext]_mapVars
  PROVE  MapInv'
<1>1. CASE \E o \in {"get", "remove", "index"}, k \in Keys : Call(o, k)
  BY <1>1, CallKeeps
<1>2. CASE Lookup
  BY <1>2, DescendKeeps, FoundKeeps, MissingKeeps, InsertKeeps DEF Lookup
<1>3. CASE \E v \in Val \cup {Empty} : Assign(v)
  BY <1>3, AssignKeeps
<1>4. CASE \E o \in Orders : MapForEach(o)
  BY <1>4, ForEachKeeps
<1>5. CASE ClearNodes
  BY <1>5, ClearNodesKeeps
<1>6. CASE ClearCount
  BY <1>6, ClearCountKeeps
<1>7. CASE MapWalk
  <2>1. purpose \in {"each", "clear"}
    BY DEF MapInv, LoopOK
  <2> QED BY <1>7, <2>1, EachKeeps, ClearKeeps
<1>8. CASE UNCHANGED mapVars
  <2>1. /\ UNCHANGED <<alive, sub, root, stack, top, i, order, purpose, pc, visited, ignored, stale>>
        /\ UNCHANGED <<item, val, valCount, keyBuf, ref, tally, call>>
    BY <1>8 DEF mapVars, vars, nodeVars, walkVars, dataVars, tellVars, clientVars
  <2>2. TypeOK' /\ DataTypes' /\ Shaped' /\ TreeOK'
    BY <2>1 DEF MapInv, TypeOK, DataTypes, Shaped, TreeOK
  <2>3. CallOK' /\ LoopOK'
    BY <2>1 DEF MapInv, CallOK, Searching, SlotOK, At, LoopOK
  <2>4. CountOK'
    BY <2>1 DEF MapInv, CountOK, Values, Valid
  <2>5. ClearOK'
    <3>1. PathOK => PathOK'
      BY <2>1 DEF PathOK, Path, Steps
    <3>2. PassedOK => PassedOK'
      BY <2>1 DEF PassedOK, Passed
    <3>3. Left => Left'
      BY <2>1 DEF Left, Path, Steps, Within
    <3>4. /\ OneParent(alive, sub) => OneParent(alive, sub)'
          /\ RootFree(alive, sub, root) => RootFree(alive, sub, root)'
      BY <2>1 DEF OneParent, RootFree
    <3> QED BY <2>1, <3>1, <3>2, <3>3, <3>4 DEF MapInv, ClearOK
  <2> QED BY <2>2, <2>3, <2>4, <2>5 DEF MapInv
<1> QED BY <1>1, <1>2, <1>3, <1>4, <1>5, <1>6, <1>7, <1>8 DEF MapNext

(* The invariant: through every sequence of lookups, assignments,          *)
(* traversals and exceptions.                                              *)
THEOREM MapInvariant == MapSpec => []MapInv
<1>1. MapInv /\ [MapNext]_mapVars => MapInv'
  BY MapStep
<1> QED BY <1>1, MapInit_Inv, PTL DEF MapSpec

(* The map keeps its shape: the locals of a lookup name slots and          *)
(* characters that exist, and the count its width (property_map.h,         *)
(* findNode and findNodeWithKeyItem).                                      *)
THEOREM MapTypeCorrect == MapSpec => []MapTypeOK
<1>1. MapInv => MapTypeOK
  <2> SUFFICES ASSUME MapInv  PROVE MapTypeOK
    OBVIOUS
  <2>1. /\ TypeOK /\ item \in [Node -> Nat] /\ val \in [Node -> Val \cup {Empty}]
        /\ valCount \in 0..(CountModulus - 1) /\ keyBuf \in Seq(Nat)
        /\ tally \in {"even", "owed", "lost"}
    BY DEF MapInv, DataTypes
  <2>2. call.key \in Keys \cup {<<>>} /\ {call.cur, call.prev} \subseteq SlotRange
    BY DEF MapInv, DataTypes, CallSpace
  <2>3. call.op # None => call.pos \in 1..(Len(call.key) + 1)
    BY DEF MapInv, CallOK, Searching
  <2>4. ref \in NodeOrNil
    BY <2>1 DEF MapInv, LoopOK, TypeOK, NodeOrNil
  <2> QED BY <2>1, <2>2, <2>3, <2>4 DEF MapTypeOK
<1> QED BY <1>1, MapInvariant, PTL

(* ValCount() is the number of values, modulo the width of the counter,    *)
(* for a client that assigns once per operator[] of a key without value    *)
(* and removes only what is there (property_map.h, mValCount; tree.h,      *)
(* Clear).                                                                 *)
THEOREM CountIsHonest == MapSpec => []CountHonest
<1>1. MapInv => CountHonest
  <2> SUFFICES ASSUME MapInv, ~Searching, purpose # "clear"
               PROVE  /\ tally = "even" => valCount = Values % CountModulus
                      /\ tally = "owed" => valCount = (Values + 1) % CountModulus
    BY DEF CountHonest, Values
  <2>1. call.op # "index"
    BY PropertyMapAssumption DEF Searching
  <2> QED BY <2>1 DEF MapInv, CountOK
<1> QED BY <1>1, MapInvariant, PTL

(* No rotation, insertion or traversal loses a node, links one twice or    *)
(* makes a ring of them: all that is alive hangs below the root            *)
(* (property_map.h, findNodeWithKeyItem; tree.h, Separate and Rotate).     *)
THEOREM NothingLost == MapSpec => []TreeOK
<1>1. MapInv => TreeOK
  BY DEF MapInv
<1> QED BY <1>1, MapInvariant, PTL

-----------------------------------------------------------------------------
(***************************************************************************)
(* Marks: the key above a node, and the characters its place has room for. *)
(***************************************************************************)
(* What a place in the tree stands for: the key up to it, and the          *)
(* characters that are looked for there.                                   *)
Above(it, a, n, k) == IF k = 1 THEN Append(a[n], it[n]) ELSE a[n]
Room(it, may, n, k) ==
  CASE k = 1 -> Nat
    [] k = 2 -> {c \in may[n] : c < it[n]}
    [] k = 3 -> {c \in may[n] : c > it[n]}

Marked(A, s, r, it, a, may) ==
  /\ a \in [A -> Seq(Nat)]
  /\ may \in [A -> SUBSET Nat]
  /\ r # Nil => a[r] = <<>> /\ may[r] = Nat
  /\ \A n \in A : it[n] \in may[n]
  /\ \A n \in A, k \in Places :
        s[n][k] # Nil => a[s[n][k]] = Above(it, a, n, k) /\ may[s[n][k]] = Room(it, may, n, k)

(* The key of a node. *)
Key(it, a, n) == Append(a[n], it[n])

(* A lookup stands where its key must be. *)
AboveAt(it, a, s) == IF s.node = Nil THEN <<>> ELSE Above(it, a, s.node, s.idx + 1)
RoomAt(it, may, s) == IF s.node = Nil THEN Nat ELSE Room(it, may, s.node, s.idx + 1)

Fits(a, may) ==
  (Searching /\ call.key # <<>>) =>
     /\ AboveAt(item, a, call.cur) = SubSeq(call.key, 1, call.pos - 1)
     /\ Wanted \in RoomAt(item, may, call.cur)

(* The reference of the client is to the node of the key it was asked for. *)
Refers(a) ==
  IF ref = Nil THEN refKey = None ELSE refKey \in Keys /\ Key(item, a, ref) = refKey

MarkOK ==
  purpose # "clear" =>
     \E a, may : Marked(alive, sub, root, item, a, may) /\ Fits(a, may) /\ Refers(a)

RefOK == ref = Nil => refKey = None

KeyInv == MapInv /\ RefOK /\ MarkOK

-----------------------------------------------------------------------------
(***************************************************************************)
(* What is behind a node.                                                  *)
(***************************************************************************)
(* The nodes at n and behind its slots. *)
Behind(A, s, n) == {m \in A : \A S \in SUBSET A : (n \in S /\ Leads(S, s)) => m \in S}

LEMMA BehindLeast ==
  ASSUME NEW A, NEW s, NEW n, NEW S \in SUBSET A, n \in S, Leads(S, s)
  PROVE  Behind(A, s, n) \subseteq S
BY DEF Behind

LEMMA BehindFacts ==
  ASSUME NEW A, NEW s, Nil \notin A, Leads(A, s), NEW n \in A
  PROVE  LET B == Behind(A, s, n)
         IN  /\ B \in SUBSET A
             /\ n \in B
             /\ Leads(B, s)
             /\ \A m \in B \ {n} : \E p \in B : \E k \in Places : s[p][k] = m
<1> DEFINE B == Behind(A, s, n)
<1>1. B \in SUBSET A /\ n \in B
  BY DEF Behind
<1>2. Leads(B, s)
  <2> SUFFICES ASSUME NEW m \in B, NEW k \in Places, s[m][k] # Nil  PROVE s[m][k] \in B
    BY DEF Leads
  <2>1. s[m][k] \in A
    BY <1>1 DEF Leads
  <2>2. ASSUME NEW S \in SUBSET A, n \in S, Leads(S, s)  PROVE s[m][k] \in S
    <3>1. m \in S
      BY <2>2 DEF Behind
    <3> QED BY <2>2, <3>1 DEF Leads
  <2> QED BY <2>1, <2>2 DEF Behind
<1>3. ASSUME NEW m \in B, m # n, ~ \E p \in B : \E k \in Places : s[p][k] = m  PROVE FALSE
  <2> DEFINE S == B \ {m}
  <2>1. n \in S /\ S \in SUBSET A
    BY <1>1, <1>3
  <2>2. Leads(S, s)
    BY <1>2, <1>3 DEF Leads
  <2> HIDE DEF S
  <2>3. m \in S
    BY <2>1, <2>2 DEF Behind
  <2> QED BY <2>3 DEF S
<1> QED BY <1>1, <1>2, <1>3

(* Who starts at a node of it stays behind n. *)
LEMMA BehindInside ==
  ASSUME NEW A, NEW s, Nil \notin A, Leads(A, s), NEW n \in A, NEW m \in Behind(A, s, n)
  PROVE  Behind(A, s, m) \subseteq Behind(A, s, n)
<1>1. Behind(A, s, n) \in SUBSET A /\ Leads(Behind(A, s, n), s)
  BY BehindFacts
<1> QED BY <1>1, BehindLeast

LEMMA BehindParts ==
  ASSUME NEW A, NEW s, Nil \notin A, Leads(A, s), NEW n \in A
  PROVE  /\ \A k \in Places : s[n][k] # Nil =>
              s[n][k] \in A /\ Behind(A, s, s[n][k]) \subseteq Behind(A, s, n)
         /\ \A m \in Behind(A, s, n) : m # n =>
              \E k \in Places : s[n][k] # Nil /\ m \in Behind(A, s, s[n][k])
<1> DEFINE B == Behind(A, s, n)
<1>1. B \in SUBSET A /\ n \in B /\ Leads(B, s)
  BY BehindFacts
<1>2. ASSUME NEW k \in Places, s[n][k] # Nil
      PROVE  s[n][k] \in A /\ Behind(A, s, s[n][k]) \subseteq B
  <2>1. s[n][k] \in B
    BY <1>1, <1>2 DEF Leads
  <2> QED BY <1>1, <2>1, BehindInside
<1> DEFINE Part(k) == Behind(A, s, s[n][k])
           S == {n} \cup {m \in A : \E k \in Places : s[n][k] # Nil /\ m \in Part(k)}
<1>3. n \in S /\ S \in SUBSET A
  OBVIOUS
<1>4. Leads(S, s)
  <2> SUFFICES ASSUME NEW m \in S, NEW l \in Places, s[m][l] # Nil  PROVE s[m][l] \in S
    BY DEF Leads
  <2>1. CASE m = n
    <3>1. s[n][l] \in A
      BY <1>2, <2>1
    <3>2. s[n][l] \in Part(l)
      BY <3>1, BehindFacts
    <3> QED BY <2>1, <3>1, <3>2
  <2>2. CASE m # n
    <3>1. PICK k \in Places : s[n][k] # Nil /\ m \in Part(k)
      BY <2>2
    <3>2. s[n][k] \in A
      BY <1>2, <3>1
    <3>3. Part(k) \in SUBSET A /\ Leads(Part(k), s)
      BY <3>2, BehindFacts
    <3>4. s[m][l] \in Part(k)
      BY <3>1, <3>3 DEF Leads
    <3> QED BY <3>1, <3>3, <3>4
  <2> QED BY <2>1, <2>2
<1>5. B \subseteq S
  <2> HIDE DEF S
  <2> QED BY <1>3, <1>4, BehindLeast
<1> QED BY <1>2, <1>5

LEMMA BehindRoot ==
  ASSUME NEW A, NEW s, NEW r \in A, Tree(A, s, r), Nil \notin A
  PROVE  Behind(A, s, r) = A
<1>1. Behind(A, s, r) \in SUBSET A /\ r \in Behind(A, s, r) /\ Leads(Behind(A, s, r), s)
  BY BehindFacts DEF Tree
<1> QED BY <1>1 DEF Tree, Rooted

(* No way leads back up, and two slots lead to different nodes. *)
LEMMA NoWayBack ==
  ASSUME NEW A, NEW s, NEW r, Tree(A, s, r), Nil \notin A,
         NEW n \in A, NEW k \in Places, s[n][k] # Nil
  PROVE  n \notin Behind(A, s, s[n][k])
<1> DEFINE B == Behind(A, s, s[n][k])
<1>1. s[n][k] \in A
  BY DEF Tree, Leads
<1>2. /\ B \in SUBSET A /\ s[n][k] \in B
      /\ \A m \in B \ {s[n][k]} : \E p \in B : \E l \in Places : s[p][l] = m
  BY <1>1, BehindFacts DEF Tree
<1> SUFFICES ASSUME n \in B  PROVE FALSE
  OBVIOUS
<1>3. Hanging(B, s)
  BY <1>2 DEF Hanging
<1> QED BY <1>2, <1>3, NoLoop

LEMMA Apart ==
  ASSUME NEW A, NEW s, NEW r, Tree(A, s, r), Nil \notin A,
         NEW n \in A, NEW j \in Places, NEW k \in Places, j # k, s[n][j] # Nil, s[n][k] # Nil
  PROVE  Behind(A, s, s[n][j]) \cap Behind(A, s, s[n][k]) = {}
<1> DEFINE B == Behind(A, s, s[n][j])
           C == Behind(A, s, s[n][k])
<1>1. s[n][j] \in A /\ s[n][k] \in A
  BY DEF Tree, Leads
<1>2. /\ B \in SUBSET A
      /\ \A m \in B \ {s[n][j]} : \E p \in B : \E l \in Places : s[p][l] = m
  BY <1>1, BehindFacts DEF Tree
<1>3. /\ C \in SUBSET A
      /\ \A m \in C \ {s[n][k]} : \E p \in C : \E l \in Places : s[p][l] = m
  BY <1>1, BehindFacts DEF Tree
<1>4. n \notin B /\ n \notin C
  BY NoWayBack
<1> HIDE DEF B, C
<1>5. Hanging(B \cap C, s)
  <2> SUFFICES ASSUME NEW m \in B \cap C
               PROVE  \E p \in B \cap C : \E l \in Places : s[p][l] = m
    BY DEF Hanging
  <2>1. m # s[n][j]
    <3> SUFFICES ASSUME m = s[n][j]  PROVE FALSE
      OBVIOUS
    <3>1. m # s[n][k]
      BY DEF Tree, OneParent
    <3>2. PICK p \in C, l \in Places : s[p][l] = m
      BY <1>3, <3>1
    <3> QED BY <1>3, <1>4, <3>2 DEF Tree, OneParent
  <2>2. m # s[n][k]
    <3> SUFFICES ASSUME m = s[n][k]  PROVE FALSE
      OBVIOUS
    <3>1. PICK p \in B, l \in Places : s[p][l] = m
      BY <1>2, <2>1
    <3> QED BY <1>2, <1>4, <3>1 DEF Tree, OneParent
  <2>3. PICK p \in B, l \in Places : s[p][l] = m
    BY <1>2, <2>1
  <2>4. PICK q \in C, o \in Places : s[q][o] = m
    BY <1>3, <2>2
  <2>5. p = q
    <3>1. m # Nil /\ p \in A /\ q \in A
      BY <1>2, <1>3
    <3> QED BY <2>3, <2>4, <3>1 DEF Tree, OneParent
  <2> QED BY <2>3, <2>4, <2>5
<1> QED BY <1>2, <1>5, NoLoop DEF B, C

LEMMA BehindEach ==
  ASSUME NEW A, NEW s, NEW r, Tree(A, s, r), Nil \notin A, NEW n \in A, NEW m \in A,
         m \in Behind(A, s, n), n \in Behind(A, s, m)
  PROVE  m = n
<1> SUFFICES ASSUME m # n  PROVE FALSE
  OBVIOUS
<1>1. PICK k \in Places : s[n][k] # Nil /\ m \in Behind(A, s, s[n][k])
  BY BehindParts DEF Tree
<1>2. s[n][k] \in A
  BY <1>1 DEF Tree, Leads
<1>3. n \in Behind(A, s, s[n][k])
  BY <1>1, <1>2, BehindInside DEF Tree
<1> QED BY <1>1, <1>3, NoWayBack

(* Of finitely many nodes not every one has another of them below it. *)
LEMMA NoDescent ==
  ASSUME NEW A, IsFiniteSet(A), NEW s, NEW r, Tree(A, s, r), Nil \notin A,
         NEW B \in SUBSET A, \A m \in B : \E k \in Places : s[m][k] \in B
  PROVE  B = {}
<1> DEFINE Down(m) == CHOOSE k \in Places : s[m][k] \in B
           f == [m \in B |-> s[m][Down(m)]]
<1>1. IsFiniteSet(B)
  BY FS_Subset
<1>2. \A m \in B : Down(m) \in Places /\ s[m][Down(m)] \in B
  OBVIOUS
<1> HIDE DEF Down
<1>3. f \in [B -> B]
  BY <1>2
<1>4. \A a, b \in B : f[a] = f[b] => a = b
  <2> SUFFICES ASSUME NEW a \in B, NEW b \in B, f[a] = f[b]  PROVE a = b
    OBVIOUS
  <2>1. s[a][Down(a)] = s[b][Down(b)] /\ s[a][Down(a)] # Nil
    BY <1>2
  <2> QED BY <1>2, <2>1 DEF Tree, OneParent
<1>5. f \in Injection(B, B)
  BY <1>3, <1>4 DEF Injection, IsInjective
<1>6. f \in Surjection(B, B)
  BY <1>1, <1>5, FS_Injection
<1>7. \A b \in B : \E p \in B : f[p] = b
  BY <1>6 DEF Surjection
<1>8. Hanging(B, s)
  BY <1>2, <1>7 DEF Hanging
<1> QED BY <1>8, NoLoop

-----------------------------------------------------------------------------
(***************************************************************************)
(* Reading a key downwards.                                                *)
(***************************************************************************)
(* The sequence p with c in front. *)
Put(c, p) == <<c>> \o p

LEMMA AppendTo ==
  ASSUME NEW u \in Seq(Nat), NEW q \in Seq(Nat), NEW c \in Nat
  PROVE  /\ Append(q, c) \in Seq(Nat) /\ Append(q, c) # <<>>
         /\ Append(q, c)[1] = IF q = <<>> THEN c ELSE q[1]
         /\ u \o Append(q, c) = Append(u \o q, c)
<1>1. /\ Append(q, c) \in Seq(Nat) /\ Append(q, c) # <<>> /\ Append(q, c)[Len(q) + 1] = c
      /\ \A j \in 1..Len(q) : Append(q, c)[j] = q[j]
  BY AppendProperties
<1>2. IF q = <<>> THEN Len(q) = 0 ELSE Len(q) \in Nat \ {0}
  BY EmptySeq
<1>3. Append(q, c)[1] = IF q = <<>> THEN c ELSE q[1]
  BY <1>1, <1>2
<1>4. u \o q \in Seq(Nat) /\ <<c>> \in Seq(Nat)
  BY ConcatProperties
<1>5. (u \o q) \o <<c>> = u \o (q \o <<c>>)
  BY <1>4, ConcatAssociative
<1>6. Append(q, c) = q \o <<c>> /\ Append(u \o q, c) = (u \o q) \o <<c>>
  BY <1>4, AppendIsConcat
<1> QED BY <1>1, <1>3, <1>5, <1>6

LEMMA Regroup ==
  ASSUME NEW u \in Seq(Nat), NEW p \in Seq(Nat), NEW c \in Nat
  PROVE  /\ Put(c, p) \in Seq(Nat) /\ Put(c, p)[1] = c /\ Put(c, p) # <<>>
         /\ Append(u, c) \o p = u \o Put(c, p)
<1>1. <<c>> \in Seq(Nat) /\ Len(<<c>>) = 1 /\ <<c>>[1] = c
  OBVIOUS
<1>2. /\ <<c>> \o p \in Seq(Nat) /\ Len(<<c>> \o p) = 1 + Len(p)
      /\ \A j \in 1..(1 + Len(p)) : (<<c>> \o p)[j] = IF j <= 1 THEN <<c>>[j] ELSE p[j - 1]
  BY <1>1, ConcatProperties
<1>3. Len(p) \in Nat
  BY LenProperties
<1>4. (<<c>> \o p)[1] = c
  BY <1>1, <1>2, <1>3
<1>5. <<c>> \o p # <<>>
  BY <1>2, <1>3
<1>6. Append(u, c) = u \o <<c>>
  BY AppendIsConcat
<1>7. (u \o <<c>>) \o p = u \o (<<c>> \o p)
  BY <1>1, ConcatAssociative
<1> QED BY <1>2, <1>4, <1>5, <1>6, <1>7 DEF Put

LEMMA Cancel ==
  ASSUME NEW u \in Seq(Nat), NEW p \in Seq(Nat), NEW q \in Seq(Nat), u \o p = u \o q
  PROVE  p = q
BY ConcatSimplifications

LEMMA AppendConcat ==
  ASSUME NEW u \in Seq(Nat), NEW q \in Seq(Nat), NEW c \in Nat
  PROVE  u \o Append(q, c) = Append(u \o q, c)
BY AppendTo

LEMMA AppendFirst ==
  ASSUME NEW q \in Seq(Nat), NEW c \in Nat
  PROVE  /\ Append(q, c) \in Seq(Nat) /\ Append(q, c) # <<>>
         /\ Append(q, c)[1] = IF q = <<>> THEN c ELSE q[1]
BY AppendTo

LEMMA RegroupConcat ==
  ASSUME NEW u \in Seq(Nat), NEW p \in Seq(Nat), NEW c \in Nat
  PROVE  Append(u, c) \o p = u \o Put(c, p)
BY Regroup

LEMMA Prepended ==
  ASSUME NEW p \in Seq(Nat), NEW c \in Nat
  PROVE  Put(c, p) \in Seq(Nat) /\ Put(c, p)[1] = c /\ Put(c, p) # <<>>
BY Regroup

LEMMA KeyConcat ==
  ASSUME NEW it, NEW a, NEW n, a[n] \in Seq(Nat), it[n] \in Nat
  PROVE  Key(it, a, n) = a[n] \o <<it[n]>> /\ <<it[n]>> \in Seq(Nat)
<1> DEFINE u == a[n]
           c == it[n]
<1>1. u \in Seq(Nat) /\ c \in Nat
  OBVIOUS
<1> HIDE DEF u, c
<1>2. Append(u, c) = u \o <<c>> /\ <<c>> \in Seq(Nat)
  BY <1>1, AppendIsConcat
<1> QED BY <1>2, Zenon DEF Key, u, c

Joined(u, p) == u \o p

LEMMA KeyRegroup ==
  ASSUME NEW it, NEW a, NEW n, NEW p \in Seq(Nat), a[n] \in Seq(Nat), it[n] \in Nat
  PROVE  Joined(Key(it, a, n), p) = Joined(a[n], Put(it[n], p))
<1> DEFINE u == a[n]
           c == it[n]
<1>1. u \in Seq(Nat) /\ c \in Nat
  OBVIOUS
<1> HIDE DEF u, c
<1>2. Append(u, c) \o p = u \o Put(c, p)
  BY <1>1, RegroupConcat
<1> QED BY <1>2, Zenon DEF Key, Joined, u, c

(* The key of m goes on from where n stands, by a character n has room for.*)
GoesOn(a, may, n, m) ==
  \E q \in Seq(Nat) : /\ a[m] = a[n] \o q
                      /\ IF q = <<>> THEN may[m] \subseteq may[n] ELSE q[1] \in may[n]

LEMMA MarkedIs ==
  ASSUME NEW A, NEW s, NEW r, NEW it, NEW a, NEW may, Marked(A, s, r, it, a, may), NEW n \in A
  PROVE  /\ a[n] \in Seq(Nat) /\ it[n] \in Nat /\ it[n] \in may[n] /\ may[n] \in SUBSET Nat
BY DEF Marked

LEMMA KeyIs ==
  ASSUME NEW A, NEW s, NEW r, NEW it, NEW a, NEW may, Marked(A, s, r, it, a, may), NEW n \in A
  PROVE  Key(it, a, n) \in Seq(Nat)
<1>1. a[n] \in Seq(Nat) /\ it[n] \in Nat
  BY MarkedIs
<1> QED BY <1>1, AppendProperties DEF Key

LEMMA MarkedBelow ==
  ASSUME NEW A, NEW s, NEW r, NEW it, NEW a, NEW may, Marked(A, s, r, it, a, may), NEW n \in A,
         Leads(A, s), NEW k \in Places, s[n][k] # Nil
  PROVE  /\ s[n][k] \in A
         /\ a[s[n][k]] = IF k = 1 THEN Key(it, a, n) ELSE a[n]
         /\ may[s[n][k]] = Room(it, may, n, k)
         /\ k # 1 => may[s[n][k]] \subseteq may[n]
<1>1. /\ s[n][k] \in A
      /\ a[s[n][k]] = IF k = 1 THEN Key(it, a, n) ELSE a[n]
      /\ may[s[n][k]] = Room(it, may, n, k)
  BY DEF Marked, Above, Key, Leads
<1>2. CASE k = 1
  BY <1>1, <1>2
<1>3. CASE k = 2
  BY <1>1, <1>3 DEF Room
<1>4. CASE k = 3
  BY <1>1, <1>4 DEF Room
<1> QED BY <1>1, <1>2, <1>3, <1>4 DEF Places

LEMMA GoesOnBelow ==
  ASSUME NEW A, NEW s, NEW r, NEW it, NEW a, NEW may, Marked(A, s, r, it, a, may),
         Leads(A, s), Nil \notin A, NEW n \in A, NEW m \in A, GoesOn(a, may, n, m),
         NEW k \in Places, s[m][k] # Nil
  PROVE  GoesOn(a, may, n, s[m][k])
<1>1. PICK q \in Seq(Nat) : /\ a[m] = a[n] \o q
                            /\ IF q = <<>> THEN may[m] \subseteq may[n] ELSE q[1] \in may[n]
  BY DEF GoesOn
<1>2. /\ a[n] \in Seq(Nat) /\ a[m] \in Seq(Nat) /\ it[m] \in Nat /\ it[m] \in may[m]
      /\ may[m] \in SUBSET Nat
  BY MarkedIs
<1>3. CASE k = 1
  <2> DEFINE p == Append(q, it[m])
  <2>1. a[s[m][k]] = Key(it, a, m)
    BY <1>3, MarkedBelow
  <2>2. /\ p \in Seq(Nat) /\ p # <<>> /\ p[1] = IF q = <<>> THEN it[m] ELSE q[1]
    BY <1>2, AppendFirst
  <2>5. a[n] \o p = Append(a[n] \o q, it[m])
    BY <1>2, AppendConcat
  <2> HIDE DEF p
  <2>3. p[1] \in may[n]
    BY <1>1, <1>2, <2>2
  <2>4. a[s[m][k]] = a[n] \o p
    BY <1>1, <2>1, <2>5 DEF Key
  <2> QED BY <2>2, <2>3, <2>4 DEF GoesOn
<1>4. CASE k # 1
  <2>1. a[s[m][k]] = a[m] /\ may[s[m][k]] \subseteq may[m]
    BY <1>4, MarkedBelow
  <2> QED BY <1>1, <2>1 DEF GoesOn
<1> QED BY <1>3, <1>4

LEMMA BehindGoesOn ==
  ASSUME NEW A, NEW s, NEW r, NEW it, NEW a, NEW may, Marked(A, s, r, it, a, may),
         Leads(A, s), Nil \notin A, NEW n \in A, NEW m \in Behind(A, s, n)
  PROVE  GoesOn(a, may, n, m)
<1> DEFINE S == {l \in A : GoesOn(a, may, n, l)}
<1>1. GoesOn(a, may, n, n)
  <2>1. a[n] \in Seq(Nat)
    BY MarkedIs
  <2>2. a[n] = a[n] \o <<>> /\ <<>> \in Seq(Nat)
    BY <2>1, ConcatEmptySeq
  <2> QED BY <2>2 DEF GoesOn
<1>2. Leads(S, s)
  <2> SUFFICES ASSUME NEW l \in S, NEW k \in Places, s[l][k] # Nil  PROVE s[l][k] \in S
    BY DEF Leads
  <2>1. s[l][k] \in A
    BY DEF Leads
  <2> QED BY <2>1, GoesOnBelow
<1>3. n \in S /\ S \in SUBSET A
  BY <1>1
<1> HIDE DEF S
<1>4. m \in S
  BY <1>2, <1>3, BehindLeast
<1> QED BY <1>4 DEF S

(* A key found behind n, read from where n stands. *)
ReadOn(it, a, may, n, m) ==
  \E q \in Seq(Nat) : q # <<>> /\ q[1] \in may[n] /\ a[n] \o q = Key(it, a, m)

LEMMA KeyBehind ==
  ASSUME NEW A, NEW s, NEW r, NEW it, NEW a, NEW may, Marked(A, s, r, it, a, may),
         Leads(A, s), Nil \notin A, NEW n \in A, NEW m \in Behind(A, s, n)
  PROVE  ReadOn(it, a, may, n, m)
<1>1. m \in A
  BY BehindFacts
<1>2. PICK q \in Seq(Nat) : /\ a[m] = a[n] \o q
                            /\ IF q = <<>> THEN may[m] \subseteq may[n] ELSE q[1] \in may[n]
  BY BehindGoesOn DEF GoesOn
<1>3. /\ a[n] \in Seq(Nat) /\ a[m] \in Seq(Nat) /\ it[m] \in Nat /\ it[m] \in may[m]
  BY <1>1, MarkedIs
<1> DEFINE p == Append(q, it[m])
<1>4. /\ p \in Seq(Nat) /\ p # <<>> /\ p[1] = IF q = <<>> THEN it[m] ELSE q[1]
  BY <1>3, AppendFirst
<1>7. a[n] \o p = Append(a[n] \o q, it[m])
  BY <1>3, AppendConcat
<1> HIDE DEF p
<1>5. p[1] \in may[n]
  BY <1>2, <1>3, <1>4
<1>6. a[n] \o p = Key(it, a, m)
  BY <1>2, <1>7 DEF Key
<1> QED BY <1>4, <1>5, <1>6 DEF ReadOn

(* The first character of what is left of a key tells the slot it is       *)
(* behind.                                                                 *)
Reads(A, s, it, a, n, m, q) ==
  m \in Behind(A, s, n) /\ q \in Seq(Nat) /\ a[n] \o q = Key(it, a, m)

LEMMA ReadsOnce ==
  ASSUME NEW A, NEW s, NEW r, NEW it, NEW a, NEW may, Marked(A, s, r, it, a, may),
         Leads(A, s), Nil \notin A, NEW n \in A, NEW m, NEW q, Reads(A, s, it, a, n, m, q)
  PROVE  /\ q # <<>> /\ q[1] \in may[n]
         /\ \A p \in Seq(Nat) : a[n] \o p = Key(it, a, m) => p = q
<1>1. m \in Behind(A, s, n) /\ q \in Seq(Nat) /\ a[n] \o q = Key(it, a, m)
  BY DEF Reads
<1>2. a[n] \in Seq(Nat)
  BY MarkedIs
<1>3. ASSUME NEW p \in Seq(Nat), a[n] \o p = Key(it, a, m)  PROVE p = q
  BY <1>1, <1>2, <1>3, Cancel
<1>4. ReadOn(it, a, may, n, m)
  BY <1>1, KeyBehind
<1>5. PICK p \in Seq(Nat) : p # <<>> /\ p[1] \in may[n] /\ a[n] \o p = Key(it, a, m)
  BY <1>4 DEF ReadOn
<1>6. p = q
  BY <1>3, <1>5
<1> QED BY <1>3, <1>5, <1>6

LEMMA ReadsSplit ==
  ASSUME NEW A, NEW s, NEW r, NEW it, NEW a, NEW may, Marked(A, s, r, it, a, may),
         Leads(A, s), Nil \notin A, NEW n \in A, NEW m, NEW q, Reads(A, s, it, a, n, m, q)
  PROVE  /\ m = n => q = <<it[n]>>
         /\ (s[n][1] # Nil /\ m \in Behind(A, s, s[n][1])) =>
              \E p : q = Put(it[n], p) /\ Reads(A, s, it, a, s[n][1], m, p)
         /\ (s[n][2] # Nil /\ m \in Behind(A, s, s[n][2])) =>
              q[1] < it[n] /\ Reads(A, s, it, a, s[n][2], m, q)
         /\ (s[n][3] # Nil /\ m \in Behind(A, s, s[n][3])) =>
              q[1] > it[n] /\ Reads(A, s, it, a, s[n][3], m, q)
<1>1. a[n] \in Seq(Nat) /\ it[n] \in Nat
  BY MarkedIs
<1>2. /\ m \in Behind(A, s, n) /\ q \in Seq(Nat) /\ a[n] \o q = Key(it, a, m)
      /\ \A p \in Seq(Nat) : a[n] \o p = Key(it, a, m) => p = q
  <2>1. \A p \in Seq(Nat) : a[n] \o p = Key(it, a, m) => p = q
    BY ReadsOnce
  <2> QED BY <2>1 DEF Reads
<1>3. ASSUME m = n  PROVE q = <<it[n]>>
  <2>1. Key(it, a, n) = a[n] \o <<it[n]>> /\ <<it[n]>> \in Seq(Nat)
    BY <1>1, KeyConcat
  <2> QED BY <1>2, <1>3, <2>1
<1>4. ASSUME NEW k \in Places, s[n][k] # Nil, m \in Behind(A, s, s[n][k])
      PROVE  \E p \in Seq(Nat) : /\ a[s[n][k]] \o p = Key(it, a, m)
                                 /\ p[1] \in may[s[n][k]]
                                 /\ Reads(A, s, it, a, s[n][k], m, p)
  <2> DEFINE c == s[n][k]
  <2>1. c \in A
    BY <1>4, MarkedBelow
  <2>2. m \in Behind(A, s, c)
    BY <1>4
  <2> HIDE DEF c
  <2>3. ReadOn(it, a, may, c, m)
    BY <2>1, <2>2, KeyBehind
  <2>4. PICK p \in Seq(Nat) : p # <<>> /\ p[1] \in may[c] /\ a[c] \o p = Key(it, a, m)
    BY <2>3 DEF ReadOn
  <2>5. Reads(A, s, it, a, c, m, p)
    BY <2>2, <2>4 DEF Reads
  <2> QED BY <2>4, <2>5 DEF c
<1>5. ASSUME s[n][1] # Nil, m \in Behind(A, s, s[n][1])
      PROVE  \E p : q = Put(it[n], p) /\ Reads(A, s, it, a, s[n][1], m, p)
  <2> DEFINE c == s[n][1]
  <2>1. 1 \in Places
    BY DEF Places
  <2>2. a[c] = Key(it, a, n)
    BY <1>5, <2>1, MarkedBelow
  <2>3. PICK p \in Seq(Nat) : a[c] \o p = Key(it, a, m) /\ Reads(A, s, it, a, c, m, p)
    BY <1>4, <1>5, <2>1
  <2> HIDE DEF c
  <2>4. Joined(Key(it, a, n), p) = Joined(a[n], Put(it[n], p))
    BY <1>1, KeyRegroup
  <2>5. a[n] \o Put(it[n], p) = Key(it, a, m)
    BY <2>2, <2>3, <2>4 DEF Joined
  <2>6. Put(it[n], p) \in Seq(Nat)
    BY <1>1, Prepended
  <2>7. Put(it[n], p) = q
    BY <1>2, <2>5, <2>6
  <2> QED BY <2>3, <2>7 DEF c
<1>6. ASSUME NEW k \in {2, 3}, s[n][k] # Nil, m \in Behind(A, s, s[n][k])
      PROVE  Reads(A, s, it, a, s[n][k], m, q) /\ q[1] \in Room(it, may, n, k)
  <2> DEFINE c == s[n][k]
  <2>1. k \in Places /\ k # 1
    BY DEF Places
  <2>2. a[c] = a[n] /\ may[c] = Room(it, may, n, k)
    BY <1>6, <2>1, MarkedBelow
  <2>3. PICK p \in Seq(Nat) : /\ a[c] \o p = Key(it, a, m) /\ p[1] \in may[c]
                              /\ Reads(A, s, it, a, c, m, p)
    BY <1>4, <1>6, <2>1
  <2> HIDE DEF c
  <2>4. p = q
    BY <1>2, <2>2, <2>3
  <2> QED BY <2>2, <2>3, <2>4 DEF c
<1>7. ASSUME s[n][2] # Nil, m \in Behind(A, s, s[n][2])
      PROVE  q[1] < it[n] /\ Reads(A, s, it, a, s[n][2], m, q)
  BY <1>6, <1>7 DEF Room
<1>8. ASSUME s[n][3] # Nil, m \in Behind(A, s, s[n][3])
      PROVE  q[1] > it[n] /\ Reads(A, s, it, a, s[n][3], m, q)
  BY <1>6, <1>8 DEF Room
<1> QED BY <1>3, <1>5, <1>7, <1>8

-----------------------------------------------------------------------------
(***************************************************************************)
(* Named is every node with its key.                                       *)
(***************************************************************************)
(* What Named collects below every node, and what that is. *)
Side3(s, f, n, k) == IF s[n][k] = Nil THEN {} ELSE f[s[n][k]]
Collected(s, it, f, n) ==
  {[node |-> n, key |-> <<it[n]>>]}
    \cup Prefixed(it[n], Side3(s, f, n, 1)) \cup Side3(s, f, n, 2) \cup Side3(s, f, n, 3)
NamesBelow(A, s, it, f) == f = [n \in A |-> Collected(s, it, f, n)]

LEMMA NamedUnfolds ==
  Named = IF root = Nil THEN {} ELSE (CHOOSE f : NamesBelow(alive, sub, item, f))[root]
BY Zenon DEF Named, NamesBelow, Collected, Side3, Prefixed

Entry(n, q) == [node |-> n, key |-> q]
NamesAt(A, s, it, a, n) ==
  {e \in [node : A, key : Seq(Nat)] : Reads(A, s, it, a, n, e.node, e.key)}
Names(A, s, it, a) == [n \in A |-> NamesAt(A, s, it, a, n)]

LEMMA EntryIs ==
  ASSUME NEW A, NEW s, NEW it, NEW a, Leads(A, s), Nil \notin A, NEW n \in A
  PROVE  /\ \A m, q : Reads(A, s, it, a, n, m, q) => Entry(m, q) \in NamesAt(A, s, it, a, n)
         /\ \A e \in NamesAt(A, s, it, a, n) :
              e = Entry(e.node, e.key) /\ Reads(A, s, it, a, n, e.node, e.key)
<1>1. ASSUME NEW m, NEW q, Reads(A, s, it, a, n, m, q)
      PROVE  Entry(m, q) \in NamesAt(A, s, it, a, n)
  <2>1. m \in A /\ q \in Seq(Nat)
    BY <1>1, BehindFacts DEF Reads
  <2>2. /\ Entry(m, q) \in [node : A, key : Seq(Nat)]
        /\ Entry(m, q).node = m /\ Entry(m, q).key = q
    BY <2>1 DEF Entry
  <2> QED BY <1>1, <2>2 DEF NamesAt
<1>2. ASSUME NEW e \in NamesAt(A, s, it, a, n)
      PROVE  e = Entry(e.node, e.key) /\ Reads(A, s, it, a, n, e.node, e.key)
  <2>1. e \in [node : A, key : Seq(Nat)] /\ Reads(A, s, it, a, n, e.node, e.key)
    BY DEF NamesAt
  <2> QED BY <2>1 DEF Entry
<1> QED BY <1>1, <1>2

LEMMA ReadsPart ==
  ASSUME NEW A, NEW s, NEW r, NEW it, NEW a, NEW may, Marked(A, s, r, it, a, may),
         Leads(A, s), Nil \notin A, NEW n \in A, NEW m, NEW q, Reads(A, s, it, a, n, m, q)
  PROVE  \/ m = n /\ q = <<it[n]>>
         \/ /\ s[n][1] # Nil
            /\ \E p : q = Put(it[n], p) /\ Reads(A, s, it, a, s[n][1], m, p)
         \/ s[n][2] # Nil /\ q[1] < it[n] /\ Reads(A, s, it, a, s[n][2], m, q)
         \/ s[n][3] # Nil /\ q[1] > it[n] /\ Reads(A, s, it, a, s[n][3], m, q)
<1>1. m \in Behind(A, s, n)
  BY DEF Reads
<1>2. m = n => q = <<it[n]>>
  BY ReadsSplit
<1>3. ASSUME s[n][1] # Nil, m \in Behind(A, s, s[n][1])
      PROVE  \E p : q = Put(it[n], p) /\ Reads(A, s, it, a, s[n][1], m, p)
  BY <1>3, ReadsSplit
<1>4. ASSUME s[n][2] # Nil, m \in Behind(A, s, s[n][2])
      PROVE  q[1] < it[n] /\ Reads(A, s, it, a, s[n][2], m, q)
  BY <1>4, ReadsSplit
<1>5. ASSUME s[n][3] # Nil, m \in Behind(A, s, s[n][3])
      PROVE  q[1] > it[n] /\ Reads(A, s, it, a, s[n][3], m, q)
  BY <1>5, ReadsSplit
<1>6. m # n => \E k \in Places : s[n][k] # Nil /\ m \in Behind(A, s, s[n][k])
  BY <1>1, BehindParts
<1>7. \A k \in Places : k = 1 \/ k = 2 \/ k = 3
  BY DEF Places
<1> QED BY <1>2, <1>3, <1>4, <1>5, <1>6, <1>7

LEMMA ReadsJoin ==
  ASSUME NEW A, NEW s, NEW r, NEW it, NEW a, NEW may, Marked(A, s, r, it, a, may),
         Leads(A, s), Nil \notin A, NEW n \in A
  PROVE  /\ Reads(A, s, it, a, n, n, <<it[n]>>)
         /\ \A m, p : (s[n][1] # Nil /\ Reads(A, s, it, a, s[n][1], m, p)) =>
                         Reads(A, s, it, a, n, m, Put(it[n], p))
         /\ \A k \in {2, 3} : \A m, q : (s[n][k] # Nil /\ Reads(A, s, it, a, s[n][k], m, q)) =>
                         Reads(A, s, it, a, n, m, q)
<1>1. a[n] \in Seq(Nat) /\ it[n] \in Nat
  BY MarkedIs
<1>2. n \in Behind(A, s, n)
  BY BehindFacts
<1>3. Reads(A, s, it, a, n, n, <<it[n]>>)
  <2>1. Key(it, a, n) = a[n] \o <<it[n]>> /\ <<it[n]>> \in Seq(Nat)
    BY <1>1, KeyConcat
  <2> QED BY <1>2, <2>1 DEF Reads
<1>4. ASSUME NEW m, NEW p, s[n][1] # Nil, Reads(A, s, it, a, s[n][1], m, p)
      PROVE  Reads(A, s, it, a, n, m, Put(it[n], p))
  <2>1. /\ 1 \in Places /\ m \in Behind(A, s, s[n][1]) /\ p \in Seq(Nat)
        /\ a[s[n][1]] \o p = Key(it, a, m)
    BY <1>4 DEF Reads, Places
  <2>2. m \in Behind(A, s, n)
    BY <1>4, <2>1, BehindParts
  <2>3. a[s[n][1]] = Key(it, a, n)
    BY <1>4, <2>1, MarkedBelow
  <2>4. Joined(Key(it, a, n), p) = Joined(a[n], Put(it[n], p))
    BY <1>1, <2>1, KeyRegroup
  <2>5. a[n] \o Put(it[n], p) = Key(it, a, m)
    BY <2>1, <2>3, <2>4 DEF Joined
  <2>6. Put(it[n], p) \in Seq(Nat)
    BY <1>1, <2>1, Prepended
  <2> QED BY <2>2, <2>5, <2>6 DEF Reads
<1>5. ASSUME NEW k \in {2, 3}, NEW m, NEW q, s[n][k] # Nil, Reads(A, s, it, a, s[n][k], m, q)
      PROVE  Reads(A, s, it, a, n, m, q)
  <2>1. /\ k \in Places /\ k # 1 /\ m \in Behind(A, s, s[n][k]) /\ q \in Seq(Nat)
        /\ a[s[n][k]] \o q = Key(it, a, m)
    BY <1>5 DEF Reads, Places
  <2>2. m \in Behind(A, s, n)
    BY <1>5, <2>1, BehindParts
  <2>3. a[s[n][k]] = a[n]
    BY <1>5, <2>1, MarkedBelow
  <2> QED BY <2>1, <2>2, <2>3 DEF Reads
<1> QED BY <1>3, <1>4, <1>5

(* The recursion has one solution. *)
LEMMA NamesSolve ==
  ASSUME NEW A, NEW s, NEW r, NEW it, NEW a, NEW may, Marked(A, s, r, it, a, may),
         Leads(A, s), Nil \notin A, NEW n \in A
  PROVE  NamesAt(A, s, it, a, n) = Collected(s, it, Names(A, s, it, a), n)
<1> DEFINE N == Names(A, s, it, a)
           C == Collected(s, it, N, n)
           Part(k) == Side3(s, N, n, k)
<1>1. \A k \in Places : s[n][k] # Nil => s[n][k] \in A /\ Part(k) = NamesAt(A, s, it, a, s[n][k])
  BY DEF Leads, Names, Side3
<1>2. \A k \in Places : s[n][k] = Nil => Part(k) = {}
  BY DEF Side3
<1>3. 1 \in Places /\ 2 \in Places /\ 3 \in Places
  BY DEF Places
<1>4. C = {Entry(n, <<it[n]>>)} \cup Prefixed(it[n], Part(1)) \cup Part(2) \cup Part(3)
  BY DEF Collected, Entry
<1>5. Prefixed(it[n], Part(1)) = {Entry(e.node, Put(it[n], e.key)) : e \in Part(1)}
  BY DEF Prefixed, Entry, Put
<1> HIDE DEF N, C, Part
<1>6. ASSUME NEW e \in NamesAt(A, s, it, a, n)  PROVE e \in C
  <2> DEFINE m == e.node
             q == e.key
  <2>1. e = Entry(m, q) /\ Reads(A, s, it, a, n, m, q)
    BY EntryIs
  <2> HIDE DEF m, q
  <2>2. CASE m = n /\ q = <<it[n]>>
    BY <1>4, <2>1, <2>2
  <2>3. ASSUME s[n][1] # Nil, NEW p, q = Put(it[n], p), Reads(A, s, it, a, s[n][1], m, p)
        PROVE  e \in C
    <3>1. s[n][1] \in A /\ Part(1) = NamesAt(A, s, it, a, s[n][1])
      BY <1>1, <1>3, <2>3
    <3>2. Entry(m, p) \in Part(1)
      BY <2>3, <3>1, EntryIs
    <3>3. Entry(m, p).node = m /\ Entry(m, p).key = p
      BY DEF Entry
    <3>4. e \in Prefixed(it[n], Part(1))
      BY <1>5, <2>1, <2>3, <3>2, <3>3
    <3> QED BY <1>4, <3>4
  <2>4. ASSUME NEW k \in {2, 3}, s[n][k] # Nil, Reads(A, s, it, a, s[n][k], m, q)
        PROVE  e \in C
    <3>1. s[n][k] \in A /\ Part(k) = NamesAt(A, s, it, a, s[n][k])
      BY <1>1, <1>3, <2>4
    <3>2. e \in Part(k)
      BY <2>1, <2>4, <3>1, EntryIs
    <3> QED BY <1>4, <3>2
  <2> QED BY <2>1, <2>2, <2>3, <2>4, ReadsPart
<1>7. ASSUME NEW e \in C  PROVE e \in NamesAt(A, s, it, a, n)
  <2>1. CASE e = Entry(n, <<it[n]>>)
    BY <2>1, ReadsJoin, EntryIs
  <2>2. CASE e \in Prefixed(it[n], Part(1))
    <3>1. PICK d \in Part(1) : e = Entry(d.node, Put(it[n], d.key))
      BY <1>5, <2>2
    <3>2. s[n][1] # Nil /\ s[n][1] \in A /\ d \in NamesAt(A, s, it, a, s[n][1])
      BY <1>1, <1>2, <1>3
    <3>3. Reads(A, s, it, a, s[n][1], d.node, d.key)
      BY <3>2, EntryIs
    <3>4. Reads(A, s, it, a, n, d.node, Put(it[n], d.key))
      BY <3>2, <3>3, ReadsJoin
    <3> QED BY <3>1, <3>4, EntryIs
  <2>3. ASSUME NEW k \in {2, 3}, e \in Part(k)  PROVE e \in NamesAt(A, s, it, a, n)
    <3>1. s[n][k] # Nil /\ s[n][k] \in A /\ e \in NamesAt(A, s, it, a, s[n][k])
      BY <1>1, <1>2, <1>3, <2>3
    <3>2. e = Entry(e.node, e.key) /\ Reads(A, s, it, a, s[n][k], e.node, e.key)
      BY <3>1, EntryIs
    <3>3. Reads(A, s, it, a, n, e.node, e.key)
      BY <3>1, <3>2, ReadsJoin
    <3> QED BY <3>2, <3>3, EntryIs
  <2> QED BY <1>4, <2>1, <2>2, <2>3
<1> QED BY <1>6, <1>7 DEF C, N

LEMMA NamesUnique ==
  ASSUME NEW A, IsFiniteSet(A), NEW s, NEW r, Tree(A, s, r), Nil \notin A, NEW it, NEW f, NEW g,
         NamesBelow(A, s, it, f), NamesBelow(A, s, it, g)
  PROVE  f = g
<1> DEFINE B == {n \in A : f[n] # g[n]}
<1>1. \A n \in A : f[n] = Collected(s, it, f, n) /\ g[n] = Collected(s, it, g, n)
  BY DEF NamesBelow
<1>2. ASSUME NEW n \in B, \A k \in Places : s[n][k] \notin B  PROVE FALSE
  <2>1. \A k \in Places : Side3(s, f, n, k) = Side3(s, g, n, k)
    <3> SUFFICES ASSUME NEW k \in Places, s[n][k] # Nil  PROVE f[s[n][k]] = g[s[n][k]]
      BY DEF Side3
    <3>1. s[n][k] \in A
      BY DEF Tree, Leads
    <3> QED BY <1>2, <3>1
  <2>2. Collected(s, it, f, n) = Collected(s, it, g, n)
    BY <2>1 DEF Collected, Places
  <2> QED BY <1>1, <2>2
<1>3. B = {}
  <2> HIDE DEF B
  <2>1. B \in SUBSET A
    BY DEF B
  <2> QED BY <1>2, <2>1, NoDescent
<1>4. \A n \in A : f[n] = g[n]
  BY <1>3
<1>5. f = [n \in A |-> f[n]] /\ g = [n \in A |-> g[n]]
  BY DEF NamesBelow
<1> QED BY <1>4, <1>5

(* Named is what the marks say: every node, with its key. *)
LEMMA NamedIs ==
  ASSUME Tree(alive, sub, root), IsFiniteSet(alive), Nil \notin alive,
         NEW a, NEW may, Marked(alive, sub, root, item, a, may)
  PROVE  Named = {Entry(n, Key(item, a, n)) : n \in alive}
<1>0. Leads(alive, sub)
  BY DEF Tree
<1>1. CASE root = Nil
  <2>1. alive = {}
    <3>1. root \in {} \cup {Nil} /\ Leads({}, sub)
      BY <1>1 DEF Leads
    <3> QED BY <3>1 DEF Tree, Rooted
  <2>2. Named = {}
    BY <1>1, NamedUnfolds
  <2> QED BY <2>1, <2>2
<1>2. CASE root # Nil
  <2> DEFINE N == Names(alive, sub, item, a)
             f == CHOOSE g : NamesBelow(alive, sub, item, g)
  <2>1. root \in alive
    BY <1>2 DEF Tree
  <2>2. NamesBelow(alive, sub, item, N)
    <3>1. \A n \in alive : NamesAt(alive, sub, item, a, n) = Collected(sub, item, N, n)
      BY <1>0, NamesSolve
    <3>2. N = [n \in alive |-> NamesAt(alive, sub, item, a, n)]
      BY DEF Names
    <3> HIDE DEF N
    <3> QED BY <3>1, <3>2 DEF NamesBelow
  <2>3. NamesBelow(alive, sub, item, f)
    BY <2>2, Zenon
  <2> HIDE DEF f
  <2>4. f = N
    BY <2>2, <2>3, NamesUnique
  <2>5. Named = NamesAt(alive, sub, item, a, root)
    <3>1. Named = f[root]
      BY <1>2, NamedUnfolds DEF f
    <3> QED BY <2>1, <2>4, <3>1 DEF Names
  <2>6. Behind(alive, sub, root) = alive
    BY <2>1, BehindRoot
  <2>7. a[root] = <<>>
    BY <1>2 DEF Marked
  <2>8. ASSUME NEW m, NEW q
        PROVE  Reads(alive, sub, item, a, root, m, q) <=> m \in alive /\ q = Key(item, a, m)
    <3>1. CASE m \in alive
      <4>1. Key(item, a, m) \in Seq(Nat)
        BY <3>1, KeyIs
      <4>2. \A p \in Seq(Nat) : <<>> \o p = p
        BY ConcatEmptySeq
      <4> QED BY <2>6, <2>7, <3>1, <4>1, <4>2 DEF Reads
    <3>2. CASE m \notin alive
      BY <2>6, <3>2 DEF Reads
    <3> QED BY <3>1, <3>2
  <2>9. ASSUME NEW e \in NamesAt(alive, sub, item, a, root)
        PROVE  e \in {Entry(n, Key(item, a, n)) : n \in alive}
    <3>1. e = Entry(e.node, e.key) /\ Reads(alive, sub, item, a, root, e.node, e.key)
      BY <1>0, <2>1, EntryIs
    <3>2. e.node \in alive /\ e.key = Key(item, a, e.node)
      BY <2>8, <3>1
    <3> QED BY <3>1, <3>2
  <2>10. ASSUME NEW n \in alive  PROVE Entry(n, Key(item, a, n)) \in NamesAt(alive, sub, item, a, root)
    <3>1. Reads(alive, sub, item, a, root, n, Key(item, a, n))
      BY <2>8
    <3> QED BY <1>0, <2>1, <3>1, EntryIs
  <2> QED BY <2>5, <2>9, <2>10
<1> QED BY <1>1, <1>2

-----------------------------------------------------------------------------
(***************************************************************************)
(* No two nodes have one key, and a search comes by the node of its key.   *)
(***************************************************************************)
LEMMA PutOne ==
  ASSUME NEW p \in Seq(Nat), NEW c \in Nat
  PROVE  /\ Put(c, p) = <<c>> => p = <<>>
         /\ \A q \in Seq(Nat) : Put(c, p) = Put(c, q) => p = q
<1> DEFINE u == <<c>>
<1>1. u \in Seq(Nat)
  OBVIOUS
<1>2. \A q : Put(c, q) = u \o q
  BY DEF Put
<1> HIDE DEF u
<1>3. u \o p = u => p = <<>>
  BY <1>1, ConcatEqualIffEmpty
<1>4. \A q \in Seq(Nat) : u \o p = u \o q => p = q
  BY <1>1, Cancel
<1>5. Put(c, p) = u => p = <<>>
  BY <1>2, <1>3
<1>6. \A q \in Seq(Nat) : Put(c, p) = Put(c, q) => p = q
  BY <1>2, <1>4
<1> QED BY <1>5, <1>6 DEF u

(* A key that goes on at slot k of n, by a character the slot is for, is   *)
(* behind that slot.                                                       *)
LEMMA SlotHolds ==
  ASSUME NEW A, NEW s, NEW r, NEW it, NEW a, NEW may, Marked(A, s, r, it, a, may),
         Leads(A, s), Nil \notin A, NEW n \in A, NEW m \in A,
         ReadOn(it, a, may, n, m) => m \in Behind(A, s, n),
         NEW k \in Places, NEW p \in Seq(Nat), p # <<>>, p[1] \in Room(it, may, n, k),
         Joined(Above(it, a, n, k), p) = Key(it, a, m)
  PROVE  s[n][k] # Nil /\ m \in Behind(A, s, s[n][k])
<1>1. a[n] \in Seq(Nat) /\ it[n] \in Nat /\ it[n] \in may[n]
  BY MarkedIs
<1>2. CASE k = 1
  <2>1. Above(it, a, n, k) = Key(it, a, n)
    BY <1>2 DEF Above, Key
  <2>2. Joined(Key(it, a, n), p) = Joined(a[n], Put(it[n], p))
    BY <1>1, KeyRegroup
  <2>3. Put(it[n], p) \in Seq(Nat) /\ Put(it[n], p)[1] = it[n] /\ Put(it[n], p) # <<>>
    BY <1>1, Prepended
  <2>4. a[n] \o Put(it[n], p) = Key(it, a, m)
    BY <2>1, <2>2 DEF Joined
  <2> DEFINE q == Put(it[n], p)
  <2>5. q \in Seq(Nat) /\ q # <<>> /\ q[1] = it[n] /\ a[n] \o q = Key(it, a, m) /\ q # <<it[n]>>
    BY <1>1, <2>3, <2>4, PutOne
  <2> HIDE DEF q
  <2>6. ReadOn(it, a, may, n, m)
    BY <1>1, <2>5 DEF ReadOn
  <2>7. Reads(A, s, it, a, n, m, q)
    BY <2>5, <2>6 DEF Reads
  <2>8. \/ s[n][1] # Nil /\ \E l : Reads(A, s, it, a, s[n][1], m, l)
        \/ q[1] < it[n] \/ q[1] > it[n]
    BY <2>5, <2>7, ReadsPart
  <2>9. s[n][1] # Nil /\ \E l : Reads(A, s, it, a, s[n][1], m, l)
    BY <1>1, <2>5, <2>8
  <2> QED BY <1>2, <2>9 DEF Reads
<1>3. CASE k # 1
  <2>1. Above(it, a, n, k) = a[n]
    BY <1>3 DEF Above
  <2>2. a[n] \o p = Key(it, a, m)
    BY <2>1 DEF Joined
  <2>3. /\ p[1] \in may[n] /\ p[1] \in Nat /\ k \in {2, 3}
        /\ k = 2 => p[1] < it[n]
        /\ k = 3 => p[1] > it[n]
    <3>1. may[n] \in SUBSET Nat
      BY MarkedIs
    <3> QED BY <1>3, <3>1 DEF Room, Places
  <2>4. ReadOn(it, a, may, n, m)
    BY <2>2, <2>3 DEF ReadOn
  <2>5. Reads(A, s, it, a, n, m, p)
    BY <2>2, <2>4 DEF Reads
  <2>6. ASSUME NEW l, p = Put(it[n], l), Reads(A, s, it, a, s[n][1], m, l)  PROVE p[1] = it[n]
    BY <1>1, <2>6, Prepended DEF Reads
  <2>7. p = <<it[n]>> => p[1] = it[n]
    OBVIOUS
  <2>8. \/ s[n][2] # Nil /\ p[1] < it[n] /\ Reads(A, s, it, a, s[n][2], m, p)
        \/ s[n][3] # Nil /\ p[1] > it[n] /\ Reads(A, s, it, a, s[n][3], m, p)
    <3>1. p[1] # it[n]
      BY <1>1, <2>3
    <3> QED BY <2>5, <2>6, <2>7, <3>1, ReadsPart
  <2>9. s[n][k] # Nil /\ Reads(A, s, it, a, s[n][k], m, p)
    BY <1>1, <2>3, <2>8
  <2> QED BY <2>9 DEF Reads
<1> QED BY <1>2, <1>3

LEMMA Holds ==
  ASSUME NEW A, NEW s, NEW r, Tree(A, s, r), NEW it, NEW a, NEW may,
         Marked(A, s, r, it, a, may), Nil \notin A, NEW n \in A, NEW m \in A,
         ReadOn(it, a, may, n, m)
  PROVE  m \in Behind(A, s, n)
<1> DEFINE S == {l \in A : \A o \in A : ReadOn(it, a, may, l, o) => o \in Behind(A, s, l)}
<1>1. r \in S \cup {Nil}
  BY BehindRoot DEF Tree
<1>2. Leads(S, s)
  <2> SUFFICES ASSUME NEW l \in S, NEW k \in Places, s[l][k] # Nil,
                      NEW o \in A, ReadOn(it, a, may, s[l][k], o)
               PROVE  o \in Behind(A, s, s[l][k])
    BY DEF Leads, Tree
  <2>1. /\ a[s[l][k]] = Above(it, a, l, k) /\ may[s[l][k]] = Room(it, may, l, k)
    BY DEF Marked
  <2>2. PICK p \in Seq(Nat) : p # <<>> /\ p[1] \in may[s[l][k]] /\ a[s[l][k]] \o p = Key(it, a, o)
    BY DEF ReadOn
  <2>3. Joined(Above(it, a, l, k), p) = Key(it, a, o) /\ p[1] \in Room(it, may, l, k)
    BY <2>1, <2>2 DEF Joined
  <2>4. ReadOn(it, a, may, l, o) => o \in Behind(A, s, l)
    OBVIOUS
  <2> QED BY <2>2, <2>3, <2>4, SlotHolds DEF Tree
<1>3. S \in SUBSET A
  OBVIOUS
<1> HIDE DEF S
<1>4. S = A
  BY <1>1, <1>2, <1>3 DEF Tree, Rooted
<1> QED BY <1>4 DEF S

(* Two nodes have different keys. *)
LEMMA KeysDiffer ==
  ASSUME NEW A, NEW s, NEW r, Tree(A, s, r), NEW it, NEW a, NEW may,
         Marked(A, s, r, it, a, may), Nil \notin A, NEW n \in A, NEW m \in A,
         Key(it, a, n) = Key(it, a, m)
  PROVE  n = m
<1>1. ASSUME NEW l \in A, NEW o \in A, Key(it, a, l) = Key(it, a, o)
      PROVE  o \in Behind(A, s, l)
  <2>1. a[l] \in Seq(Nat) /\ it[l] \in Nat /\ it[l] \in may[l]
    BY MarkedIs
  <2>2. Key(it, a, l) = a[l] \o <<it[l]>> /\ <<it[l]>> \in Seq(Nat)
    BY <2>1, KeyConcat
  <2>3. <<it[l]>> # <<>> /\ <<it[l]>>[1] = it[l]
    OBVIOUS
  <2>4. ReadOn(it, a, may, l, o)
    BY <1>1, <2>1, <2>2, <2>3 DEF ReadOn
  <2> QED BY <2>4, Holds
<1>2. m \in Behind(A, s, n) /\ n \in Behind(A, s, m)
  BY <1>1
<1> QED BY <1>2, BehindEach

LEMMA ReadsOne ==
  ASSUME NEW A, NEW s, NEW r, Tree(A, s, r), NEW it, NEW a, NEW may,
         Marked(A, s, r, it, a, may), Nil \notin A, NEW n \in A, NEW m, NEW o, NEW q,
         Reads(A, s, it, a, n, m, q), Reads(A, s, it, a, n, o, q)
  PROVE  m = o
<1>1. m \in A /\ o \in A
  BY BehindFacts DEF Reads, Tree
<1>2. Key(it, a, m) = Key(it, a, o)
  BY DEF Reads
<1> QED BY <1>1, <1>2, KeysDiffer

(* What NodeOf looks for, from node n and character p of the key w on. *)
Rest(w, p) == SubSeq(w, p, Len(w))
Onward(s, f, n, l, p) == IF s[n][l] = Nil THEN Nil ELSE f[s[n][l]][p]
Finds(s, it, w, f, n, p) ==
  IF w[p] < it[n] THEN Onward(s, f, n, 2, p)
  ELSE IF w[p] > it[n] THEN Onward(s, f, n, 3, p)
  ELSE IF p = Len(w) THEN n ELSE Onward(s, f, n, 1, p + 1)
FindsBelow(A, s, it, w, f) ==
  f = [n \in A |-> [p \in 1..Len(w) |-> Finds(s, it, w, f, n, p)]]

LEMMA NodeOfUnfolds ==
  ASSUME NEW w
  PROVE  NodeOf(w) =
           IF root = Nil THEN Nil ELSE (CHOOSE f : FindsBelow(alive, sub, item, w, f))[root][1]
BY Zenon DEF NodeOf, FindsBelow, Finds, Onward

FoundAs(A, s, it, a, n, q, v) ==
  IF v = Nil THEN \A m : ~Reads(A, s, it, a, n, m, q) ELSE Reads(A, s, it, a, n, v, q)

LEMMA RestIs ==
  ASSUME NEW w \in Seq(Nat), NEW p \in 1..Len(w)
  PROVE  /\ Rest(w, p) \in Seq(Nat) /\ Rest(w, p) # <<>> /\ Rest(w, p)[1] = w[p] /\ w[p] \in Nat
         /\ p = Len(w) => Rest(w, p) = <<w[p]>>
         /\ p # Len(w) => /\ p + 1 \in 1..Len(w)
                          /\ Rest(w, p + 1) # <<>> /\ Rest(w, p + 1) \in Seq(Nat)
                          /\ Rest(w, p) = Put(w[p], Rest(w, p + 1))
<1>1. Len(w) \in Nat /\ \A j \in p..Len(w) : w[j] \in Nat
  BY LenProperties, ElementOfSeq
<1>2. /\ Rest(w, p) \in Seq(Nat) /\ Len(Rest(w, p)) = Len(w) - p + 1
      /\ \A j \in 1..(Len(w) - p + 1) : Rest(w, p)[j] = w[p + j - 1]
  BY <1>1, SubSeqProperties DEF Rest
<1>3. Rest(w, p) # <<>> /\ Rest(w, p)[1] = w[p] /\ w[p] \in Nat
  BY <1>1, <1>2
<1>4. Rest(w, p) = <<w[p]>> \o Rest(w, p + 1)
  BY <1>1, SubSeqRecursiveFirst DEF Rest
<1>5. CASE p = Len(w)
  <2>1. Rest(w, p + 1) = <<>>
    BY <1>1, <1>5, SubSeqEmpty DEF Rest
  <2>2. <<w[p]>> \in Seq(Nat) /\ <<w[p]>> \o <<>> = <<w[p]>>
    BY <1>3, ConcatEmptySeq
  <2> QED BY <1>2, <1>3, <1>4, <1>5, <2>1, <2>2
<1>6. CASE p # Len(w)
  <2>1. p + 1 \in 1..Len(w)
    BY <1>1, <1>6
  <2>2. \A j \in (p + 1)..Len(w) : w[j] \in Nat
    BY <1>1
  <2>3. /\ Rest(w, p + 1) \in Seq(Nat) /\ Len(Rest(w, p + 1)) = Len(w) - (p + 1) + 1
    BY <1>1, <2>1, <2>2, SubSeqProperties DEF Rest
  <2>4. Rest(w, p + 1) # <<>>
    BY <1>1, <2>1, <2>3
  <2> QED BY <1>2, <1>3, <1>4, <1>6, <2>1, <2>3, <2>4 DEF Put
<1> QED BY <1>5, <1>6

(* The search goes on where the rest of the key is. *)
LEMMA FoundMoves ==
  ASSUME NEW A, NEW s, NEW it, NEW a, NEW n, NEW q, NEW l, NEW o, NEW f, NEW p, Nil \notin A,
         Leads(A, s), n \in A, l \in Places,
         \A m : Reads(A, s, it, a, n, m, q) <=>
                  s[n][l] # Nil /\ Reads(A, s, it, a, s[n][l], m, o),
         s[n][l] # Nil => FoundAs(A, s, it, a, s[n][l], o, f[s[n][l]][p])
  PROVE  FoundAs(A, s, it, a, n, q, Onward(s, f, n, l, p))
<1>1. CASE s[n][l] = Nil
  BY <1>1 DEF FoundAs, Onward
<1>2. CASE s[n][l] # Nil
  BY <1>2 DEF FoundAs, Onward
<1> QED BY <1>1, <1>2

LEMMA FindsStep ==
  ASSUME NEW A, NEW s, NEW r, NEW it, NEW a, NEW may, Marked(A, s, r, it, a, may),
         Leads(A, s), Nil \notin A, NEW w \in Seq(Nat), NEW f, NEW n \in A, NEW p \in 1..Len(w),
         \A l \in Places, j \in 1..Len(w) :
            s[n][l] # Nil => FoundAs(A, s, it, a, s[n][l], Rest(w, j), f[s[n][l]][j])
  PROVE  FoundAs(A, s, it, a, n, Rest(w, p), Finds(s, it, w, f, n, p))
<1> DEFINE q == Rest(w, p)
<1>1. /\ q \in Seq(Nat) /\ q # <<>> /\ q[1] = w[p] /\ w[p] \in Nat
      /\ p = Len(w) => q = <<w[p]>>
      /\ p # Len(w) => /\ p + 1 \in 1..Len(w)
                       /\ Rest(w, p + 1) # <<>> /\ Rest(w, p + 1) \in Seq(Nat)
                       /\ q = Put(w[p], Rest(w, p + 1))
  BY RestIs
<1>2. it[n] \in Nat /\ 1 \in Places /\ 2 \in Places /\ 3 \in Places
  <2>1. it[n] \in Nat
    BY MarkedIs
  <2> QED BY <2>1 DEF Places
<1> HIDE DEF q
<1>9. /\ w[p] < it[n] => ~(w[p] > it[n]) /\ w[p] # it[n]
      /\ w[p] > it[n] => ~(w[p] < it[n]) /\ w[p] # it[n]
      /\ w[p] = it[n] => ~(w[p] < it[n]) /\ ~(w[p] > it[n])
      /\ w[p] < it[n] \/ w[p] > it[n] \/ w[p] = it[n]
  BY <1>1, <1>2
<1>10. q = <<it[n]>> => q[1] = it[n]
  OBVIOUS
<1>3. \A m, l : (q = Put(it[n], l) /\ Reads(A, s, it, a, s[n][1], m, l)) => q[1] = it[n]
  BY <1>2, Prepended DEF Reads
<1>4. \A k \in {2, 3} : \A m : (s[n][k] # Nil /\ Reads(A, s, it, a, s[n][k], m, q)) =>
                              Reads(A, s, it, a, n, m, q)
  BY ReadsJoin
<1>5. CASE w[p] < it[n]
  <2>1. ASSUME NEW m, Reads(A, s, it, a, n, m, q)
        PROVE  s[n][2] # Nil /\ Reads(A, s, it, a, s[n][2], m, q)
    <3>1. q # <<it[n]>> /\ q[1] # it[n] /\ ~(q[1] > it[n])
      BY <1>1, <1>5, <1>9, <1>10
    <3> QED BY <1>3, <2>1, <3>1, ReadsPart
  <2>2. FoundAs(A, s, it, a, n, q, Onward(s, f, n, 2, p))
    BY <1>2, <1>4, <2>1, FoundMoves DEF q
  <2> QED BY <1>5, <2>2 DEF Finds, q
<1>6. CASE w[p] > it[n]
  <2>1. ASSUME NEW m, Reads(A, s, it, a, n, m, q)
        PROVE  s[n][3] # Nil /\ Reads(A, s, it, a, s[n][3], m, q)
    <3>1. q # <<it[n]>> /\ q[1] # it[n] /\ ~(q[1] < it[n])
      BY <1>1, <1>6, <1>9, <1>10
    <3> QED BY <1>3, <2>1, <3>1, ReadsPart
  <2>2. FoundAs(A, s, it, a, n, q, Onward(s, f, n, 3, p))
    BY <1>2, <1>4, <2>1, FoundMoves DEF q
  <2>3. ~(w[p] < it[n])
    BY <1>6, <1>9
  <2> QED BY <1>6, <2>2, <2>3 DEF Finds, q
<1>7. CASE w[p] = it[n] /\ p = Len(w)
  <2>1. Reads(A, s, it, a, n, n, q)
    BY <1>1, <1>7, ReadsJoin
  <2>2. FoundAs(A, s, it, a, n, q, n)
    BY <2>1 DEF FoundAs
  <2>3. ~(w[p] < it[n]) /\ ~(w[p] > it[n])
    BY <1>7, <1>9
  <2> QED BY <1>7, <2>2, <2>3 DEF Finds, q
<1>8. CASE w[p] = it[n] /\ p # Len(w)
  <2> DEFINE o == Rest(w, p + 1)
  <2>1. o # <<>> /\ o \in Seq(Nat) /\ q = Put(it[n], o) /\ p + 1 \in 1..Len(w)
    BY <1>1, <1>8
  <2> HIDE DEF o
  <2>2. ASSUME NEW m, Reads(A, s, it, a, n, m, q)
        PROVE  s[n][1] # Nil /\ Reads(A, s, it, a, s[n][1], m, o)
    <3>1. q # <<it[n]>> /\ ~(q[1] < it[n]) /\ ~(q[1] > it[n])
      <4>1. q # <<it[n]>>
        BY <1>2, <2>1, <1>8, PutOne
      <4> QED BY <1>1, <1>8, <1>9, <4>1
    <3>2. s[n][1] # Nil /\ \E l : q = Put(it[n], l) /\ Reads(A, s, it, a, s[n][1], m, l)
      BY <2>2, <3>1, ReadsPart
    <3>3. PICK l : q = Put(it[n], l) /\ Reads(A, s, it, a, s[n][1], m, l)
      BY <3>2
    <3>4. l = o
      <4>1. l \in Seq(Nat)
        BY <3>3 DEF Reads
      <4> QED BY <1>2, <2>1, <3>3, <4>1, PutOne
    <3> QED BY <3>2, <3>3, <3>4
  <2>3. \A m : (s[n][1] # Nil /\ Reads(A, s, it, a, s[n][1], m, o)) => Reads(A, s, it, a, n, m, q)
    BY <2>1, ReadsJoin
  <2>4. s[n][1] # Nil => FoundAs(A, s, it, a, s[n][1], o, f[s[n][1]][p + 1])
    BY <1>2, <2>1 DEF o
  <2>5. FoundAs(A, s, it, a, n, q, Onward(s, f, n, 1, p + 1))
    BY <1>2, <2>2, <2>3, <2>4, FoundMoves
  <2>6. ~(w[p] < it[n]) /\ ~(w[p] > it[n])
    BY <1>8, <1>9
  <2> QED BY <1>8, <2>5, <2>6 DEF Finds, q
<1> QED BY <1>5, <1>6, <1>7, <1>8, <1>9

-----------------------------------------------------------------------------
(***************************************************************************)
(* NodeOf is that search.                                                  *)
(***************************************************************************)
(* What the search finds everywhere, in one table. *)
Sought(A, s, it, a, n, q) == CHOOSE v : FoundAs(A, s, it, a, n, q, v)
FoundTable(A, s, it, a, w) ==
  [n \in A |-> [p \in 1..Len(w) |-> Sought(A, s, it, a, n, Rest(w, p))]]

LEMMA FoundOne ==
  ASSUME NEW A, NEW s, NEW r, Tree(A, s, r), NEW it, NEW a, NEW may,
         Marked(A, s, r, it, a, may), Nil \notin A, NEW n \in A, NEW q, NEW v, NEW x,
         FoundAs(A, s, it, a, n, q, v), FoundAs(A, s, it, a, n, q, x)
  PROVE  v = x
<1>1. CASE v = Nil
  BY <1>1 DEF FoundAs
<1>2. CASE v # Nil /\ x = Nil
  BY <1>2 DEF FoundAs
<1>3. CASE v # Nil /\ x # Nil
  <2>1. Reads(A, s, it, a, n, v, q) /\ Reads(A, s, it, a, n, x, q)
    BY <1>3 DEF FoundAs
  <2> QED BY <2>1, ReadsOne
<1> QED BY <1>1, <1>2, <1>3

LEMMA SoughtIs ==
  ASSUME NEW A, NEW s, Nil \notin A, Leads(A, s), NEW it, NEW a, NEW n \in A, NEW q
  PROVE  FoundAs(A, s, it, a, n, q, Sought(A, s, it, a, n, q))
<1>1. \E v : FoundAs(A, s, it, a, n, q, v)
  <2>1. CASE \E m : Reads(A, s, it, a, n, m, q)
    <3>1. PICK m : Reads(A, s, it, a, n, m, q)
      BY <2>1
    <3>2. m # Nil
      BY <3>1, BehindFacts DEF Reads
    <3> QED BY <3>1, <3>2 DEF FoundAs
  <2>2. CASE \A m : ~Reads(A, s, it, a, n, m, q)
    <3>1. FoundAs(A, s, it, a, n, q, Nil)
      BY <2>2 DEF FoundAs
    <3> QED BY <3>1
  <2> QED BY <2>1, <2>2
<1> QED BY <1>1 DEF Sought

LEMMA TableFinds ==
  ASSUME NEW A, NEW s, NEW r, Tree(A, s, r), NEW it, NEW a, NEW may,
         Marked(A, s, r, it, a, may), Nil \notin A, NEW w \in Seq(Nat)
  PROVE  FindsBelow(A, s, it, w, FoundTable(A, s, it, a, w))
<1> DEFINE F == FoundTable(A, s, it, a, w)
<1>0. Leads(A, s)
  BY DEF Tree
<1>1. \A n \in A, p \in 1..Len(w) : F[n][p] = Sought(A, s, it, a, n, Rest(w, p))
  BY DEF FoundTable
<1>2. \A n \in A, p \in 1..Len(w) : FoundAs(A, s, it, a, n, Rest(w, p), F[n][p])
  BY <1>0, <1>1, SoughtIs
<1>6. F = [n \in A |-> [p \in 1..Len(w) |-> Sought(A, s, it, a, n, Rest(w, p))]]
  BY DEF FoundTable
<1> HIDE DEF F
<1>3. ASSUME NEW n \in A, NEW p \in 1..Len(w)  PROVE F[n][p] = Finds(s, it, w, F, n, p)
  <2>1. \A l \in Places, j \in 1..Len(w) :
           s[n][l] # Nil => FoundAs(A, s, it, a, s[n][l], Rest(w, j), F[s[n][l]][j])
    BY <1>0, <1>2 DEF Leads
  <2>2. FoundAs(A, s, it, a, n, Rest(w, p), Finds(s, it, w, F, n, p))
    BY <1>0, <2>1, FindsStep
  <2> QED BY <1>2, <2>2, FoundOne
<1>4. F = [n \in A |-> [p \in 1..Len(w) |-> Finds(s, it, w, F, n, p)]]
  <2>1. \A n \in A : [p \in 1..Len(w) |-> Sought(A, s, it, a, n, Rest(w, p))]
                       = [p \in 1..Len(w) |-> Finds(s, it, w, F, n, p)]
    BY <1>1, <1>3
  <2> QED BY <1>6, <2>1
<1> QED BY <1>4 DEF FindsBelow, F

LEMMA FindsFound ==
  ASSUME NEW A, IsFiniteSet(A), NEW s, NEW r, Tree(A, s, r), NEW it, NEW a, NEW may,
         Marked(A, s, r, it, a, may), Nil \notin A, NEW w \in Seq(Nat),
         NEW f, FindsBelow(A, s, it, w, f)
  PROVE  \A n \in A, p \in 1..Len(w) : FoundAs(A, s, it, a, n, Rest(w, p), f[n][p])
<1> DEFINE Right(n) == \A p \in 1..Len(w) : FoundAs(A, s, it, a, n, Rest(w, p), f[n][p])
           B == {n \in A : ~Right(n)}
<1>0. Leads(A, s)
  BY DEF Tree
<1>1. \A n \in A, p \in 1..Len(w) : f[n][p] = Finds(s, it, w, f, n, p)
  <2>1. \A n \in A : f[n] = [p \in 1..Len(w) |-> Finds(s, it, w, f, n, p)]
    BY Zenon DEF FindsBelow
  <2>2. ASSUME NEW n \in A, NEW p \in 1..Len(w)  PROVE f[n][p] = Finds(s, it, w, f, n, p)
    <3>1. f[n] = [j \in 1..Len(w) |-> Finds(s, it, w, f, n, j)]
      BY <2>1
    <3> QED BY <3>1, Zenon
  <2> QED BY <2>2
<1>2. ASSUME NEW n \in A, \A l \in Places : s[n][l] # Nil => Right(s[n][l])  PROVE Right(n)
  <2> SUFFICES ASSUME NEW p \in 1..Len(w)
               PROVE  FoundAs(A, s, it, a, n, Rest(w, p), f[n][p])
    OBVIOUS
  <2>1. \A l \in Places, j \in 1..Len(w) :
           s[n][l] # Nil => FoundAs(A, s, it, a, s[n][l], Rest(w, j), f[s[n][l]][j])
    BY <1>2
  <2>2. FoundAs(A, s, it, a, n, Rest(w, p), Finds(s, it, w, f, n, p))
    BY <1>0, <2>1, FindsStep
  <2> QED BY <1>1, <2>2
<1> HIDE DEF Right
<1>3. \A n \in B : \E l \in Places : s[n][l] \in B
  <2> SUFFICES ASSUME NEW n \in B, \A l \in Places : s[n][l] \notin B  PROVE FALSE
    OBVIOUS
  <2>1. \A l \in Places : s[n][l] # Nil => Right(s[n][l])
    BY <1>0 DEF Leads
  <2> QED BY <1>2, <2>1
<1>4. B = {}
  <2>1. B \in SUBSET A
    OBVIOUS
  <2> HIDE DEF B
  <2> QED BY <1>3, <2>1, NoDescent
<1>5. \A n \in A : Right(n)
  BY <1>4
<1> QED BY <1>5 DEF Right

(* The search downwards finds the node of a key, if there is one. *)
LEMMA NodeOfFinds ==
  ASSUME Tree(alive, sub, root), IsFiniteSet(alive), Nil \notin alive,
         NEW a, NEW may, Marked(alive, sub, root, item, a, may), NEW m \in alive
  PROVE  NodeOf(Key(item, a, m)) = m
<1> DEFINE w == Key(item, a, m)
           f == CHOOSE g : FindsBelow(alive, sub, item, w, g)
<1>1. w \in Seq(Nat) /\ w # <<>> /\ a[m] \in Seq(Nat) /\ item[m] \in Nat
  <2>1. a[m] \in Seq(Nat) /\ item[m] \in Nat
    BY MarkedIs
  <2> QED BY <2>1, AppendProperties DEF Key
<1>2. root \in alive
  <2> SUFFICES ASSUME root = Nil  PROVE FALSE
    BY DEF Tree
  <2>1. root \in {} \cup {Nil} /\ Leads({}, sub)
    BY DEF Leads
  <2> QED BY <2>1 DEF Tree, Rooted
<1>8. root # Nil
  BY <1>2
<1>3. NodeOf(w) = f[root][1]
  <2> HIDE DEF w
  <2> QED BY <1>8, NodeOfUnfolds
<1> HIDE DEF w
<1>4. FindsBelow(alive, sub, item, w, f)
  BY <1>1, TableFinds
<1> HIDE DEF f
<1>5. Len(w) \in Nat /\ 1 \in 1..Len(w) /\ Rest(w, 1) = w
  <2>1. Len(w) \in Nat /\ Len(w) # 0
    BY <1>1, LenProperties, EmptySeq
  <2>2. SubSeq(w, 1, Len(w)) = w
    BY <1>1, SubSeqFull
  <2> QED BY <2>1, <2>2 DEF Rest
<1>6. FoundAs(alive, sub, item, a, root, w, f[root][1])
  <2>1. \A n \in alive, p \in 1..Len(w) : FoundAs(alive, sub, item, a, n, Rest(w, p), f[n][p])
    BY <1>1, <1>4, FindsFound
  <2> QED BY <1>2, <1>5, <2>1
<1>7. Reads(alive, sub, item, a, root, m, w)
  <2>1. m \in Behind(alive, sub, root)
    BY <1>2, BehindRoot
  <2>2. a[root] = <<>>
    BY <1>8 DEF Marked
  <2>3. <<>> \o w = w
    BY <1>1, ConcatEmptySeq
  <2> QED BY <1>1, <2>1, <2>2, <2>3 DEF Reads, w
<1>9. m # Nil
  OBVIOUS
<1>10. FoundAs(alive, sub, item, a, root, w, m)
  BY <1>7, <1>9 DEF FoundAs
<1>11. f[root][1] = m
  BY <1>2, <1>6, <1>10, FoundOne
<1> QED BY <1>3, <1>11 DEF w

-----------------------------------------------------------------------------
(***************************************************************************)
(* A rotation leaves every node its key.                                   *)
(***************************************************************************)
(* c is looked for in slot k of a node that has x. *)
On(k, c, x) == IF k = 2 THEN c < x ELSE c > x

LEMMA RoomOn ==
  ASSUME NEW it, NEW may, NEW n, NEW k \in {2, 3}
  PROVE  Room(it, may, n, k) = {c \in may[n] : On(k, c, it[n])}
BY DEF Room, On

(* Who is on this side of x is on this side of all that is on the other.   *)
LEMMA OnApart ==
  ASSUME NEW q \in {2, 3}, NEW d \in {2, 3}, q # d, NEW x \in Nat, NEW y \in Nat, NEW c \in Nat,
         On(q, y, x)
  PROVE  /\ ~On(q, x, x)
         /\ On(q, c, x) => ~On(d, c, x)
         /\ ~On(q, c, x) => On(d, c, y) /\ ~On(q, c, y)
BY DEF On

(* Along a spine all nodes have the same key above them, and characters of *)
(* the slot it starts in.                                                  *)
LEMMA SpineMarked ==
  ASSUME NEW A, Nil \notin A, NEW s, NEW r, Tree(A, s, r), NEW t \in A,
         NEW q \in {2, 3}, NEW d \in {2, 3}, s[t][q] \in A,
         NEW it, NEW a, NEW may, Marked(A, s, r, it, a, may),
         NEW m \in Chain(A, s, d, s[t][q])
  PROVE  a[m] = a[t] /\ may[m] \subseteq Room(it, may, t, q)
<1> DEFINE S == {l \in A : a[l] = a[t] /\ may[l] \subseteq Room(it, may, t, q)}
<1>1. Leads(A, s) /\ Follows(A, s, d) /\ q \in Places /\ d \in Places /\ q # 1 /\ d # 1
  BY DEF Tree, Leads, Follows, Places
<1>2. s[t][q] # Nil
  OBVIOUS
<1>3. s[t][q] \in S
  BY <1>1, <1>2, MarkedBelow
<1>4. Follows(S, s, d)
  <2> SUFFICES ASSUME NEW l \in S, s[l][d] # Nil  PROVE s[l][d] \in S
    BY DEF Follows
  <2>1. s[l][d] \in A /\ a[s[l][d]] = a[l] /\ may[s[l][d]] \subseteq may[l]
    BY <1>1, MarkedBelow
  <2> QED BY <2>1
<1>5. S \in SUBSET A
  OBVIOUS
<1> HIDE DEF S
<1>6. m \in S
  BY <1>3, <1>4, <1>5 DEF Chain
<1> QED BY <1>6 DEF S

Remarked(u, v, it, a) == \E new : Marked(alive, u, v, it, a, new)

(* A rotation: t hangs at slot p of node, next at slot q of t, and t goes  *)
(* to slot d of e, the end of the spine that starts at next.               *)
Turns(s, r, u, v, node, p, t, next, q, d, e) ==
  /\ p \in Places /\ t \in alive /\ next \in alive
  /\ q \in {2, 3} /\ d \in {2, 3} /\ q # d /\ s[t][q] = next
  /\ e \in Chain(alive, s, d, next) /\ s[e][d] = Nil
  /\ Hangs(s, r, node, p, t)
  /\ Rotated(s, u, node, p, next, t, q, e, d)
  /\ v = IF node = Nil THEN next ELSE r

LEMMA MarkedRotated ==
  ASSUME Nil \notin alive, NEW s, NEW r, Tree(alive, s, r),
         NEW node, NEW p, NEW t, NEW next, NEW q, NEW d, NEW e, NEW u, NEW v,
         Turns(s, r, u, v, node, p, t, next, q, d, e),
         NEW it, NEW a, NEW may, Marked(alive, s, r, it, a, may)
  PROVE  Remarked(u, v, it, a)
<1>a. /\ p \in Places /\ t \in alive /\ next \in alive
      /\ q \in {2, 3} /\ d \in {2, 3} /\ q # d /\ s[t][q] = next
      /\ e \in Chain(alive, s, d, next) /\ s[e][d] = Nil
      /\ Hangs(s, r, node, p, t)
      /\ Rotated(s, u, node, p, next, t, q, e, d)
      /\ v = IF node = Nil THEN next ELSE r
  BY DEF Turns
<1> USE <1>a
<1> DEFINE C == Chain(alive, s, d, next)
           X == {c \in may[t] : ~On(q, c, it[t])}
           new == [n \in alive |-> IF n = t THEN X \cup Room(it, may, e, d)
                                   ELSE IF n \in C THEN may[n] \cup X
                                   ELSE may[n]]
<1>0. q \in Places /\ d \in Places /\ q # 1 /\ d # 1 /\ Leads(alive, s) /\ Follows(alive, s, d)
      /\ OneParent(alive, s) /\ next # Nil /\ t # Nil
  BY DEF Tree, Leads, Follows, Places
<1>1. /\ C \in SUBSET alive /\ next \in C /\ e \in C /\ Follows(C, s, d)
      /\ \A m \in C \ {next} : \E l \in C : s[l][d] = m
  BY <1>0, ChainFacts
<1>2. t \notin C /\ node \notin C /\ node # t
  <2>1. t \notin C /\ \A l \in alive, k \in Places : s[l][k] = t => l \notin C
    BY <1>0, ChainBelow
  <2>2. node \notin C
    BY <1>1, <2>1 DEF Hangs
  <2>3. node # t
    <3> SUFFICES ASSUME node = t  PROVE FALSE
      OBVIOUS
    <3>1. s[t][p] = t
      BY <1>0 DEF Hangs
    <3>2. Hanging({t}, s)
      BY <3>1 DEF Hanging
    <3> QED BY <3>2, NoLoop
  <2> QED BY <2>1, <2>2, <2>3
<1>3. \A n \in alive : it[n] \in Nat /\ it[n] \in may[n] /\ may[n] \in SUBSET Nat /\ a[n] \in Seq(Nat)
  BY MarkedIs
<1>4. \A m \in C : a[m] = a[t] /\ may[m] \subseteq may[t] /\ \A c \in may[m] : On(q, c, it[t])
  <2> SUFFICES ASSUME NEW m \in C
               PROVE  a[m] = a[t] /\ may[m] \subseteq may[t] /\ \A c \in may[m] : On(q, c, it[t])
    OBVIOUS
  <2>1. a[m] = a[t] /\ may[m] \subseteq Room(it, may, t, q)
    BY SpineMarked
  <2> QED BY <2>1, RoomOn
(* The characters that t has room for and its slot q has not. *)
<1>5. \A m \in C, c \in X : On(d, c, it[m]) /\ ~On(q, c, it[m])
  BY <1>1, <1>3, <1>4, OnApart
<1>6. \A m \in C : \A c \in may[m] : ~On(d, c, it[t])
  BY <1>1, <1>3, <1>4, OnApart
<1>7. it[t] \in X /\ X \in SUBSET Nat
  <2>1. On(q, it[next], it[t])
    BY <1>1, <1>3, <1>4
  <2>2. ~On(q, it[t], it[t])
    BY <1>3, <2>1, OnApart
  <2> QED BY <1>3, <2>2
(* Who leads to the nodes that get more room. *)
<1>8. \A n \in alive, k \in Places : s[n][k] \in C => (n = t /\ k = q) \/ (n \in C /\ k = d)
  <2> SUFFICES ASSUME NEW n \in alive, NEW k \in Places, s[n][k] \in C
               PROVE  (n = t /\ k = q) \/ (n \in C /\ k = d)
    OBVIOUS
  <2>1. CASE s[n][k] = next
    BY <1>0, <2>1 DEF OneParent
  <2>2. CASE s[n][k] # next
    <3>1. PICK l \in C : s[l][d] = s[n][k]
      BY <1>1, <2>2
    <3>2. s[n][k] # Nil
      BY <1>1
    <3> QED BY <1>0, <1>1, <3>1, <3>2 DEF OneParent
  <2> QED BY <2>1, <2>2
<1>9. \A n \in alive, k \in Places : s[n][k] = t => n = node /\ k = p
  <2> SUFFICES ASSUME NEW n \in alive, NEW k \in Places, s[n][k] = t  PROVE n = node /\ k = p
    OBVIOUS
  <2>1. CASE node = Nil
    <3>1. r = t /\ r # Nil
      BY <1>0, <2>1 DEF Hangs
    <3> QED BY <3>1 DEF Tree, RootFree
  <2>2. CASE node # Nil
    <3>1. node \in alive /\ s[node][p] = t
      BY <2>2 DEF Hangs
    <3>2. s[n][k] = s[node][p] /\ s[n][k] # Nil
      BY <1>0, <3>1
    <3> QED BY <1>0, <3>1, <3>2 DEF OneParent
  <2> QED BY <2>1, <2>2
<1>10. /\ new \in [alive -> SUBSET Nat]
       /\ new[t] = X \cup Room(it, may, e, d)
       /\ \A m \in C : new[m] = may[m] \cup X
       /\ \A m \in alive : m # t /\ m \notin C => new[m] = may[m]
  <2>1. Room(it, may, e, d) \in SUBSET Nat
    BY <1>1, <1>3, RoomOn
  <2> HIDE DEF X, C
  <2> QED BY <1>1, <1>2, <1>3, <1>7, <2>1
<1>11. new[next] = may[t]
  <2>1. s[t][q] # Nil
    BY <1>0
  <2>2. may[s[t][q]] = Room(it, may, t, q)
    BY <1>0, <2>1, MarkedBelow
  <2>3. may[next] = {c \in may[t] : On(q, c, it[t])}
    BY <2>2, RoomOn
  <2>4. new[next] = may[next] \cup X
    <3> HIDE DEF C, new, X
    <3> QED BY <1>1, <1>10
  <2>5. \A c : c \in X <=> c \in may[t] /\ ~On(q, c, it[t])
    OBVIOUS
  <2> HIDE DEF X
  <2> QED BY <2>3, <2>4, <2>5
<1> HIDE DEF C, X, new
<1>12. ASSUME NEW n \in alive, NEW k \in Places, u[n][k] # Nil
       PROVE  a[u[n][k]] = Above(it, a, n, k) /\ new[u[n][k]] = Room(it, new, n, k)
  <2>1. CASE n = node /\ k = p
    <3>1. u[n][k] = next
      BY <2>1 DEF Rotated
    <3>2. s[n][k] = t
      BY <1>0, <2>1 DEF Hangs
    <3>3. a[t] = Above(it, a, n, k) /\ may[t] = Room(it, may, n, k)
      BY <1>0, <3>2 DEF Marked
    <3>4. new[n] = may[n]
      BY <1>2, <1>10, <2>1
    <3>5. Room(it, new, n, k) = Room(it, may, n, k)
      BY <3>4 DEF Room
    <3> QED BY <1>1, <1>4, <1>11, <3>1, <3>3, <3>5
  <2>2. CASE n = e /\ k = d
    <3>1. u[n][k] = t
      <4>1. e \in alive /\ e # node
        BY <1>1, <1>2
      <4> QED BY <2>2, <4>1 DEF Rotated
    <3>2. a[t] = Above(it, a, n, k)
      BY <1>0, <1>1, <1>4, <2>2 DEF Above
    <3>3. Room(it, new, e, d) = {c \in may[e] \cup X : On(d, c, it[e])}
      BY <1>1, <1>10, RoomOn
    <3>4. Room(it, may, e, d) = {c \in may[e] : On(d, c, it[e])}
      BY RoomOn
    <3>5. new[t] = Room(it, new, e, d)
      <4>1. e \in C
        BY <1>1
      <4>2. \A c \in X : On(d, c, it[e])
        BY <1>5, <4>1
      <4> QED BY <1>10, <3>3, <3>4, <4>2
    <3> QED BY <2>2, <3>1, <3>2, <3>5
  <2>3. CASE n = t /\ k = q
    <3>1. u[n][k] = Nil
      BY <1>2, <2>3 DEF Rotated
    <3> QED BY <1>12, <3>1
  <2>4. CASE ~(n = node /\ k = p) /\ ~(n = e /\ k = d) /\ ~(n = t /\ k = q)
    <3>1. u[n][k] = s[n][k]
      BY <2>4 DEF Rotated
    <3>2. s[n][k] # Nil /\ s[n][k] \in alive /\ s[n][k] # t
      BY <1>0, <1>9, <2>4, <3>1, <1>12 DEF Leads
    <3>3. a[s[n][k]] = Above(it, a, n, k) /\ may[s[n][k]] = Room(it, may, n, k)
      BY <3>2 DEF Marked
    <3>4. CASE n \in C /\ k = d
      <4>1. s[n][k] \in C
        BY <1>1, <3>2, <3>4 DEF Follows
      <4>2. /\ Room(it, new, n, d) = {c \in may[n] \cup X : On(d, c, it[n])}
            /\ Room(it, may, n, d) = {c \in may[n] : On(d, c, it[n])}
        BY <1>10, <3>4, RoomOn
      <4>3. may[s[n][k]] \cup X = Room(it, new, n, d)
        BY <1>5, <3>3, <3>4, <4>2
      <4> QED BY <1>10, <3>1, <3>3, <3>4, <4>1, <4>3
    <3>5. CASE ~(n \in C /\ k = d)
      <4>1. s[n][k] \notin C
        BY <1>8, <2>4, <3>5
      <4>2. new[s[n][k]] = may[s[n][k]]
        BY <1>10, <3>2, <4>1
      <4>3. Room(it, new, n, k) = Room(it, may, n, k)
        <5>1. CASE k = 1
          BY <5>1 DEF Room
        <5>2. CASE k # 1 /\ n = t
          <6>1. k = d
            BY <2>4, <5>2 DEF Places
          <6>2. Room(it, new, t, d) = {c \in X \cup Room(it, may, e, d) : On(d, c, it[t])}
            BY <1>10, RoomOn
          <6>3. /\ Room(it, may, t, d) = {c \in may[t] : On(d, c, it[t])}
                /\ Room(it, may, e, d) = {c \in may[e] : On(d, c, it[e])}
            BY RoomOn
          <6>4. \A c \in Room(it, may, e, d) : ~On(d, c, it[t])
            BY <1>1, <1>6, <6>3
          <6>5. \A c : c \in X <=> c \in may[t] /\ ~On(q, c, it[t])
            BY DEF X
          <6>6. \A c \in may[t] : On(d, c, it[t]) => ~On(q, c, it[t])
            <7>1. \A c \in may[t] : c \in Nat
              BY <1>3
            <7>2. \A c \in Nat : On(d, c, it[t]) => ~On(q, c, it[t])
              BY <1>3 DEF On
            <7> QED BY <7>1, <7>2
          <6> QED BY <5>2, <6>1, <6>2, <6>3, <6>4, <6>5, <6>6
        <5>3. CASE k # 1 /\ n \in C
          <6>1. k = q
            BY <3>5, <5>3 DEF Places
          <6>2. /\ Room(it, new, n, q) = {c \in may[n] \cup X : On(q, c, it[n])}
                /\ Room(it, may, n, q) = {c \in may[n] : On(q, c, it[n])}
            BY <1>10, <5>3, RoomOn
          <6> QED BY <1>5, <5>3, <6>1, <6>2
        <5>4. CASE n # t /\ n \notin C
          <6>1. new[n] = may[n]
            BY <1>10, <5>4
          <6> QED BY <6>1 DEF Room
        <5> QED BY <5>1, <5>2, <5>3, <5>4
      <4> QED BY <3>1, <3>3, <4>2, <4>3
    <3> QED BY <3>4, <3>5
  <2> QED BY <2>1, <2>2, <2>3, <2>4
<1>13. \A n \in alive : it[n] \in new[n]
  <2> SUFFICES ASSUME NEW n \in alive  PROVE it[n] \in new[n]
    OBVIOUS
  <2>1. CASE n = t
    BY <1>7, <1>10, <2>1
  <2>2. CASE n \in C
    BY <1>3, <1>10, <2>2
  <2>3. CASE n # t /\ n \notin C
    BY <1>3, <1>10, <2>3
  <2> QED BY <2>1, <2>2, <2>3
<1>14. v # Nil => a[v] = <<>> /\ new[v] = Nat
  <2>1. CASE node = Nil
    <3>1. r = t /\ v = next
      BY <2>1 DEF Hangs
    <3>2. a[t] = <<>> /\ may[t] = Nat
      BY <1>0, <3>1 DEF Marked
    <3> QED BY <1>1, <1>4, <1>11, <3>1, <3>2
  <2>2. CASE node # Nil
    <3> SUFFICES ASSUME r # Nil  PROVE a[r] = <<>> /\ new[r] = Nat
      BY <2>2
    <3>1. r \in alive /\ \A n \in alive, k \in Places : s[n][k] # r
      BY DEF Tree, RootFree
    <3>2. r # t /\ r # next
      BY <1>0, <2>2, <3>1 DEF Hangs
    <3>3. r \notin C
      BY <1>0, <1>1, <3>1, <3>2
    <3>4. new[r] = may[r]
      BY <1>10, <3>1, <3>2, <3>3
    <3> QED BY <3>4 DEF Marked
  <2> QED BY <2>1, <2>2
<1>15. a \in [alive -> Seq(Nat)]
  BY DEF Marked
<1>16. Marked(alive, u, v, it, a, new)
  BY <1>10, <1>12, <1>13, <1>14, <1>15 DEF Marked
<1> QED BY <1>16 DEF Remarked

-----------------------------------------------------------------------------
(***************************************************************************)
(* What the steps of a lookup do to the marks.                             *)
(***************************************************************************)
(* The marks with a node more. *)
Grown(n, u, v, jt, a, may) ==
  \E b, new : /\ Marked(alive \cup {n}, u, v, jt, b, new)
              /\ \A m \in alive : b[m] = a[m] /\ new[m] = may[m]

RoomIn(it, may, node, p) == IF node = Nil THEN Nat ELSE Room(it, may, node, p)

(* A node is made where a key is missing. *)
LEMMA MarkedInserted ==
  ASSUME Nil \notin alive, NEW s, NEW r, Tree(alive, s, r),
         NEW n, n \notin alive, n # Nil, NEW node, NEW p \in Places,
         Hangs(s, r, node, p, Nil),
         NEW u, Linked(s, u, node, p, n),
         NEW v, v = IF node = Nil THEN n ELSE r,
         NEW it, NEW a, NEW may, Marked(alive, s, r, it, a, may),
         NEW jt, jt[n] \in RoomIn(it, may, node, p), \A m \in alive : jt[m] = it[m]
  PROVE  Grown(n, u, v, jt, a, may)
<1> DEFINE w == IF node = Nil THEN <<>> ELSE Above(it, a, node, p)
           room == RoomIn(it, may, node, p)
<1>a. room = IF node = Nil THEN Nat ELSE Room(it, may, node, p)
  BY DEF RoomIn
<1> HIDE DEF room
<1>b. jt[n] \in room
  BY DEF room
<1> DEFINE A == alive \cup {n}
           b == [m \in A |-> IF m = n THEN w ELSE a[m]]
           new == [m \in A |-> IF m = n THEN room ELSE may[m]]
<1>1. /\ Leads(alive, s) /\ r \in alive \cup {Nil}
      /\ node # Nil => node \in alive /\ s[node][p] = Nil
      /\ node = Nil => r = Nil
  BY DEF Tree, Hangs
<1>2. \A m \in alive : it[m] \in Nat /\ it[m] \in may[m] /\ may[m] \in SUBSET Nat /\ a[m] \in Seq(Nat)
  BY MarkedIs
<1>3. w \in Seq(Nat) /\ room \in SUBSET Nat
  <2>1. CASE node = Nil
    BY <1>a, <2>1
  <2>2. CASE node # Nil
    <3>1. node \in alive
      BY <1>1, <2>2
    <3>2. a[node] \in Seq(Nat) /\ Key(it, a, node) \in Seq(Nat)
      BY <1>2, <3>1, KeyIs
    <3>3. w = (IF p = 1 THEN Key(it, a, node) ELSE a[node]) /\ room = Room(it, may, node, p)
      BY <1>a, <2>2 DEF Above, Key
    <3>4. Room(it, may, node, p) \in SUBSET Nat
      BY <1>2, <3>1 DEF Room, Places
    <3> QED BY <3>2, <3>3, <3>4
  <2> QED BY <2>1, <2>2
<1>4. /\ b \in [A -> Seq(Nat)] /\ new \in [A -> SUBSET Nat]
      /\ b[n] = w /\ new[n] = room
      /\ \A m \in alive : b[m] = a[m] /\ new[m] = may[m]
  BY <1>2, <1>3
<1> HIDE DEF b, new
<1>5. \A m \in alive, k \in Places :
         Above(jt, b, m, k) = Above(it, a, m, k) /\ Room(jt, new, m, k) = Room(it, may, m, k)
  BY <1>4 DEF Above, Room
<1>6. ASSUME NEW m \in A, NEW k \in Places, u[m][k] # Nil
      PROVE  b[u[m][k]] = Above(jt, b, m, k) /\ new[u[m][k]] = Room(jt, new, m, k)
  <2>1. CASE m = node /\ k = p
    <3>1. u[m][k] = n
      BY <2>1 DEF Linked
    <3>2. node \in alive /\ node # Nil
      BY <1>1, <1>6, <2>1, <3>1 DEF Hangs
    <3> QED BY <1>a, <1>4, <1>5, <2>1, <3>1, <3>2
  <2>2. CASE ~(m = node /\ k = p)
    <3>1. m # n /\ u[m][k] = s[m][k]
      BY <1>6, <2>2 DEF Linked
    <3>2. m \in alive /\ s[m][k] \in alive
      BY <1>1, <1>6, <3>1 DEF Leads
    <3>3. a[s[m][k]] = Above(it, a, m, k) /\ may[s[m][k]] = Room(it, may, m, k)
      BY <1>6, <3>1, <3>2 DEF Marked
    <3> QED BY <1>4, <1>5, <3>1, <3>2, <3>3
  <2> QED BY <2>1, <2>2
<1>7. \A m \in A : jt[m] \in new[m]
  BY <1>2, <1>4, <1>b
<1>8. v # Nil => b[v] = <<>> /\ new[v] = Nat
  <2>1. CASE node = Nil
    BY <1>a, <1>4, <2>1
  <2>2. CASE node # Nil
    BY <1>1, <1>4, <2>2 DEF Marked
  <2> QED BY <2>1, <2>2
<1>9. Marked(A, u, v, jt, b, new)
  BY <1>4, <1>6, <1>7, <1>8 DEF Marked
<1> QED BY <1>4, <1>9 DEF Grown

LEMMA MarkedSame ==
  ASSUME NEW A, NEW s, NEW r, NEW it, NEW a, NEW may, Marked(A, s, r, it, a, may),
         NEW jt, \A n \in A : jt[n] = it[n]
  PROVE  /\ Marked(A, s, r, jt, a, may)
         /\ \A n \in A : /\ Key(jt, a, n) = Key(it, a, n)
                         /\ \A k : /\ Above(jt, a, n, k) = Above(it, a, n, k)
                                   /\ Room(jt, may, n, k) = Room(it, may, n, k)
<1>1. \A n \in A : \A k : /\ Above(jt, a, n, k) = Above(it, a, n, k)
                          /\ Room(jt, may, n, k) = Room(it, may, n, k)
  BY DEF Above, Room
<1>2. \A n \in A : Key(jt, a, n) = Key(it, a, n)
  BY DEF Key
<1>3. Marked(A, s, r, jt, a, may)
  BY <1>1 DEF Marked
<1> QED BY <1>1, <1>2, <1>3

LEMMA MarkShow ==
  ASSUME NEW a, NEW may, Marked(alive', sub', root', item', a, may), Fits(a, may)', Refers(a)'
  PROVE  MarkOK'
BY DEF MarkOK

LEMMA MarkTake ==
  ASSUME MarkOK, purpose # "clear"
  PROVE  \E a, may : Marked(alive, sub, root, item, a, may) /\ Fits(a, may) /\ Refers(a)
BY DEF MarkOK

(* The node a lookup stands at. *)
LEMMA StandsAt ==
  ASSUME NEW a, NEW may, Marked(alive, sub, root, item, a, may), Nil \notin alive,
         NEW slot, SlotOK(slot), At(slot) # Nil
  PROVE  a[At(slot)] = AboveAt(item, a, slot) /\ may[At(slot)] = RoomAt(item, may, slot)
<1>1. CASE slot = RootSlot
  BY <1>1 DEF Marked, At, RootSlot, Slot, AboveAt, RoomAt
<1>2. CASE slot.node \in alive /\ slot.idx \in 0..2
  <2>1. slot.idx + 1 \in Places /\ slot.node # Nil
    BY <1>2 DEF Places
  <2>2. At(slot) = sub[slot.node][slot.idx + 1]
    BY <2>1 DEF At
  <2> QED BY <1>2, <2>1, <2>2 DEF Marked, AboveAt, RoomAt
<1> QED BY <1>1, <1>2 DEF SlotOK

LEMMA CallMarks ==
  ASSUME KeyInv, NEW o \in {"get", "remove", "index"}, NEW k \in Keys, Call(o, k)
  PROVE  MarkOK' /\ RefOK'
<1>1. /\ pc = "idle" /\ UNCHANGED <<alive, sub, root, item, ref, refKey>>
      /\ call' = [NoCall EXCEPT !.op = o, !.key = k, !.cur = RootSlot]
  BY DEF Call, BetweenCalls, BetweenWalks, nodeVars
<1>2. purpose # "clear"
  BY <1>1, IdleFacts DEF KeyInv
<1>3. PICK a, may : Marked(alive, sub, root, item, a, may) /\ Fits(a, may) /\ Refers(a)
  BY <1>2, MarkTake DEF KeyInv
<1>4. call'.key = k /\ call'.pos = 1 /\ call'.cur = RootSlot
  BY <1>1 DEF NoCall
<1>5. k \in Seq(Nat \ {0})
  BY PropertyMapAssumption
<1>6. SubSeq(k, 1, 0) = <<>> /\ (k # <<>> => k[1] \in Nat)
  <2>1. SubSeq(k, 1, 0) = <<>>
    BY <1>5, SubSeqEmpty
  <2>2. k # <<>> => k[1] \in Nat
    BY <1>5
  <2> QED BY <2>1, <2>2
<1>7. Fits(a, may)'
  <2>1. AboveAt(item', a, RootSlot) = <<>> /\ RoomAt(item', may, RootSlot) = Nat
    BY DEF AboveAt, RoomAt, RootSlot, Slot
  <2> QED BY <1>4, <1>6, <2>1 DEF Fits, Wanted
<1>8. Refers(a)'
  BY <1>1, <1>3 DEF Refers
<1>9. Marked(alive', sub', root', item', a, may)
  BY <1>1, <1>3
<1> QED BY <1>1, <1>7, <1>8, <1>9, MarkShow DEF KeyInv, RefOK

LEMMA DescendMarks ==
  ASSUME KeyInv, Descend
  PROVE  MarkOK' /\ RefOK'
<1> DEFINE n == At(call.cur)
           side == Side(n)
<1>1. /\ Searching /\ call.key # <<>> /\ n # Nil /\ item[n] # Wanted
      /\ call' = [call EXCEPT !.prev = call.cur, !.cur = Slot(n, side), !.dir = 3 - side]
      /\ UNCHANGED <<alive, sub, root, item, ref, refKey>>
  BY DEF Descend, vars, nodeVars, dataVars, clientVars
<1>2. /\ MapInv /\ purpose # "clear" /\ Nil \notin alive /\ n \in alive /\ call \in CallSpace
      /\ SlotOK(call.cur) /\ Wanted \in Nat
  BY <1>1, SearchFacts, IdleFacts DEF KeyInv
<1>3. PICK a, may : Marked(alive, sub, root, item, a, may) /\ Fits(a, may) /\ Refers(a)
  BY <1>2, MarkTake DEF KeyInv
<1>4. a[n] = AboveAt(item, a, call.cur) /\ may[n] = RoomAt(item, may, call.cur)
  BY <1>1, <1>2, <1>3, StandsAt
<1>5. a[n] = SubSeq(call.key, 1, call.pos - 1) /\ Wanted \in may[n] /\ item[n] \in Nat
  <2>1. item[n] \in Nat
    BY <1>2, <1>3, MarkedIs
  <2> QED BY <1>1, <1>3, <1>4, <2>1 DEF Fits
<1>6. side \in {1, 2} /\ (side = 1 => Wanted < item[n]) /\ (side = 2 => Wanted > item[n])
  BY <1>1, <1>2, <1>5 DEF Side
<1> HIDE DEF side
<1>7. /\ call'.key = call.key /\ call'.pos = call.pos /\ call'.cur = Slot(n, side)
      /\ call'.op = call.op
  <2> HIDE DEF n
  <2> QED BY <1>1, <1>2 DEF CallSpace
<1>8. Fits(a, may)'
  <2>1. Slot(n, side).node = n /\ Slot(n, side).idx = side /\ n # Nil
    BY <1>1 DEF Slot
  <2>2. /\ AboveAt(item, a, Slot(n, side)) = Above(item, a, n, side + 1)
        /\ RoomAt(item, may, Slot(n, side)) = Room(item, may, n, side + 1)
    BY <2>1 DEF AboveAt, RoomAt
  <2>3. Above(item, a, n, side + 1) = a[n] /\ Wanted \in Room(item, may, n, side + 1)
    <3>1. CASE side = 1
      BY <1>5, <1>6, <3>1 DEF Above, Room
    <3>2. CASE side = 2
      BY <1>5, <1>6, <3>2 DEF Above, Room
    <3> QED BY <1>6, <3>1, <3>2
  <2> HIDE DEF n
  <2> QED BY <1>1, <1>5, <1>7, <2>2, <2>3 DEF Fits, Wanted
<1>9. Refers(a)' /\ Marked(alive', sub', root', item', a, may)
  BY <1>1, <1>3 DEF Refers
<1> QED BY <1>1, <1>8, <1>9, MarkShow DEF KeyInv, RefOK

LEMMA MissingMarks ==
  ASSUME KeyInv, Missing
  PROVE  MarkOK' /\ RefOK'
<1>1. Searching /\ call' = NoCall /\ UNCHANGED <<alive, sub, root, item, ref, refKey>>
  BY DEF Missing, vars, nodeVars, dataVars
<1>2. purpose # "clear"
  BY <1>1, SearchFacts, IdleFacts DEF KeyInv
<1>3. PICK a, may : Marked(alive, sub, root, item, a, may) /\ Fits(a, may) /\ Refers(a)
  BY <1>2, MarkTake DEF KeyInv
<1>4. ~Searching'
  BY <1>1 DEF Searching, NoCall
<1>5. Fits(a, may)' /\ Refers(a)' /\ Marked(alive', sub', root', item', a, may)
  BY <1>1, <1>3, <1>4 DEF Refers, Fits
<1> QED BY <1>1, <1>5, MarkShow DEF KeyInv, RefOK

(* Insert() grows a marked tree by a node with its marks. *)
LEMMA InsertGrows ==
  ASSUME KeyInv, NEW n \in Node, Insert(n)
  PROVE  \E a, may : /\ Marked(alive, sub, root, item, a, may) /\ Fits(a, may) /\ Refers(a)
                     /\ Grown(n, sub', root', item', a, may)
<1> DEFINE node == call.cur.node
           p == call.cur.idx + 1
<1>1. /\ Searching /\ call.op = "index" /\ n \notin alive /\ alive' = alive \cup {n}
      /\ item' = [item EXCEPT ![n] = Wanted] /\ UNCHANGED <<ref, refKey, call>>
  BY DEF Insert, clientVars
<1>2. /\ MapInv /\ call.key # <<>> /\ Wanted \in Nat
      /\ purpose # "clear" /\ Tree(alive, sub, root)
      /\ Nil \notin Node /\ Nil \notin alive /\ alive \subseteq Node
      /\ ref \in alive \cup {Nil} /\ item \in [Node -> Nat]
  BY <1>1, SearchFacts, IdleFacts DEF KeyInv, MapInv, LoopOK, DataTypes
<1>3. /\ root' = IF node = Nil THEN n ELSE root
      /\ \A m \in alive \cup {n} : \A j \in Places :
           sub'[m][j] = IF m = node /\ j = p THEN n ELSE IF m = n THEN Nil ELSE sub[m][j]
      /\ \/ node = Nil /\ root = Nil /\ call.cur.idx = 0
         \/ node \in alive /\ call.cur.idx \in 0..2 /\ sub[node][p] = Nil
  BY <1>2, InsertSlots
<1>4. PICK a, may : Marked(alive, sub, root, item, a, may) /\ Fits(a, may) /\ Refers(a)
  BY <1>2, MarkTake DEF KeyInv
<1>5. p \in Places /\ n # Nil
  BY <1>2, <1>3 DEF Places
<1>6. Wanted \in RoomAt(item, may, call.cur)
  BY <1>1, <1>2, <1>4 DEF Fits
<1>7. item'[n] = Wanted /\ \A m \in alive : item'[m] = item[m]
  BY <1>1, <1>2
<1> DEFINE w == AboveAt(item, a, call.cur)
           room == RoomAt(item, may, call.cur)
<1>8. /\ w = IF node = Nil THEN <<>> ELSE Above(item, a, node, p)
      /\ room = RoomIn(item, may, node, p)
  BY DEF AboveAt, RoomAt, RoomIn
<1>9. Grown(n, sub', root', item', a, may)
  <2> HIDE DEF node, p, w, room
  <2>1. Hangs(sub, root, node, p, Nil) /\ Linked(sub, sub', node, p, n)
    BY <1>3 DEF Hangs, Linked
  <2>2. item'[n] \in RoomIn(item, may, node, p)
    BY <1>6, <1>7, <1>8 DEF room
  <2>3. /\ Nil \notin alive /\ Tree(alive, sub, root) /\ n \notin alive
        /\ root' = IF node = Nil THEN n ELSE root
        /\ Marked(alive, sub, root, item, a, may)
    BY <1>1, <1>2, <1>3, <1>4
  <2> QED BY <1>5, <1>7, <2>1, <2>2, <2>3, MarkedInserted
<1> QED BY <1>4, <1>9

LEMMA InsertMarks ==
  ASSUME KeyInv, NEW n \in Node, Insert(n)
  PROVE  MarkOK' /\ RefOK'
<1> DEFINE node == call.cur.node
           p == call.cur.idx + 1
<1>1. /\ Searching /\ call.op = "index" /\ n \notin alive /\ alive' = alive \cup {n}
      /\ item' = [item EXCEPT ![n] = Wanted] /\ UNCHANGED <<ref, refKey, call>>
  BY DEF Insert, clientVars
<1>2. /\ MapInv /\ call.key # <<>> /\ Wanted \in Nat
      /\ purpose # "clear" /\ Tree(alive, sub, root)
      /\ Nil \notin Node /\ Nil \notin alive /\ alive \subseteq Node
      /\ ref \in alive \cup {Nil} /\ item \in [Node -> Nat]
  BY <1>1, SearchFacts, IdleFacts DEF KeyInv, MapInv, LoopOK, DataTypes
<1>3. /\ root' = IF node = Nil THEN n ELSE root
      /\ \A m \in alive \cup {n} : \A j \in Places :
           sub'[m][j] = IF m = node /\ j = p THEN n ELSE IF m = n THEN Nil ELSE sub[m][j]
      /\ \/ node = Nil /\ root = Nil /\ call.cur.idx = 0
         \/ node \in alive /\ call.cur.idx \in 0..2 /\ sub[node][p] = Nil
  BY <1>2, InsertSlots
<1>4. PICK a, may : /\ Marked(alive, sub, root, item, a, may) /\ Fits(a, may) /\ Refers(a)
                    /\ Grown(n, sub', root', item', a, may)
  BY InsertGrows
<1>7. item'[n] = Wanted /\ \A m \in alive : item'[m] = item[m]
  BY <1>1, <1>2
<1> DEFINE w == AboveAt(item, a, call.cur)
           room == RoomAt(item, may, call.cur)
<1>8. /\ w = IF node = Nil THEN <<>> ELSE Above(item, a, node, p)
      /\ room = RoomIn(item, may, node, p)
  BY DEF AboveAt, RoomAt, RoomIn
<1>10. PICK b, new : /\ Marked(alive \cup {n}, sub', root', item', b, new)
                     /\ \A m \in alive : b[m] = a[m] /\ new[m] = may[m]
  BY <1>4 DEF Grown
<1>11. Fits(b, new)'
  <2>1. AboveAt(item', b, call.cur) = w /\ RoomAt(item', new, call.cur) = room
    <3>1. CASE node = Nil
      BY <3>1 DEF AboveAt, RoomAt
    <3>2. CASE node # Nil
      <4>1. node \in alive
        BY <1>3, <3>2
      <4>2. item'[node] = item[node] /\ b[node] = a[node] /\ new[node] = may[node]
        BY <1>7, <1>10, <4>1
      <4>3. /\ Above(item', b, node, p) = Above(item, a, node, p)
            /\ Room(item', new, node, p) = Room(item, may, node, p)
        <5> HIDE DEF node, p
        <5> QED BY <4>2 DEF Above, Room
      <4> QED BY <3>2, <4>3 DEF AboveAt, RoomAt
    <3> QED BY <3>1, <3>2
  <2>2. /\ w = SubSeq(call.key, 1, call.pos - 1) /\ Wanted \in room
    BY <1>1, <1>2, <1>4 DEF Fits
  <2>3. Wanted' = Wanted
    BY <1>1 DEF Wanted
  <2> HIDE DEF w, room
  <2> QED BY <1>1, <2>1, <2>2, <2>3 DEF Fits
<1>12. Refers(b)'
  <2>1. ref \in alive => Key(item', b, ref) = Key(item, a, ref)
    BY <1>7, <1>10 DEF Key
  <2> QED BY <1>1, <1>2, <1>4, <2>1 DEF Refers
<1>13. Marked(alive', sub', root', item', b, new)
  BY <1>1, <1>10
<1> QED BY <1>1, <1>11, <1>12, <1>13, MarkShow DEF KeyInv, RefOK

-----------------------------------------------------------------------------
(***************************************************************************)
(* The node found, the traversals, and the invariant.                      *)
(***************************************************************************)
TurnsUp(next, u, v) ==
  \E node, p, t, q, d, e : Turns(sub, root, u, v, node, p, t, next, q, d, e)

(* The node found is rotated to the top of its place, if it is not there.  *)
LEMMA FoundTurns ==
  ASSUME MapInv, Found
  PROVE  \/ UNCHANGED <<sub, root>>
         \/ TurnsUp(At(call.cur), sub', root')
<1> DEFINE target == call.prev
           q == 3 - call.dir
           t == At(target)
           next == At(call.cur)
<1>1. /\ Searching /\ next # Nil
      /\ IF target = NoSlot THEN UNCHANGED <<root, sub>> ELSE Rotate(target, q, call.dir)
  BY DEF Found
<1>2. /\ Nil \notin Node /\ Nil \notin alive /\ sub \in Buffers /\ Tree(alive, sub, root)
      /\ next \in alive
  BY <1>1, SearchFacts, IdleFacts
<1>3. CASE target = NoSlot
  BY <1>1, <1>3
<1>4. CASE target # NoSlot
  <2>1. /\ SlotOK(target) /\ t = call.cur.node /\ t \in alive
        /\ call.dir \in {1, 2} /\ call.cur.idx = q
    BY <1>1, <1>4 DEF MapInv, CallOK
  <2>2. q \in {1, 2} /\ 3 - q = call.dir /\ sub[t][q + 1] = next
    BY <1>2, <2>1 DEF At
  <2>3. Rotate(target, q, 3 - q)
    BY <1>1, <1>4, <2>2
  <2>4. target.idx + 1 \in Places
    BY <2>1 DEF SlotOK, RootSlot, Slot, Places
  <2>5. Hangs(sub, root, target.node, target.idx + 1, t)
    BY <1>2, <2>1 DEF SlotOK, At, RootSlot, Slot, Hangs
  <2>6. Shaped
    BY DEF MapInv
  <2> HIDE DEF q, target
  <2>7. PICK e \in Chain(alive, sub, 3 - q + 1, next) :
            /\ sub[e][3 - q + 1] = Nil
            /\ Rotated(sub, sub', target.node, target.idx + 1, next, t, q + 1, e, 3 - q + 1)
            /\ root' = IF target.node = Nil THEN next ELSE root
    BY <1>2, <2>1, <2>2, <2>3, <2>6, RotateSlots
  <2> HIDE DEF t, next
  <2>8. q + 1 \in {2, 3} /\ 3 - q + 1 \in {2, 3} /\ q + 1 # 3 - q + 1
    BY <2>2
  <2> DEFINE k == q + 1
             d == 3 - q + 1
  <2>9. /\ k \in {2, 3} /\ d \in {2, 3} /\ k # d /\ sub[t][k] = next
        /\ e \in Chain(alive, sub, d, next) /\ sub[e][d] = Nil
        /\ Rotated(sub, sub', target.node, target.idx + 1, next, t, k, e, d)
    BY <2>2, <2>7, <2>8
  <2> HIDE DEF k, d
  <2> DEFINE p == target.idx + 1
             node == target.node
  <2>10. /\ p \in Places /\ Hangs(sub, root, node, p, t)
         /\ Rotated(sub, sub', node, p, next, t, k, e, d)
         /\ root' = IF node = Nil THEN next ELSE root
    BY <2>4, <2>5, <2>7, <2>9
  <2> HIDE DEF p, node
  <2>11. Turns(sub, root, sub', root', node, p, t, next, k, d, e)
    BY <1>2, <2>1, <2>9, <2>10 DEF Turns
  <2> QED BY <2>11 DEF TurnsUp, next
<1> QED BY <1>3, <1>4

(* Every node keeps its key by it. *)
LEMMA FoundMarked ==
  ASSUME MapInv, Found, NEW a, NEW may, Marked(alive, sub, root, item, a, may)
  PROVE  Remarked(sub', root', item, a)
<1>1. Nil \notin alive /\ Tree(alive, sub, root)
  BY SearchFacts, IdleFacts DEF Found
<1>2. CASE UNCHANGED <<sub, root>>
  BY <1>2 DEF Remarked
<1>3. CASE TurnsUp(At(call.cur), sub', root')
  <2>1. PICK node, p, t, q, d, e : Turns(sub, root, sub', root', node, p, t, At(call.cur), q, d, e)
    BY <1>3 DEF TurnsUp
  <2> QED BY <1>1, <2>1, MarkedRotated
<1> QED BY <1>2, <1>3, FoundTurns

(* Found() stands at the node of as much of the key as it has read. *)
LEMMA FoundKey ==
  ASSUME KeyInv, Found
  PROVE  \E a, may : /\ Marked(alive, sub, root, item, a, may) /\ Fits(a, may) /\ Refers(a)
                     /\ Key(item, a, At(call.cur)) = SubSeq(call.key, 1, call.pos)
                     /\ call.pos = Len(call.key) => Key(item, a, At(call.cur)) = call.key
<1> DEFINE t == At(call.cur)
<1>1. /\ Searching /\ call.key # <<>> /\ t # Nil /\ item[t] = Wanted
      /\ UNCHANGED <<alive, item>>
      /\ IF call.pos = Len(call.key) THEN Return(t)
         ELSE /\ call' = [call EXCEPT !.pos = @ + 1, !.cur = Slot(t, 0), !.prev = NoSlot]
              /\ UNCHANGED clientVars
  BY DEF Found
<1>2. /\ MapInv /\ t \in alive /\ purpose # "clear" /\ Nil \notin alive
      /\ call \in CallSpace /\ call.key \in Seq(Nat) /\ call.pos \in 1..Len(call.key)
      /\ call.op \in {"get", "remove", "index"} /\ call.key \in Keys
      /\ SlotOK(call.cur) /\ ref \in alive \cup {Nil}
  <2>1. call.key \in Seq(Nat \ {0})
    BY <1>1, SearchFacts DEF KeyInv
  <2>2. call.key \in Seq(Nat)
    <3> DEFINE k == call.key
    <3>1. k \in Seq(Nat \ {0})
      BY <2>1
    <3> HIDE DEF k
    <3>2. k \in Seq(Nat)
      BY <3>1
    <3> QED BY <3>2 DEF k
  <2> QED BY <1>1, <2>2, SearchFacts, IdleFacts DEF KeyInv, MapInv, LoopOK
<1>3. PICK a, may : Marked(alive, sub, root, item, a, may) /\ Fits(a, may) /\ Refers(a)
  BY <1>2, MarkTake DEF KeyInv
<1>4. a[t] = AboveAt(item, a, call.cur) /\ AboveAt(item, a, call.cur) = SubSeq(call.key, 1, call.pos - 1)
  BY <1>1, <1>2, <1>3, StandsAt DEF Fits
<1> HIDE DEF t
<1>6. Key(item, a, t) = SubSeq(call.key, 1, call.pos)
  <2> DEFINE k == call.key
             p == call.pos
  <2>1. k \in Seq(Nat) /\ p \in 1..Len(k) /\ item[t] = k[p] /\ a[t] = SubSeq(k, 1, p - 1)
    BY <1>1, <1>2, <1>4 DEF Wanted
  <2> HIDE DEF k, p
  <2>2. SubSeq(k, 1, p) = Append(SubSeq(k, 1, p - 1), k[p])
    <3>1. Len(k) \in Nat
      BY <2>1, LenProperties
    <3>2. \A j \in 1..p : k[j] \in Nat
      BY <2>1, <3>1, ElementOfSeq
    <3> QED BY <2>1, <3>1, <3>2, SubSeqRecursiveSecond, SubSeqRecursiveFirst
  <2>3. Key(item, a, t) = Append(SubSeq(k, 1, p - 1), k[p])
    BY <2>1, Zenon DEF Key
  <2> QED BY <2>2, <2>3 DEF k, p
<1>7. call.pos = Len(call.key) => Key(item, a, t) = call.key
  BY <1>2, <1>6, SubSeqFull
<1> QED BY <1>3, <1>6, <1>7 DEF t

(* Rotated or not, every node keeps its marks when it is found. *)
LEMMA FoundMarks ==
  ASSUME KeyInv, Found
  PROVE  MarkOK' /\ RefOK'
<1> DEFINE t == At(call.cur)
<1>1. /\ Searching /\ call.key # <<>> /\ t # Nil /\ item[t] = Wanted
      /\ UNCHANGED <<alive, item>>
      /\ IF call.pos = Len(call.key) THEN Return(t)
         ELSE /\ call' = [call EXCEPT !.pos = @ + 1, !.cur = Slot(t, 0), !.prev = NoSlot]
              /\ UNCHANGED clientVars
  BY DEF Found
<1>2. /\ MapInv /\ t \in alive /\ purpose # "clear" /\ Nil \notin alive
      /\ call \in CallSpace /\ call.key \in Seq(Nat) /\ call.pos \in 1..Len(call.key)
      /\ call.op \in {"get", "remove", "index"} /\ call.key \in Keys
      /\ SlotOK(call.cur) /\ ref \in alive \cup {Nil}
  <2>1. call.key \in Seq(Nat \ {0})
    BY <1>1, SearchFacts DEF KeyInv
  <2>2. call.key \in Seq(Nat)
    <3> DEFINE k == call.key
    <3>1. k \in Seq(Nat \ {0})
      BY <2>1
    <3> HIDE DEF k
    <3>2. k \in Seq(Nat)
      BY <3>1
    <3> QED BY <3>2 DEF k
  <2> QED BY <1>1, <2>2, SearchFacts, IdleFacts DEF KeyInv, MapInv, LoopOK
<1>3. PICK a, may : /\ Marked(alive, sub, root, item, a, may) /\ Fits(a, may) /\ Refers(a)
                    /\ Key(item, a, t) = SubSeq(call.key, 1, call.pos)
                    /\ call.pos = Len(call.key) => Key(item, a, t) = call.key
  BY FoundKey
<1>5. PICK new : Marked(alive, sub', root', item, a, new)
  BY <1>2, <1>3, FoundMarked DEF Remarked
<1> HIDE DEF t
<1>7. CASE call.pos = Len(call.key)
  <2>1. Return(t)
    BY <1>1, <1>7
  <2>2. ~Searching'
    BY <2>1 DEF Return, Searching, NoCall
  <2>3. Fits(a, new)'
    BY <2>2 DEF Fits
  <2>4. Key(item, a, t) = call.key
    BY <1>3, <1>7
  <2>5. CASE call.op # "index"
    <3>1. UNCHANGED <<ref, refKey>>
      BY <1>2, <2>1, <2>5 DEF Return
    <3> QED BY <1>1, <1>3, <1>5, <2>3, <3>1, MarkShow DEF KeyInv, RefOK, Refers
  <2>6. CASE call.op = "index"
    <3>1. ref' = t /\ refKey' = call.key
      BY <2>1, <2>6 DEF Return
    <3>2. Refers(a)' /\ RefOK'
      BY <1>1, <1>2, <2>4, <3>1 DEF Refers, RefOK
    <3> QED BY <1>1, <1>5, <2>3, <3>2, MarkShow
  <2> QED BY <2>5, <2>6
<1>8. CASE call.pos # Len(call.key)
  <2>1. /\ call' = [call EXCEPT !.pos = @ + 1, !.cur = Slot(t, 0), !.prev = NoSlot]
        /\ UNCHANGED <<ref, refKey>>
    BY <1>1, <1>8 DEF clientVars
  <2>2. call'.key = call.key /\ call'.pos = call.pos + 1 /\ call'.cur = Slot(t, 0)
    BY <1>2, <2>1 DEF CallSpace
  <2>3. Fits(a, new)'
    <3>1. Slot(t, 0).node = t /\ Slot(t, 0).idx + 1 = 1 /\ t # Nil
      BY <1>2 DEF Slot
    <3>2. AboveAt(item, a, Slot(t, 0)) = Key(item, a, t) /\ RoomAt(item, new, Slot(t, 0)) = Nat
      BY <3>1 DEF AboveAt, RoomAt, Above, Room, Key
    <3>3. call.key[call.pos + 1] \in Nat /\ call.pos + 1 - 1 = call.pos
      <4> DEFINE k == call.key
                 p == call.pos
      <4>1. k \in Seq(Nat) /\ p \in 1..Len(k) /\ p # Len(k)
        BY <1>2, <1>8
      <4> HIDE DEF k, p
      <4>2. k[p + 1] \in Nat /\ p + 1 - 1 = p
        BY <4>1
      <4> QED BY <4>2 DEF k, p
    <3>4. call'.pos - 1 = call.pos /\ Wanted' = call.key[call.pos + 1]
      <4>1. call'.pos - 1 = call.pos
        BY <1>2, <2>2
      <4>2. Wanted' = call.key[call.pos + 1]
        BY <2>2, Zenon DEF Wanted
      <4> QED BY <4>1, <4>2
    <3>5. AboveAt(item', a, call'.cur) = SubSeq(call'.key, 1, call'.pos - 1)
      BY <1>1, <1>3, <2>2, <3>2, <3>4
    <3>6. Wanted' \in RoomAt(item', new, call'.cur)
      BY <1>1, <2>2, <3>2, <3>3, <3>4
    <3> QED BY <3>5, <3>6 DEF Fits
  <2> QED BY <1>1, <1>3, <1>5, <2>1, <2>3, MarkShow DEF KeyInv, RefOK, Refers
<1> QED BY <1>7, <1>8

(* What leaves the nodes and the lookup alone. *)
LEMMA StaysMarked ==
  ASSUME KeyInv, UNCHANGED <<alive, sub, root, call>>, \A n \in alive : item'[n] = item[n],
         purpose # "clear", \/ UNCHANGED <<ref, refKey>>
                            \/ ref' = Nil /\ refKey' = None,
         ~Searching \/ UNCHANGED item
  PROVE  MarkOK' /\ RefOK'
<1>1. PICK a, may : Marked(alive, sub, root, item, a, may) /\ Fits(a, may) /\ Refers(a)
  BY MarkTake DEF KeyInv
<1>2. /\ Marked(alive', sub', root', item', a, may)
      /\ \A n \in alive : Key(item', a, n) = Key(item, a, n)
  BY <1>1, MarkedSame
<1>3. Fits(a, may)'
  <2>1. CASE ~Searching
    BY <2>1 DEF Fits, Searching
  <2>2. CASE UNCHANGED item
    BY <1>1, <2>2 DEF Fits, Searching, Wanted
  <2> QED BY <2>1, <2>2
<1>4. Refers(a)' /\ RefOK'
  <2>1. ref \in alive \cup {Nil}
    BY DEF KeyInv, MapInv, LoopOK
  <2> QED BY <1>1, <1>2, <2>1 DEF Refers, RefOK, KeyInv
<1> QED BY <1>2, <1>3, <1>4, MarkShow

(* Clear() is through when no node is left. *)
LEMMA ClearLeaves ==
  ASSUME MapInv, MapWalk, purpose = "clear", purpose' # "clear"
  PROVE  alive' = {} /\ root' = Nil
<1>1. CASE PassOrder
  BY <1>1 DEF PassOrder
<1>2. CASE SkipNull
  BY <1>2 DEF SkipNull
<1>3. CASE PushStack
  BY <1>3 DEF PushStack
<1>4. CASE VisitAndLeave("zero", FALSE)
  <2>1. PopStack(FALSE)
    BY <1>4, DestroyFacts
  <2>2. stack = <<>> /\ root' = Nil
    BY <2>1 DEF PopStack, Finish
  <2>3. Len(stack) = stale
    <3>1. Len(stack) = 0 /\ stale \in Nat /\ Len(stack) >= stale
      BY <2>2, ClearFacts, WalkFacts
    <3> QED BY <3>1
  <2> QED BY <1>4, <2>2, <2>3, ClearEnds
<1> QED BY <1>1, <1>2, <1>3, <1>4, ClearSteps

LEMMA WalkMarks ==
  ASSUME KeyInv, MapWalk
  PROVE  MarkOK' /\ RefOK'
<1>1. /\ ~Searching /\ UNCHANGED <<ref, refKey, call>>
      /\ \A n \in alive' : item'[n] = item[n]
  BY WalkFacts DEF KeyInv, MapWalk
<1>2. RefOK'
  BY <1>1 DEF KeyInv, RefOK
<1>3. CASE purpose = "each"
  <2>1. UNCHANGED <<alive, sub, root>>
    BY <1>3, EachStep DEF KeyInv
  <2> QED BY <1>1, <1>3, <2>1, StaysMarked
<1>4. CASE purpose = "clear" /\ purpose' = "clear"
  BY <1>2, <1>4 DEF MarkOK
<1>5. CASE purpose = "clear" /\ purpose' # "clear"
  <2>1. alive' = {} /\ root' = Nil
    BY <1>5, ClearLeaves DEF KeyInv
  <2> DEFINE a == [n \in {} |-> <<>>]
             may == [n \in {} |-> Nat]
  <2>2. a \in [{} -> Seq(Nat)] /\ may \in [{} -> SUBSET Nat]
    OBVIOUS
  <2> HIDE DEF a, may
  <2>3. Marked(alive', sub', root', item', a, may)
    BY <2>1, <2>2 DEF Marked
  <2>4. Fits(a, may)'
    BY <1>1 DEF Fits, Searching
  <2>5. Refers(a)'
    <3>1. ref = Nil
      BY <1>5 DEF KeyInv, MapInv, LoopOK
    <3> QED BY <1>1, <3>1 DEF KeyInv, RefOK, Refers
  <2> QED BY <1>2, <2>3, <2>4, <2>5, MarkShow
<1>6. purpose \in {"each", "clear"}
  BY DEF KeyInv, MapInv, LoopOK
<1> QED BY <1>3, <1>4, <1>5, <1>6

LEMMA KeyInit == MapInit => KeyInv
<1> SUFFICES ASSUME MapInit  PROVE KeyInv
  OBVIOUS
<1>1. MapInv
  BY MapInit_Inv
<1>2. alive = {} /\ root = Nil /\ ref = Nil /\ refKey = None /\ call = NoCall
  BY DEF MapInit, Init
<1> DEFINE a == [n \in {} |-> <<>>]
           may == [n \in {} |-> Nat]
<1>3. a \in [{} -> Seq(Nat)] /\ may \in [{} -> SUBSET Nat]
  OBVIOUS
<1> HIDE DEF a, may
<1>4. Marked(alive, sub, root, item, a, may)
  BY <1>2, <1>3 DEF Marked
<1>5. Fits(a, may) /\ Refers(a)
  BY <1>2 DEF Fits, Searching, NoCall, Refers
<1> QED BY <1>1, <1>2, <1>4, <1>5 DEF KeyInv, RefOK, MarkOK

LEMMA KeyStep ==
  ASSUME KeyInv, [MapNext]_mapVars
  PROVE  KeyInv'
<1>0. MapInv'
  BY MapStep DEF KeyInv
<1> SUFFICES MarkOK' /\ RefOK'
  BY <1>0 DEF KeyInv
<1>1. CASE \E o \in {"get", "remove", "index"}, k \in Keys : Call(o, k)
  BY <1>1, CallMarks
<1>2. CASE Lookup
  BY <1>2, DescendMarks, FoundMarks, MissingMarks, InsertMarks DEF Lookup
<1>9. ASSUME pc = "idle"  PROVE purpose # "clear"
  BY <1>9, IdleFacts DEF KeyInv
<1>3. CASE \E v \in Val \cup {Empty} : Assign(v)
  <2>1. pc = "idle" /\ UNCHANGED <<alive, sub, root, item, ref, refKey, call>>
    BY <1>3 DEF Assign, BetweenCalls, BetweenWalks, nodeVars
  <2> QED BY <1>9, <2>1, StaysMarked
<1>4. CASE \E o \in Orders : MapForEach(o)
  <2>1. pc = "idle" /\ UNCHANGED <<alive, sub, root, item, ref, refKey, call>>
    BY <1>4 DEF MapForEach, StartMapWalk, StartWalk, nodeVars, dataVars
  <2> QED BY <1>9, <2>1, StaysMarked
<1>5. CASE ClearNodes
  <2>1. /\ pc = "idle" /\ UNCHANGED <<alive, sub, root, item, call>>
        /\ ref' = Nil /\ refKey' = None
    BY <1>5 DEF ClearNodes, StartMapWalk, StartWalk, nodeVars, dataVars
  <2> QED BY <1>9, <2>1, StaysMarked
<1>6. CASE ClearCount
  <2>1. pc = "idle" /\ UNCHANGED <<alive, sub, root, item, ref, refKey, call>>
    BY <1>6 DEF ClearCount, BetweenCalls, BetweenWalks, nodeVars
  <2> QED BY <1>9, <2>1, StaysMarked
<1>7. CASE MapWalk
  BY <1>7, WalkMarks
<1>8. CASE UNCHANGED mapVars
  <2>1. UNCHANGED <<alive, sub, root, item, ref, refKey, call, purpose>>
    BY <1>8 DEF mapVars, vars, nodeVars, walkVars, dataVars, clientVars
  <2>2. CASE purpose = "clear"
    BY <2>1, <2>2 DEF MarkOK, RefOK, KeyInv
  <2>3. CASE purpose # "clear"
    BY <2>1, <2>3, StaysMarked
  <2> QED BY <2>2, <2>3
<1> QED BY <1>1, <1>2, <1>3, <1>4, <1>5, <1>6, <1>7, <1>8 DEF MapNext

(* At all times the nodes can be marked with the keys above them and the   *)
(* room at their places, so that a lookup stands where its key belongs and *)
(* the client's reference is to the node of the key it asked for           *)
(* (property_map.h, findNode, findNodeWithKeyItem and operator[]).         *)
THEOREM KeyInvariant == MapSpec => []KeyInv
<1>1. KeyInv /\ [MapNext]_mapVars => KeyInv'
  BY KeyStep
<1> QED BY <1>1, KeyInit, PTL DEF MapSpec

(* Every node ever made is found under the key its place stands for, however *)
(* the lookups have rotated the tree since (property_map.h,                *)
(* findNodeWithKeyItem; tree.h, Separate and Rotate).                      *)
THEOREM EveryKeyFound == MapSpec => []Findable
<1>1. KeyInv => Findable
  <2> SUFFICES ASSUME KeyInv, purpose # "clear"
               PROVE  /\ alive = {e.node : e \in Named}
                      /\ \A e \in Named : NodeOf(e.key) = e.node
    BY DEF Findable
  <2>1. Tree(alive, sub, root) /\ IsFiniteSet(alive) /\ Nil \notin alive
    BY TreeAssumption DEF KeyInv, MapInv, TreeOK, Shaped
  <2>2. PICK a, may : Marked(alive, sub, root, item, a, may)
    BY MarkTake DEF KeyInv
  <2>3. Named = {Entry(n, Key(item, a, n)) : n \in alive}
    BY <2>1, <2>2, NamedIs
  <2>4. \A n : \A q : Entry(n, q).node = n /\ Entry(n, q).key = q
    BY DEF Entry
  <2>5. \A n \in alive : NodeOf(Key(item, a, n)) = n
    BY <2>1, <2>2, NodeOfFinds
  <2> QED BY <2>3, <2>4, <2>5
<1> QED BY <1>1, KeyInvariant, PTL

-----------------------------------------------------------------------------
(***************************************************************************)
(* What the users of the map see.                                          *)
(***************************************************************************)
(* What the values of the nodes A say of every key. *)
Differ(A, it, a) == \A n, m \in A : Key(it, a, n) = Key(it, a, m) => n = m
Bears(A, it, a, k) == {n \in A : Key(it, a, n) = k}
ValueOf(A, it, a, vl, k) ==
  IF Bears(A, it, a, k) = {} THEN Empty ELSE vl[CHOOSE n \in Bears(A, it, a, k) : TRUE]
Served(A, it, a, vl) == [k \in Keys |-> ValueOf(A, it, a, vl, k)]
NoContent == [k \in Keys |-> Empty]

LEMMA ValueIs ==
  ASSUME NEW A, NEW it, NEW a, Differ(A, it, a), NEW vl
  PROVE  /\ \A n \in A : ValueOf(A, it, a, vl, Key(it, a, n)) = vl[n]
         /\ \A k : (\A n \in A : Key(it, a, n) # k) => ValueOf(A, it, a, vl, k) = Empty
<1>1. ASSUME NEW n \in A  PROVE ValueOf(A, it, a, vl, Key(it, a, n)) = vl[n]
  <2>1. Bears(A, it, a, Key(it, a, n)) = {n}
    BY DEF Bears, Differ
  <2> QED BY <2>1 DEF ValueOf
<1>2. ASSUME NEW k, \A n \in A : Key(it, a, n) # k  PROVE ValueOf(A, it, a, vl, k) = Empty
  <2>1. Bears(A, it, a, k) = {}
    BY <1>2 DEF Bears
  <2> QED BY <2>1 DEF ValueOf
<1> QED BY <1>1, <1>2

LEMMA MarksDiffer ==
  ASSUME NEW A, NEW s, NEW r, Tree(A, s, r), NEW it, NEW a, NEW may,
         Marked(A, s, r, it, a, may), Nil \notin A
  PROVE  Differ(A, it, a)
BY KeysDiffer DEF Differ

(* The same values at the same keys. *)
LEMMA ServedSame ==
  ASSUME NEW A, NEW it, NEW a, NEW vl, NEW jt, NEW wl,
         \A n \in A : jt[n] = it[n] /\ wl[n] = vl[n]
  PROVE  Served(A, jt, a, wl) = Served(A, it, a, vl)
<1> SUFFICES ASSUME NEW k \in Keys  PROVE ValueOf(A, jt, a, wl, k) = ValueOf(A, it, a, vl, k)
  BY DEF Served
<1>1. Bears(A, jt, a, k) = Bears(A, it, a, k)
  BY DEF Bears, Key
<1>2. Bears(A, it, a, k) \subseteq A
  BY DEF Bears
<1> QED BY <1>1, <1>2 DEF ValueOf

(* A value changes at one node, and at the key of it. *)
LEMMA ServedChanged ==
  ASSUME NEW A, NEW it, NEW a, Differ(A, it, a), NEW vl, NEW wl, NEW m \in A, NEW v,
         wl[m] = v, \A n \in A : n # m => wl[n] = vl[n], Key(it, a, m) \in Keys
  PROVE  Served(A, it, a, wl) = [Served(A, it, a, vl) EXCEPT ![Key(it, a, m)] = v]
<1> DEFINE x == Key(it, a, m)
<1>1. ValueOf(A, it, a, wl, x) = v
  BY ValueIs
<1>2. ASSUME NEW k, k # x  PROVE ValueOf(A, it, a, wl, k) = ValueOf(A, it, a, vl, k)
  <2>1. Bears(A, it, a, k) \subseteq A /\ m \notin Bears(A, it, a, k)
    BY <1>2 DEF Bears
  <2> QED BY <2>1 DEF ValueOf
<1> HIDE DEF x
<1> QED BY <1>1, <1>2 DEF Served, x

(* A node without value more. *)
LEMMA ServedMore ==
  ASSUME NEW A, NEW n, n \notin A, NEW it, NEW a, NEW vl, NEW jt, NEW b, NEW wl,
         Differ(A \cup {n}, jt, b), wl[n] = Empty,
         \A m \in A : Key(jt, b, m) = Key(it, a, m) /\ wl[m] = vl[m]
  PROVE  Served(A \cup {n}, jt, b, wl) = Served(A, it, a, vl)
<1> DEFINE B == A \cup {n}
<1> SUFFICES ASSUME NEW k \in Keys  PROVE ValueOf(B, jt, b, wl, k) = ValueOf(A, it, a, vl, k)
  BY DEF Served
<1>1. CASE k = Key(jt, b, n)
  <2>1. ValueOf(B, jt, b, wl, k) = Empty
    BY <1>1, ValueIs
  <2>2. Bears(A, it, a, k) = {}
    BY <1>1 DEF Bears, Differ
  <2> QED BY <2>1, <2>2 DEF ValueOf
<1>2. CASE k # Key(jt, b, n)
  <2>1. Bears(B, jt, b, k) = Bears(A, it, a, k)
    BY <1>2 DEF Bears
  <2>2. Bears(A, it, a, k) \subseteq A
    BY DEF Bears
  <2> QED BY <2>1, <2>2 DEF ValueOf
<1> QED BY <1>1, <1>2

LEMMA ServedNone ==
  ASSUME NEW it, NEW a, NEW vl
  PROVE  Served({}, it, a, vl) = NoContent
<1>1. \A k : ValueOf({}, it, a, vl, k) = Empty
  BY DEF ValueOf, Bears
<1> QED BY <1>1 DEF Served, NoContent

(* What the users see of the nodes. *)
Reading ==
  IF purpose = "clear" THEN Content = NoContent
  ELSE \A a, may : Marked(alive, sub, root, item, a, may) => Content = Served(alive, item, a, val)

LEMMA ContentRead == KeyInv => Reading
<1> SUFFICES ASSUME KeyInv  PROVE Reading
  OBVIOUS
<1>1. CASE purpose = "clear"
  BY <1>1 DEF Reading, Content, NoContent
<1>2. CASE purpose # "clear"
  <2> SUFFICES ASSUME NEW a, NEW may, Marked(alive, sub, root, item, a, may)
               PROVE  Content = Served(alive, item, a, val)
    BY <1>2 DEF Reading
  <2>1. Tree(alive, sub, root) /\ IsFiniteSet(alive) /\ Nil \notin alive
    BY <1>2, TreeAssumption DEF KeyInv, MapInv, TreeOK, Shaped
  <2>2. Named = {Entry(n, Key(item, a, n)) : n \in alive}
    BY <2>1, NamedIs
  <2>3. Differ(alive, item, a)
    BY <2>1, MarksDiffer
  <2> DEFINE Said(k) == IF \E e \in Named : e.key = k
                        THEN val[(CHOOSE e \in Named : e.key = k).node]
                        ELSE Empty
  <2>4. Content = [k \in Keys |-> Said(k)]
    BY <1>2 DEF Content
  <2>5. \A n : \A q : Entry(n, q).node = n /\ Entry(n, q).key = q
    BY DEF Entry
  <2>6. ASSUME NEW k \in Keys  PROVE Said(k) = ValueOf(alive, item, a, val, k)
    <3>1. CASE \A n \in alive : Key(item, a, n) # k
      <4>1. \A e \in Named : e.key # k
        BY <2>2, <2>5, <3>1
      <4>2. Said(k) = Empty
        BY <4>1
      <4> QED BY <2>3, <3>1, <4>2, ValueIs
    <3>2. ASSUME NEW n \in alive, Key(item, a, n) = k
          PROVE  Said(k) = ValueOf(alive, item, a, val, k)
      <4> DEFINE e == Entry(n, k)
      <4>1. e \in Named /\ e.key = k /\ e.node = n
        BY <2>2, <2>5, <3>2
      <4>2. \A d \in Named : d.key = k => d = e
        BY <2>2, <2>3, <2>5, <3>2 DEF Differ
      <4> HIDE DEF e
      <4>3. (CHOOSE d \in Named : d.key = k) = e
        BY <4>1, <4>2
      <4>4. Said(k) = val[n]
        BY <4>1, <4>3
      <4> QED BY <2>3, <3>2, <4>4, ValueIs
    <3> QED BY <3>1, <3>2
  <2> HIDE DEF Said
  <2> QED BY <2>4, <2>6 DEF Served
<1> QED BY <1>1, <1>2

(* Where a lookup finds nobody there is nobody with its key. *)
LEMMA NobodyHas ==
  ASSUME MapInv, Searching, call.key # <<>>, At(call.cur) = Nil,
         NEW a, NEW may, Marked(alive, sub, root, item, a, may), Fits(a, may),
         NEW m \in alive
  PROVE  Key(item, a, m) # call.key
<1> SUFFICES ASSUME Key(item, a, m) = call.key  PROVE FALSE
  OBVIOUS
<1>1. /\ Tree(alive, sub, root) /\ Nil \notin alive /\ SlotOK(call.cur)
      /\ call.pos \in 1..Len(call.key) /\ call.key \in Seq(Nat \ {0})
  BY SearchFacts, IdleFacts
<1> DEFINE k == call.key
           p == call.pos
           node == call.cur.node
           j == call.cur.idx + 1
<1>2. k \in Seq(Nat) /\ p \in 1..Len(k)
  <2>1. k \in Seq(Nat \ {0}) /\ p \in 1..Len(k)
    BY <1>1
  <2> HIDE DEF k
  <2> QED BY <2>1
<1>3. /\ AboveAt(item, a, call.cur) = SubSeq(k, 1, p - 1)
      /\ k[p] \in RoomAt(item, may, call.cur)
  BY DEF Fits, Wanted
<1>4. CASE call.cur = RootSlot
  <2>1. root = Nil
    BY <1>4 DEF At, RootSlot, Slot
  <2>2. root \in {} \cup {Nil} /\ Leads({}, sub)
    BY <2>1 DEF Leads
  <2> QED BY <1>1, <2>2 DEF Tree, Rooted
<1>5. CASE node \in alive /\ call.cur.idx \in 0..2
  <2>1. j \in Places /\ node # Nil /\ sub[node][j] = Nil
    BY <1>1, <1>5 DEF Places, At
  <2>2. Above(item, a, node, j) = SubSeq(k, 1, p - 1) /\ k[p] \in Room(item, may, node, j)
    BY <1>3, <2>1 DEF AboveAt, RoomAt
  <2>3. Key(item, a, m) = k
    OBVIOUS
  <2> HIDE DEF k, p, node, j
  <2>4. Rest(k, p) \in Seq(Nat) /\ Rest(k, p) # <<>> /\ Rest(k, p)[1] = k[p]
    BY <1>2, RestIs
  <2>5. SubSeq(k, 1, p - 1) \o Rest(k, p) = k
    <3>1. Len(k) \in Nat
      BY <1>2, LenProperties
    <3> QED BY <1>2, <3>1, ConcatAdjacentSubSeq, SubSeqFull DEF Rest
  <2>6. Joined(Above(item, a, node, j), Rest(k, p)) = Key(item, a, m)
    BY <2>2, <2>3, <2>5 DEF Joined
  <2>7. ReadOn(item, a, may, node, m) => m \in Behind(alive, sub, node)
    BY <1>1, <1>5, Holds DEF node
  <2>8. Leads(alive, sub) /\ node \in alive
    BY <1>1, <1>5 DEF Tree, node
  <2> QED BY <1>1, <2>1, <2>2, <2>4, <2>6, <2>7, <2>8, SlotHolds
<1> QED BY <1>1, <1>4, <1>5 DEF SlotOK

-----------------------------------------------------------------------------
(***************************************************************************)
(* Every step of the map is a step of PropertyStore or none.               *)
(***************************************************************************)
StoreStep == [Store!Next]_(Store!storeVars)

LEMMA StoreIdle ==
  ASSUME Content' = Content, UNCHANGED <<refKey, reply>>
  PROVE  StoreStep
BY DEF StoreStep, Store!storeVars

LEMMA StoreBegins ==
  ASSUME Content' = Content, refKey' = refKey, reply' = None
  PROVE  StoreStep
BY DEF StoreStep, Store!Next, Store!Begin

LEMMA ContentStays ==
  ASSUME KeyInv, Reading, Reading', UNCHANGED <<alive, sub, root>>,
         \A n \in alive : item'[n] = item[n] /\ val'[n] = val[n],
         purpose # "clear", purpose' # "clear"
  PROVE  Content' = Content
<1>1. PICK a, may : Marked(alive, sub, root, item, a, may)
  BY MarkTake DEF KeyInv
<1>2. Marked(alive', sub', root', item', a, may)
  BY <1>1, MarkedSame
<1>3. Content = Served(alive, item, a, val) /\ Content' = Served(alive', item', a, val')
  BY <1>1, <1>2 DEF Reading
<1> QED BY <1>3, ServedSame

LEMMA CallStores ==
  ASSUME KeyInv, Reading, Reading', NEW o \in {"get", "remove", "index"}, NEW k \in Keys, Call(o, k)
  PROVE  StoreStep
<1>1. /\ pc = "idle" /\ UNCHANGED <<alive, sub, root, item, val, refKey, purpose>> /\ reply' = None
  BY DEF Call, BetweenCalls, BetweenWalks, nodeVars
<1>2. purpose # "clear"
  BY <1>1, IdleFacts DEF KeyInv
<1> QED BY <1>1, <1>2, ContentStays, StoreBegins

LEMMA DescendStores ==
  ASSUME KeyInv, Reading, Reading', Descend
  PROVE  StoreStep
<1>1. Searching /\ UNCHANGED <<alive, sub, root, item, val, refKey, reply, purpose>>
  BY DEF Descend, vars, nodeVars, walkVars, dataVars, clientVars
<1>2. purpose # "clear"
  BY <1>1, SearchFacts, IdleFacts DEF KeyInv
<1> QED BY <1>1, <1>2, ContentStays, StoreIdle

LEMMA InsertStores ==
  ASSUME KeyInv, Reading, KeyInv', Reading', NEW n \in Node, Insert(n)
  PROVE  StoreStep
<1>1. /\ Searching /\ n \notin alive /\ alive' = alive \cup {n}
      /\ item' = [item EXCEPT ![n] = Wanted] /\ val' = [val EXCEPT ![n] = Empty]
      /\ UNCHANGED <<refKey, reply, purpose>>
  BY DEF Insert, clientVars, walkVars
<1>2. purpose # "clear" /\ alive \subseteq Node /\ val \in [Node -> Val \cup {Empty}]
      /\ item \in [Node -> Nat]
  BY <1>1, SearchFacts, IdleFacts DEF KeyInv, MapInv, DataTypes
<1>3. PICK a, may : /\ Marked(alive, sub, root, item, a, may)
                    /\ Grown(n, sub', root', item', a, may)
  BY InsertGrows
<1>4. PICK b, new : /\ Marked(alive \cup {n}, sub', root', item', b, new)
                    /\ \A m \in alive : b[m] = a[m] /\ new[m] = may[m]
  BY <1>3 DEF Grown
<1>5. Content = Served(alive, item, a, val) /\ Content' = Served(alive \cup {n}, item', b, val')
  BY <1>1, <1>2, <1>3, <1>4 DEF Reading
<1>6. Differ(alive \cup {n}, item', b)
  <2>1. Tree(alive \cup {n}, sub', root') /\ Nil \notin alive \cup {n}
    BY <1>1, <1>2, TreeAssumption DEF KeyInv, MapInv, TreeOK
  <2> QED BY <1>4, <2>1, MarksDiffer
<1>7. val'[n] = Empty /\ \A m \in alive : val'[m] = val[m] /\ item'[m] = item[m]
  BY <1>1, <1>2
<1>8. \A m \in alive : Key(item', b, m) = Key(item, a, m)
  BY <1>4, <1>7 DEF Key
<1>9. Content' = Content
  <2>1. n \notin alive /\ \A m \in alive : Key(item', b, m) = Key(item, a, m) /\ val'[m] = val[m]
    BY <1>1, <1>7, <1>8
  <2> DEFINE jt == item'
             wl == val'
  <2>2. Differ(alive \cup {n}, jt, b) /\ wl[n] = Empty
    BY <1>6, <1>7
  <2>3. \A m \in alive : Key(jt, b, m) = Key(item, a, m) /\ wl[m] = val[m]
    BY <2>1
  <2> HIDE DEF jt, wl
  <2>4. Served(alive \cup {n}, jt, b, wl) = Served(alive, item, a, val)
    BY <2>1, <2>2, <2>3, ServedMore
  <2> QED BY <1>5, <2>4 DEF jt, wl
<1> QED BY <1>1, <1>9, StoreIdle

LEMMA MissingStores ==
  ASSUME KeyInv, Reading, Reading', Missing
  PROVE  StoreStep
<1>1. /\ Searching /\ UNCHANGED <<alive, sub, root, item, val, refKey, purpose>>
      /\ call.key = <<>> \/ (call.op # "index" /\ At(call.cur) = Nil)
      /\ reply' = IF call.op = "get" THEN [key |-> call.key, val |-> Empty] ELSE reply
  BY DEF Missing, vars, nodeVars, walkVars, dataVars
<1>2. purpose # "clear" /\ MapInv /\ call.key \in Keys
  BY <1>1, SearchFacts, IdleFacts DEF KeyInv
<1>3. Content' = Content
  BY <1>1, <1>2, ContentStays
<1>4. CASE call.op # "get"
  BY <1>1, <1>3, <1>4, StoreIdle
<1>5. CASE call.op = "get"
  <2>1. PICK a, may : Marked(alive, sub, root, item, a, may) /\ Fits(a, may)
    BY <1>2, MarkTake DEF KeyInv
  <2>2. \A m \in alive : Key(item, a, m) # call.key
    <3>1. CASE call.key = <<>>
      <4> SUFFICES ASSUME NEW m \in alive  PROVE Key(item, a, m) # <<>>
        BY <3>1
      <4>1. a[m] \in Seq(Nat) /\ item[m] \in Nat
        BY <2>1, MarkedIs
      <4> QED BY <4>1, AppendProperties DEF Key
    <3>2. CASE call.key # <<>>
      BY <1>1, <1>2, <2>1, <3>2, NobodyHas
    <3> QED BY <3>1, <3>2
  <2>3. Differ(alive, item, a)
    BY <1>2, <2>1, MarksDiffer, TreeAssumption DEF MapInv, TreeOK, Shaped
  <2>4. Content = Served(alive, item, a, val)
    BY <1>2, <2>1 DEF Reading
  <2>5. Content[call.key] = Empty
    BY <1>2, <2>2, <2>3, <2>4, ValueIs DEF Served
  <2>6. Store!GetValue(call.key)
    BY <1>1, <1>3, <1>5, <2>5 DEF Store!GetValue
  <2> QED BY <1>2, <2>6 DEF StoreStep, Store!Next
<1> QED BY <1>4, <1>5

LEMMA FoundStores ==
  ASSUME KeyInv, Reading, Reading', Found
  PROVE  StoreStep
<1> DEFINE t == At(call.cur)
<1>1. /\ Searching /\ call.key # <<>> /\ t # Nil
      /\ UNCHANGED <<alive, item, purpose>>
      /\ IF call.pos = Len(call.key) THEN Return(t)
         ELSE UNCHANGED <<val, valCount, clientVars>>
  BY DEF Found, walkVars
<1>2. /\ MapInv /\ t \in alive /\ purpose # "clear" /\ call.key \in Keys
      /\ call.op \in {"get", "remove", "index"}
      /\ Tree(alive, sub, root) /\ Nil \notin alive
      /\ alive \subseteq Node /\ val \in [Node -> Val \cup {Empty}]
  BY <1>1, SearchFacts, IdleFacts DEF KeyInv, MapInv, DataTypes
<1>3. PICK a, may : /\ Marked(alive, sub, root, item, a, may)
                    /\ call.pos = Len(call.key) => Key(item, a, t) = call.key
  BY FoundKey
<1>4. PICK new : Marked(alive, sub', root', item, a, new)
  BY <1>2, <1>3, FoundMarked DEF Remarked
<1>5. Content = Served(alive, item, a, val) /\ Content' = Served(alive, item, a, val')
  BY <1>1, <1>2, <1>3, <1>4 DEF Reading
<1>6. Differ(alive, item, a)
  BY <1>2, <1>3, MarksDiffer
<1> HIDE DEF t
<1>7. CASE call.pos # Len(call.key)
  BY <1>1, <1>5, <1>7, StoreIdle DEF clientVars
<1>8. CASE call.pos = Len(call.key)
  <2>1. Return(t) /\ Key(item, a, t) = call.key
    BY <1>1, <1>3, <1>8
  <2>2. Content[call.key] = val[t]
    BY <1>2, <1>5, <1>6, <2>1, ValueIs DEF Served
  <2>3. CASE call.op = "get"
    <3>1. reply' = [key |-> call.key, val |-> val[t]] /\ UNCHANGED <<val, refKey>>
      BY <2>1, <2>3 DEF Return
    <3>2. Store!GetValue(call.key)
      BY <1>5, <2>2, <3>1 DEF Store!GetValue
    <3> QED BY <1>2, <3>2 DEF StoreStep, Store!Next
  <2>4. CASE call.op = "remove"
    <3>1. val' = [val EXCEPT ![t] = Empty] /\ UNCHANGED <<reply, refKey>>
      BY <2>1, <2>4 DEF Return
    <3>2. val'[t] = Empty /\ \A n \in alive : n # t => val'[n] = val[n]
      BY <1>2, <3>1
    <3>3. Content' = [Content EXCEPT ![call.key] = Empty]
      <4>1. Served(alive, item, a, val') = [Served(alive, item, a, val) EXCEPT ![Key(item, a, t)] = Empty]
        <5> DEFINE wl == val'
        <5>1. wl[t] = Empty /\ \A n \in alive : n # t => wl[n] = val[n]
          BY <3>2
        <5>2. Key(item, a, t) \in Keys /\ t \in alive
          BY <1>2, <2>1
        <5> HIDE DEF wl
        <5>3. Served(alive, item, a, wl) = [Served(alive, item, a, val) EXCEPT ![Key(item, a, t)] = Empty]
          BY <1>6, <5>1, <5>2, ServedChanged
        <5> QED BY <5>3 DEF wl
      <4> QED BY <1>5, <2>1, <4>1
    <3>4. Store!Remove(call.key)
      BY <3>1, <3>3 DEF Store!Remove
    <3> QED BY <1>2, <3>4 DEF StoreStep, Store!Next
  <2>5. CASE call.op = "index"
    <3>1. refKey' = call.key /\ UNCHANGED <<val, reply>>
      BY <2>1, <2>5 DEF Return
    <3>2. Store!Index(call.key)
      BY <1>5, <3>1 DEF Store!Index
    <3> QED BY <1>2, <3>2 DEF StoreStep, Store!Next
  <2> QED BY <1>2, <2>3, <2>4, <2>5
<1> QED BY <1>7, <1>8

LEMMA AssignStores ==
  ASSUME KeyInv, Reading, Reading', NEW v \in Val \cup {Empty}, Assign(v)
  PROVE  StoreStep
<1>1. /\ pc = "idle" /\ ref # Nil /\ val' = [val EXCEPT ![ref] = v] /\ reply' = None
      /\ UNCHANGED <<alive, sub, root, item, refKey, purpose>>
  BY DEF Assign, BetweenCalls, BetweenWalks, nodeVars
<1>2. /\ MapInv /\ purpose # "clear" /\ ref \in alive /\ alive \subseteq Node
      /\ val \in [Node -> Val \cup {Empty}]
      /\ Tree(alive, sub, root) /\ Nil \notin alive
  BY <1>1, IdleFacts DEF KeyInv, MapInv, LoopOK, DataTypes
<1>3. PICK a, may : Marked(alive, sub, root, item, a, may) /\ Refers(a)
  BY <1>2, MarkTake DEF KeyInv
<1>4. refKey \in Keys /\ Key(item, a, ref) = refKey /\ refKey # None
  BY <1>1, <1>3, PropertyMapAssumption DEF Refers
<1>5. Content = Served(alive, item, a, val) /\ Content' = Served(alive, item, a, val')
  BY <1>1, <1>2, <1>3 DEF Reading
<1>6. Differ(alive, item, a)
  BY <1>2, <1>3, MarksDiffer
<1>7. val'[ref] = v /\ \A n \in alive : n # ref => val'[n] = val[n]
  BY <1>1, <1>2
<1>8. Content' = [Content EXCEPT ![refKey] = v]
  <2>1. Served(alive, item, a, val') = [Served(alive, item, a, val) EXCEPT ![Key(item, a, ref)] = v]
    BY <1>2, <1>4, <1>6, <1>7, ServedChanged
  <2> QED BY <1>4, <1>5, <2>1
<1>9. Store!Assign(v)
  BY <1>1, <1>4, <1>8 DEF Store!Assign
<1> QED BY <1>9 DEF StoreStep, Store!Next

LEMMA StartStores ==
  ASSUME KeyInv, Reading, Reading', NEW o, NEW p \in {"each", "clear"}, StartMapWalk(o, p),
         p = "each" => UNCHANGED <<ref, refKey>>,
         p = "clear" => ref' = Nil /\ refKey' = None
  PROVE  StoreStep
<1>1. /\ pc = "idle" /\ UNCHANGED <<alive, sub, root, item, val>> /\ reply' = None /\ purpose' = p
  BY DEF StartMapWalk, StartWalk, nodeVars, dataVars
<1>2. purpose # "clear"
  BY <1>1, IdleFacts DEF KeyInv
<1>3. CASE p = "each"
  BY <1>1, <1>2, <1>3, ContentStays, StoreBegins
<1>4. CASE p = "clear"
  <2>1. Content' = [k \in Keys |-> Empty]
    BY <1>1, <1>4 DEF Reading, NoContent
  <2>2. Store!Clear
    BY <1>1, <1>4, <2>1 DEF Store!Clear
  <2> QED BY <2>2 DEF StoreStep, Store!Next
<1> QED BY <1>3, <1>4

LEMMA ClearCountStores ==
  ASSUME KeyInv, Reading, Reading', ClearCount
  PROVE  StoreStep
<1>1. /\ pc = "idle" /\ UNCHANGED <<alive, sub, root, item, val, refKey, purpose>> /\ reply' = None
  BY DEF ClearCount, BetweenCalls, BetweenWalks, nodeVars
<1>2. purpose # "clear"
  BY <1>1, IdleFacts DEF KeyInv
<1> QED BY <1>1, <1>2, ContentStays, StoreBegins

LEMMA WalkStores ==
  ASSUME KeyInv, Reading, KeyInv', Reading', MapWalk
  PROVE  StoreStep
<1>1. /\ UNCHANGED <<refKey, reply>>
      /\ \A n \in alive' : item'[n] = item[n] /\ val'[n] = val[n]
  BY WalkFacts DEF KeyInv, MapWalk
<1>2. CASE purpose = "each"
  <2>1. UNCHANGED <<alive, sub, root>> /\ purpose' = "each"
    BY <1>2, EachStep DEF KeyInv
  <2> QED BY <1>1, <1>2, <2>1, ContentStays, StoreIdle
<1>3. CASE purpose = "clear"
  <2>1. Content = NoContent
    BY <1>3 DEF Reading
  <2>2. Content' = NoContent
    <3>1. CASE purpose' = "clear"
      BY <3>1 DEF Reading
    <3>2. CASE purpose' # "clear"
      <4>1. alive' = {}
        BY <1>3, <3>2, ClearLeaves DEF KeyInv
      <4>2. PICK a, may : Marked(alive', sub', root', item', a, may)
        BY <3>2 DEF KeyInv, MarkOK
      <4>3. Content' = Served(alive', item', a, val')
        BY <3>2, <4>2 DEF Reading
      <4> QED BY <4>1, <4>3, ServedNone
    <3> QED BY <3>1, <3>2
  <2> QED BY <1>1, <2>1, <2>2, StoreIdle
<1>4. purpose \in {"each", "clear"}
  BY DEF KeyInv, MapInv, LoopOK
<1> QED BY <1>2, <1>3, <1>4

LEMMA MapStores ==
  ASSUME KeyInv, Reading, KeyInv', Reading', [MapNext]_mapVars
  PROVE  StoreStep
<1>1. CASE \E o \in {"get", "remove", "index"}, k \in Keys : Call(o, k)
  BY <1>1, CallStores
<1>2. CASE Lookup
  BY <1>2, DescendStores, FoundStores, MissingStores, InsertStores DEF Lookup
<1>3. CASE \E v \in Val \cup {Empty} : Assign(v)
  BY <1>3, AssignStores
<1>4. CASE \E o \in Orders : MapForEach(o)
  BY <1>4, StartStores DEF MapForEach
<1>5. CASE ClearNodes
  BY <1>5, StartStores DEF ClearNodes
<1>6. CASE ClearCount
  BY <1>6, ClearCountStores
<1>7. CASE MapWalk
  BY <1>7, WalkStores
<1>8. CASE UNCHANGED mapVars
  <2>1. UNCHANGED <<alive, sub, root, item, val, refKey, reply, purpose>>
    BY <1>8 DEF mapVars, vars, nodeVars, walkVars, dataVars, clientVars
  <2>2. CASE purpose = "clear"
    BY <2>1, <2>2, StoreIdle DEF Reading
  <2>3. CASE purpose # "clear"
    BY <2>1, <2>3, ContentStays, StoreIdle
  <2> QED BY <2>2, <2>3
<1> QED BY <1>1, <1>2, <1>3, <1>4, <1>5, <1>6, <1>7, <1>8 DEF MapNext

(* The map is a store of values by key: GetValue() answers what was last   *)
(* assigned to that key, Remove() empties it and no other, Clear() empties *)
(* all, and no rotation, insertion or traversal shows (property_map.h,     *)
(* GetValue, Remove, operator[] and Clear).                                *)
THEOREM MapIsStore == MapSpec => Implements
<1>1. MapInit => Store!Init
  <2> SUFFICES ASSUME MapInit  PROVE Store!Init
    OBVIOUS
  <2>1. alive = {} /\ purpose # "clear" /\ refKey = None /\ reply = None
    BY KeyInit, IdleFacts DEF MapInit, Init, KeyInv
  <2>2. KeyInv /\ Reading
    BY KeyInit, ContentRead
  <2>3. PICK a, may : Marked(alive, sub, root, item, a, may)
    BY <2>1, <2>2, MarkTake DEF KeyInv
  <2>4. Content = NoContent
    BY <2>1, <2>2, <2>3, ServedNone DEF Reading
  <2> QED BY <2>1, <2>4 DEF Store!Init, NoContent
<1>2. KeyInv /\ Reading /\ KeyInv' /\ Reading' /\ [MapNext]_mapVars
        => [Store!Next]_(Store!storeVars)
  BY MapStores DEF StoreStep
<1>3. KeyInv => Reading
  BY ContentRead
<1> QED BY <1>1, <1>2, <1>3, KeyInvariant, PTL DEF MapSpec, Implements, Store!Spec

-----------------------------------------------------------------------------
(***************************************************************************)
(* Every step of a lookup leaves less to look at.                          *)
(***************************************************************************)
(* The nodes at n and behind its slots, as the definition of Ahead counts them. *)
Level(s, f, n) == {n} \cup UNION {f[m] : m \in {s[n][l] : l \in 1..3} \ {Nil}}
Levels(A, s, f) == f = [n \in A |-> Level(s, f, n)]

LEMMA LevelIs ==
  ASSUME NEW A, NEW s, Nil \notin A, Leads(A, s), NEW n \in A, NEW f,
         \A k \in Places : s[n][k] # Nil => f[s[n][k]] = Behind(A, s, s[n][k])
  PROVE  Level(s, f, n) = Behind(A, s, n)
<1>1. n \in Behind(A, s, n)
  BY BehindFacts
<1>2. /\ \A k \in Places : s[n][k] # Nil => f[s[n][k]] \subseteq Behind(A, s, n)
      /\ \A m \in Behind(A, s, n) : m # n =>
           \E k \in Places : s[n][k] # Nil /\ m \in f[s[n][k]]
  BY BehindParts
<1>3. \A m : m \in Level(s, f, n) <=>
         m = n \/ \E k \in Places : s[n][k] # Nil /\ m \in f[s[n][k]]
  BY DEF Level, Places
<1> QED BY <1>1, <1>2, <1>3

LEMMA LevelsAre ==
  ASSUME NEW A, IsFiniteSet(A), NEW s, NEW r, Tree(A, s, r), Nil \notin A
  PROVE  /\ Levels(A, s, [n \in A |-> Behind(A, s, n)])
         /\ \A f : Levels(A, s, f) => f = [n \in A |-> Behind(A, s, n)]
<1> DEFINE g == [n \in A |-> Behind(A, s, n)]
<1>1. Leads(A, s)
  BY DEF Tree
<1>2. Levels(A, s, g)
  <2>1. ASSUME NEW n \in A  PROVE Level(s, g, n) = Behind(A, s, n)
    <3>1. \A k \in Places : s[n][k] # Nil => g[s[n][k]] = Behind(A, s, s[n][k])
      BY <1>1 DEF Leads
    <3> HIDE DEF g
    <3> QED BY <1>1, <3>1, LevelIs
  <2> QED BY <2>1 DEF Levels
<1>3. ASSUME NEW f, Levels(A, s, f)  PROVE f = g
  <2> DEFINE B == {n \in A : f[n] # Behind(A, s, n)}
  <2>1. f = [n \in A |-> Level(s, f, n)]
    BY <1>3 DEF Levels
  <2>2. ASSUME NEW n \in B, \A k \in Places : s[n][k] \notin B  PROVE FALSE
    <3>1. \A k \in Places : s[n][k] # Nil => f[s[n][k]] = Behind(A, s, s[n][k])
      BY <1>1, <2>2 DEF Leads
    <3>2. Level(s, f, n) = Behind(A, s, n)
      BY <1>1, <3>1, LevelIs
    <3> QED BY <2>1, <3>2
  <2>3. B = {}
    <3> HIDE DEF B
    <3>1. \A n \in B : \E k \in Places : s[n][k] \in B
      BY <2>2
    <3>2. B \in SUBSET A
      BY DEF B
    <3> QED BY <3>1, <3>2, NoDescent
  <2>4. \A n \in A : f[n] = Behind(A, s, n)
    BY <2>3
  <2> QED BY <2>1, <2>4
<1> QED BY <1>2, <1>3

Seen == Searching => Ahead(call.cur) = IF At(call.cur) = Nil THEN {}
                                       ELSE Behind(alive, sub, At(call.cur))

LEMMA AheadSeen == MapInv => Seen
<1> SUFFICES ASSUME MapInv, Searching
             PROVE  Ahead(call.cur) = IF At(call.cur) = Nil THEN {}
                                      ELSE Behind(alive, sub, At(call.cur))
  BY DEF Seen
<1>1. /\ Tree(alive, sub, root) /\ Nil \notin alive /\ IsFiniteSet(alive)
      /\ At(call.cur) \in alive \cup {Nil}
  BY SearchFacts, IdleFacts
<1> DEFINE f == CHOOSE f : Levels(alive, sub, f)
<1>2. Ahead(call.cur) = IF At(call.cur) = Nil THEN {} ELSE f[At(call.cur)]
  BY Zenon DEF Ahead, Levels, Level
<1>3. f = [n \in alive |-> Behind(alive, sub, n)]
  BY <1>1, LevelsAre
<1> HIDE DEF f
<1> QED BY <1>1, <1>2, <1>3

(* A spine is at its first node, and in the slot it follows from there.    *)
LEMMA ChainBehind ==
  ASSUME NEW A, NEW s, Nil \notin A, Leads(A, s), NEW n \in A, NEW d \in Places,
         NEW e \in Chain(A, s, d, n)
  PROVE  e = n \/ (s[n][d] # Nil /\ e \in Behind(A, s, s[n][d]))
<1> DEFINE S == {m \in A : m = n \/ (s[n][d] # Nil /\ m \in Behind(A, s, s[n][d]))}
<1>1. Follows(S, s, d)
  <2> SUFFICES ASSUME NEW m \in S, s[m][d] # Nil  PROVE s[m][d] \in S
    BY DEF Follows
  <2>1. s[m][d] \in A
    BY DEF Leads
  <2>2. CASE m = n
    BY <2>1, <2>2, BehindFacts
  <2>3. CASE m # n
    <3>1. s[n][d] \in A /\ m \in Behind(A, s, s[n][d])
      BY <2>3 DEF Leads
    <3>2. Leads(Behind(A, s, s[n][d]), s)
      BY <3>1, BehindFacts
    <3>3. s[m][d] \in Behind(A, s, s[n][d])
      BY <3>1, <3>2 DEF Leads
    <3> QED BY <2>1, <2>3, <3>3
  <2> QED BY <2>2, <2>3
<1>2. n \in S /\ S \in SUBSET A
  OBVIOUS
<1> HIDE DEF S
<1>3. e \in S
  BY <1>1, <1>2 DEF Chain
<1> QED BY <1>3 DEF S

(* A rotation moves nothing that continues the key of the node it moves up. *)
LEMMA TurnsBehind ==
  ASSUME Nil \notin alive, NEW s, NEW r, Tree(alive, s, r),
         NEW node, NEW p, NEW t, NEW next, NEW q, NEW d, NEW e, NEW u, NEW v,
         Turns(s, r, u, v, node, p, t, next, q, d, e)
  PROVE  /\ u[next][1] = s[next][1]
         /\ s[next][1] # Nil => Behind(alive, u, s[next][1]) \subseteq Behind(alive, s, s[next][1])
<1>1. /\ p \in Places /\ t \in alive /\ next \in alive
      /\ q \in Places /\ d \in Places /\ q # 1 /\ d # 1 /\ s[t][q] = next
      /\ e \in Chain(alive, s, d, next)
      /\ Hangs(s, r, node, p, t)
      /\ Rotated(s, u, node, p, next, t, q, e, d)
      /\ 1 \in Places /\ next # Nil /\ Leads(alive, s) /\ t # Nil
  BY DEF Turns, Places, Tree
<1>2. t \notin Behind(alive, s, next)
  BY <1>1, NoWayBack
<1>3. node \notin Behind(alive, s, next)
  <2>1. CASE node \in alive /\ s[node][p] = t
    <3>1. node \notin Behind(alive, s, t)
      BY <1>1, <2>1, NoWayBack
    <3>2. Behind(alive, s, next) \subseteq Behind(alive, s, t)
      BY <1>1, BehindParts
    <3> QED BY <3>1, <3>2
  <2>2. CASE node = Nil
    BY <2>2 DEF Behind
  <2> QED BY <1>1, <2>1, <2>2 DEF Hangs
<1>4. next \in Behind(alive, s, next)
  BY <1>1, BehindFacts
<1>5. u[next][1] = s[next][1]
  BY <1>1, <1>2, <1>3, <1>4 DEF Rotated
<1>6. ASSUME s[next][1] # Nil
      PROVE  Behind(alive, u, s[next][1]) \subseteq Behind(alive, s, s[next][1])
  <2> DEFINE B == Behind(alive, s, s[next][1])
  <2>1. s[next][1] \in alive /\ B \subseteq Behind(alive, s, next)
    BY <1>1, <1>6, BehindParts
  <2>2. next \notin B
    BY <1>1, <1>6, NoWayBack
  <2>3. e \notin B
    <3>1. CASE e = next
      BY <2>2, <3>1
    <3>2. CASE s[next][d] # Nil /\ e \in Behind(alive, s, s[next][d])
      BY <1>1, <1>6, <3>2, Apart
    <3> QED BY <1>1, <3>1, <3>2, ChainBehind
  <2>4. B \in SUBSET alive /\ s[next][1] \in B /\ Leads(B, s)
    BY <1>1, <2>1, BehindFacts
  <2>5. t \notin B /\ node \notin B
    BY <1>2, <1>3, <2>1
  <2> HIDE DEF B
  <2>6. Leads(B, u)
    <3>1. \A m \in B, j \in Places : u[m][j] = s[m][j]
      BY <1>1, <2>3, <2>4, <2>5 DEF Rotated
    <3> QED BY <2>4, <3>1 DEF Leads
  <2>7. Behind(alive, u, s[next][1]) \subseteq B
    BY <2>4, <2>6, BehindLeast
  <2> QED BY <2>7 DEF B
<1> QED BY <1>5, <1>6

Closer ==
  (Searching /\ Searching' /\ alive' = alive) =>
     /\ Ahead(call.cur)' \subseteq Ahead(call.cur)
     /\ Ahead(call.cur)' # Ahead(call.cur)

LEMMA DescendCloser ==
  ASSUME MapInv, Seen, Seen', Descend, Searching'
  PROVE  /\ Ahead(call.cur)' \subseteq Ahead(call.cur)
         /\ Ahead(call.cur)' # Ahead(call.cur)
<1> DEFINE n == At(call.cur)
           m == sub[n][Side(n) + 1]
<1>1. /\ Searching /\ n # Nil /\ UNCHANGED <<alive, sub, root>>
      /\ call' = [call EXCEPT !.prev = call.cur, !.cur = Slot(n, Side(n)), !.dir = 3 - Side(n)]
  BY DEF Descend, vars, nodeVars
<1>2. /\ Tree(alive, sub, root) /\ Nil \notin alive /\ n \in alive /\ call \in CallSpace
  BY <1>1, SearchFacts, IdleFacts
<1>3. Side(n) + 1 \in Places
  BY DEF Side, Places
<1>4. call'.cur = Slot(n, Side(n))
  BY <1>1, <1>2 DEF CallSpace
<1>5. At(call.cur)' = m
  BY <1>1, <1>4 DEF At, Slot
<1>6. Ahead(call.cur) = Behind(alive, sub, n)
  BY <1>1 DEF Seen
<1>7. Ahead(call.cur)' = IF m = Nil THEN {} ELSE Behind(alive, sub, m)
  BY <1>1, <1>5 DEF Seen
<1>8. n \in Behind(alive, sub, n)
  BY <1>2, BehindFacts DEF Tree
<1>9. CASE m = Nil
  BY <1>6, <1>7, <1>8, <1>9
<1>10. CASE m # Nil
  <2>1. Behind(alive, sub, m) \subseteq Behind(alive, sub, n)
    BY <1>2, <1>3, <1>10, BehindParts DEF Tree
  <2>2. n \notin Behind(alive, sub, m)
    BY <1>2, <1>3, <1>10, NoWayBack
  <2> QED BY <1>6, <1>7, <1>8, <1>10, <2>1, <2>2
<1> QED BY <1>9, <1>10

LEMMA FoundCloser ==
  ASSUME MapInv, Seen, Seen', Found, Searching'
  PROVE  /\ Ahead(call.cur)' \subseteq Ahead(call.cur)
         /\ Ahead(call.cur)' # Ahead(call.cur)
<1> DEFINE n == At(call.cur)
           m == sub[n][1]
<1>1. /\ Searching /\ n # Nil /\ UNCHANGED <<alive>>
      /\ IF call.pos = Len(call.key) THEN Return(n)
         ELSE call' = [call EXCEPT !.pos = @ + 1, !.cur = Slot(n, 0), !.prev = NoSlot]
  BY DEF Found
<1>2. /\ Tree(alive, sub, root) /\ Nil \notin alive /\ n \in alive /\ call \in CallSpace
  BY <1>1, SearchFacts, IdleFacts
<1>3. call'.cur = Slot(n, 0)
  <2>1. ~Return(n)
    <3> SUFFICES ASSUME Return(n)  PROVE ~Searching'
      OBVIOUS
    <3>1. call' = NoCall
      BY DEF Return
    <3> QED BY <3>1 DEF Searching, NoCall
  <2> QED BY <1>1, <1>2, <2>1 DEF CallSpace
<1>4. At(call.cur)' = sub'[n][1]
  BY <1>1, <1>3 DEF At, Slot
<1>5. /\ sub'[n][1] = m
      /\ m # Nil => Behind(alive, sub', m) \subseteq Behind(alive, sub, m)
  <2>1. CASE UNCHANGED <<sub, root>>
    BY <2>1
  <2>2. CASE TurnsUp(n, sub', root')
    <3> HIDE DEF n
    <3>1. PICK node, p, t, q, d, e : Turns(sub, root, sub', root', node, p, t, n, q, d, e)
      BY <2>2 DEF TurnsUp
    <3> QED BY <1>2, <3>1, TurnsBehind
  <2> QED BY <2>1, <2>2, FoundTurns
<1>6. Ahead(call.cur) = Behind(alive, sub, n)
  BY <1>1 DEF Seen
<1>7. Ahead(call.cur)' = IF m = Nil THEN {} ELSE Behind(alive, sub', m)
  BY <1>1, <1>4, <1>5 DEF Seen
<1>8. n \in Behind(alive, sub, n) /\ 1 \in Places
  BY <1>2, BehindFacts DEF Tree, Places
<1>9. CASE m = Nil
  BY <1>6, <1>7, <1>8, <1>9
<1>10. CASE m # Nil
  <2>1. Behind(alive, sub, m) \subseteq Behind(alive, sub, n)
    BY <1>2, <1>8, <1>10, BehindParts DEF Tree
  <2>2. n \notin Behind(alive, sub, m)
    BY <1>2, <1>8, <1>10, NoWayBack
  <2> QED BY <1>5, <1>6, <1>7, <1>8, <1>10, <2>1, <2>2
<1> QED BY <1>9, <1>10

LEMMA MapCloser ==
  ASSUME MapInv, Seen, Seen', MapNext
  PROVE  Closer
<1> SUFFICES ASSUME Searching, Searching', alive' = alive
             PROVE  /\ Ahead(call.cur)' \subseteq Ahead(call.cur)
                    /\ Ahead(call.cur)' # Ahead(call.cur)
  BY DEF Closer
<1>1. pc = "idle"
  BY SearchFacts
<1>2. CASE Lookup
  <2>1. CASE Missing
    <3>1. ~Searching'
      BY <2>1 DEF Missing, Searching, NoCall
    <3> QED BY <3>1
  <2>2. ASSUME NEW n \in Node, Insert(n)  PROVE FALSE
    BY <2>2 DEF Insert
  <2> QED BY <1>2, <2>1, <2>2, DescendCloser, FoundCloser DEF Lookup
<1>3. CASE \E o \in {"get", "remove", "index"}, k \in Keys : Call(o, k)
  BY <1>3 DEF Call
<1>4. CASE \E v \in Val \cup {Empty} : Assign(v)
  BY <1>4 DEF Assign
<1>5. CASE \E o \in Orders : MapForEach(o)
  BY <1>5 DEF MapForEach, StartMapWalk
<1>6. CASE ClearNodes
  BY <1>6 DEF ClearNodes, StartMapWalk
<1>7. CASE ClearCount
  BY <1>7 DEF ClearCount
<1>8. CASE MapWalk
  BY <1>1, <1>8, WalkFacts
<1> QED BY <1>2, <1>3, <1>4, <1>5, <1>6, <1>7, <1>8 DEF MapNext

(* Every step of a lookup leaves fewer nodes that it may still come to, also *)
(* the step that has just rotated the tree above them (property_map.h,     *)
(* findNode and findNodeWithKeyItem).                                      *)
THEOREM LookupsDescend == MapSpec => LookupDescends
<1>1. MapInv /\ Seen /\ Seen' /\ MapNext => Closer
  BY MapCloser
<1> QED BY <1>1, AheadSeen, MapInvariant, PTL DEF MapSpec, LookupDescends, Closer

-----------------------------------------------------------------------------
(***************************************************************************)
(* The key buffer: between two steps of a traversal it holds the key above *)
(* the node at hand.                                                       *)
(***************************************************************************)
(* b holds key p, with the zero behind it; it is left empty by a traversal *)
(* that breaks off.                                                        *)
Buffered(b, p) == b = Append(p, 0) \/ (p = <<>> /\ b = <<>>)

LEMMA PushSpells ==
  ASSUME NEW p \in Seq(Nat), NEW c \in Nat, NEW b, Buffered(b, p)
  PROVE  PushKeyItem(b, c) = Append(Append(p, c), 0)
<1>1. CASE p = <<>> /\ b = <<>>
  BY <1>1 DEF PushKeyItem
<1>2. CASE b = Append(p, 0)
  <2>1. /\ b # <<>> /\ Len(b) = Len(p) + 1 /\ b \in Seq(Nat)
        /\ \A j \in 1..Len(p) : b[j] = p[j]
    BY <1>2
  <2> DEFINE l == Len(b)
             e == [b EXCEPT ![l] = c]
  <2>2. /\ l \in 1..Len(b) /\ l = Len(p) + 1
    BY <2>1
  <2> HIDE DEF l
  <2>3. e \in Seq(Nat) /\ Len(e) = Len(b) /\ \A j \in 1..Len(b) : e[j] = IF j = l THEN c ELSE b[j]
    BY <2>1, <2>2
  <2>4. e = Append(p, c)
    <3> HIDE DEF e
    <3>1. Append(p, c) \in Seq(Nat) /\ Len(Append(p, c)) = Len(p) + 1
      OBVIOUS
    <3>2. \A j \in 1..(Len(p) + 1) : e[j] = Append(p, c)[j]
      BY <2>1, <2>2, <2>3
    <3> QED BY <2>1, <2>2, <2>3, <3>1, <3>2, SeqEqual
  <2>5. PushKeyItem(b, c) = Append([b EXCEPT ![Len(b)] = c], 0)
    BY <2>1 DEF PushKeyItem
  <2> QED BY <2>4, <2>5 DEF l
<1> QED BY <1>1, <1>2 DEF Buffered

LEMMA PopSpells ==
  ASSUME NEW p \in Seq(Nat), NEW c \in Nat
  PROVE  PopKeyItem(Append(Append(p, c), 0)) = Append(p, 0)
<1> DEFINE b == Append(Append(p, c), 0)
           s == SubSeq(b, 1, Len(b) - 1)
           k == Len(b) - 1
           e == [s EXCEPT ![k] = 0]
<1>1. b \in Seq(Nat) /\ Len(b) = Len(p) + 2 /\ \A j \in 1..Len(p) : b[j] = p[j]
  OBVIOUS
<1> HIDE DEF b
<1>2. /\ s \in Seq(Nat) /\ Len(s) = Len(p) + 1 /\ \A j \in 1..Len(s) : s[j] = b[j]
      /\ k = Len(p) + 1 /\ k \in 1..Len(s)
  BY <1>1
<1>4. PopKeyItem(b) = e
  BY <1>1 DEF PopKeyItem
<1> HIDE DEF s, k
<1>3. e \in Seq(Nat) /\ Len(e) = Len(s) /\ \A j \in 1..Len(s) : e[j] = IF j = k THEN 0 ELSE s[j]
  BY <1>2
<1> HIDE DEF e
<1>5. Append(p, 0) \in Seq(Nat) /\ Len(Append(p, 0)) = Len(p) + 1
  OBVIOUS
<1>6. \A j \in 1..(Len(p) + 1) : e[j] = Append(p, 0)[j]
  BY <1>1, <1>2, <1>3
<1>7. e = Append(p, 0)
  BY <1>2, <1>3, <1>5, <1>6, SeqEqual
<1> QED BY <1>4, <1>7 DEF b

(* Read back, the buffer is the key. *)
LEMMA BufferReads ==
  ASSUME NEW q \in Seq(Nat \ {0})
  PROVE  KeyIn(Append(q, 0)) = q
<1> DEFINE b == Append(q, 0)
           First(j) == b[j] = 0 /\ \A l \in 1..(j - 1) : b[l] # 0
           z == CHOOSE j \in 1..Len(b) : First(j)
<1>1. /\ b \in Seq(Nat) /\ Len(b) = Len(q) + 1 /\ b[Len(b)] = 0
      /\ \A j \in 1..Len(q) : b[j] = q[j] /\ b[j] # 0
  OBVIOUS
<1>2. KeyIn(b) = SubSeq(b, 1, z - 1)
  BY Zenon DEF KeyIn
<1> HIDE DEF b
<1>3. Len(b) \in 1..Len(b) /\ First(Len(b))
  BY <1>1
<1>4. \E j \in 1..Len(b) : First(j)
  BY <1>3
<1>5. z \in 1..Len(b) /\ First(z)
  <2> HIDE DEF First
  <2> QED BY <1>4
<1> HIDE DEF z
<1>6. z = Len(b)
  BY <1>1, <1>5
<1>7. SubSeq(b, 1, Len(q)) = q
  <2>1. SubSeq(b, 1, Len(q)) \in Seq(Nat) /\ Len(SubSeq(b, 1, Len(q))) = Len(q)
    BY <1>1
  <2>2. \A j \in 1..Len(q) : SubSeq(b, 1, Len(q))[j] = q[j]
    BY <1>1
  <2>3. q \in Seq(Nat)
    OBVIOUS
  <2> QED BY <2>1, <2>2, <2>3, SeqEqual
<1>8. z - 1 = Len(q)
  BY <1>1, <1>6
<1> QED BY <1>2, <1>7, <1>8 DEF b

(* The keys in the tree have no zero in them. *)
LEMMA MarksNonZero ==
  ASSUME NEW A, NEW s, NEW r, NEW it, NEW a, NEW may, Marked(A, s, r, it, a, may),
         Tree(A, s, r), Nil \notin A, \A n \in A : it[n] # 0, NEW m \in A
  PROVE  a[m] \in Seq(Nat \ {0}) /\ Key(it, a, m) \in Seq(Nat \ {0})
<1> DEFINE S == {n \in A : a[n] \in Seq(Nat \ {0})}
<1>1. Leads(A, s) /\ r \in A \cup {Nil}
  BY DEF Tree
<1>2. r \in S \cup {Nil}
  BY <1>1 DEF Marked
<1>0. \A n \in S : it[n] \in Nat \ {0} /\ Key(it, a, n) \in Seq(Nat \ {0})
  <2> SUFFICES ASSUME NEW n \in S
               PROVE  it[n] \in Nat \ {0} /\ Key(it, a, n) \in Seq(Nat \ {0})
    OBVIOUS
  <2>1. it[n] \in Nat \ {0} /\ a[n] \in Seq(Nat \ {0})
    BY MarkedIs
  <2> QED BY <2>1, AppendProperties DEF Key
<1>3. Leads(S, s)
  <2> SUFFICES ASSUME NEW n \in S, NEW k \in Places, s[n][k] # Nil  PROVE s[n][k] \in S
    BY DEF Leads
  <2>1. s[n][k] \in A /\ a[s[n][k]] = IF k = 1 THEN Key(it, a, n) ELSE a[n]
    BY <1>1, MarkedBelow
  <2> QED BY <1>0, <2>1
<1>4. S \in SUBSET A
  OBVIOUS
<1>5. m \in S
  <2> HIDE DEF S
  <2> QED BY <1>2, <1>3, <1>4 DEF Tree, Rooted
<1> QED BY <1>0, <1>5

(* The suspended nodes lead from the root to the node at hand. *)
Along(st, n, A, s, r) ==
  /\ (IF Len(st) > 0 THEN st[1].node ELSE n) = r
  /\ \A k \in 1..Len(st) :
        /\ st[k].node \in A /\ st[k].next \in Places
        /\ s[st[k].node][st[k].next] = IF k < Len(st) THEN st[k + 1].node ELSE n

LEMMA AlongDown ==
  ASSUME NEW T, NEW st \in Seq(T), NEW n, NEW A, NEW s, NEW r, Along(st, n, A, s, r),
         NEW k \in Places, n \in A, Item(n, k) \in T
  PROVE  Along(Append(st, Item(n, k)), s[n][k], A, s, r)
<1> DEFINE u == Append(st, Item(n, k))
           m == s[n][k]
<1>1. /\ u \in Seq(T) /\ Len(u) = Len(st) + 1 /\ u[Len(u)] = Item(n, k) /\ Len(st) \in Nat
      /\ \A j \in 1..Len(st) : u[j] = st[j]
  OBVIOUS
<1>2. Item(n, k).node = n /\ Item(n, k).next = k
  BY DEF Item
<1> HIDE DEF u
<1>3. u[1].node = r /\ Len(u) > 0
  <2>1. CASE Len(st) = 0
    BY <1>1, <1>2, <2>1 DEF Along
  <2>2. CASE Len(st) > 0
    BY <1>1, <2>2 DEF Along
  <2> QED BY <1>1, <2>1, <2>2
<1>4. ASSUME NEW j \in 1..Len(u)
      PROVE  /\ u[j].node \in A /\ u[j].next \in Places
             /\ s[u[j].node][u[j].next] = IF j < Len(u) THEN u[j + 1].node ELSE m
  <2>1. CASE j = Len(u)
    BY <1>1, <1>2, <2>1
  <2>2. CASE j # Len(u)
    <3>1. j \in 1..Len(st) /\ j < Len(u) /\ u[j] = st[j]
      BY <1>1, <2>2
    <3>2. u[j + 1].node = IF j < Len(st) THEN st[j + 1].node ELSE n
      <4>1. CASE j = Len(st)
        BY <1>1, <1>2, <4>1
      <4>2. CASE j # Len(st)
        <5>1. j < Len(st) /\ j + 1 \in 1..Len(st)
          BY <1>1, <3>1, <4>2
        <5> QED BY <1>1, <5>1
      <4> QED BY <4>1, <4>2
    <3> QED BY <3>1, <3>2 DEF Along
  <2> QED BY <2>1, <2>2
<1> HIDE DEF m
<1>5. Along(u, m, A, s, r)
  BY <1>3, <1>4 DEF Along
<1> QED BY <1>5 DEF u, m

LEMMA AlongUp ==
  ASSUME NEW T, NEW st \in Seq(T), st # <<>>, NEW n, NEW A, NEW s, NEW r, Along(st, n, A, s, r)
  PROVE  LET b == st[Len(st)]
         IN  /\ b.node \in A /\ b.next \in Places /\ s[b.node][b.next] = n
             /\ Along(SubSeq(st, 1, Len(st) - 1), b.node, A, s, r)
<1> DEFINE b == st[Len(st)]
           u == SubSeq(st, 1, Len(st) - 1)
<1>0. Len(st) \in Nat /\ Len(st) > 0
  OBVIOUS
<1>1. /\ Len(st) \in Nat /\ Len(st) > 0 /\ Len(u) = Len(st) - 1
      /\ \A j \in 1..Len(u) : u[j] = st[j]
  <2> DEFINE l == Len(st) - 1
  <2>1. l \in Nat /\ l = Len(st) - 1 /\ \A j \in 1..l : st[j] \in T
    BY <1>0
  <2> HIDE DEF l
  <2>2. /\ Len(SubSeq(st, 1, l)) = IF 1 <= l THEN l - 1 + 1 ELSE 0
        /\ \A j \in 1..(l - 1 + 1) : SubSeq(st, 1, l)[j] = st[1 + j - 1]
    BY <2>1, SubSeqProperties
  <2>3. Len(SubSeq(st, 1, l)) = l /\ \A j \in 1..l : SubSeq(st, 1, l)[j] = st[j]
    BY <2>1, <2>2
  <2>4. u = SubSeq(st, 1, l)
    BY DEF l
  <2> HIDE DEF u
  <2> QED BY <1>0, <2>1, <2>3, <2>4
<1>2. b.node \in A /\ b.next \in Places /\ s[b.node][b.next] = n
  BY <1>1 DEF Along
<1>3. Along(u, b.node, A, s, r)
  <2> HIDE DEF u
  <2>1. (IF Len(u) > 0 THEN u[1].node ELSE b.node) = r
    <3>1. CASE Len(u) = 0
      BY <1>1, <3>1 DEF Along
    <3>2. CASE Len(u) > 0
      BY <1>1, <3>2 DEF Along
    <3> QED BY <1>1, <3>1, <3>2
  <2>2. ASSUME NEW j \in 1..Len(u)
        PROVE  /\ u[j].node \in A /\ u[j].next \in Places
               /\ s[u[j].node][u[j].next] = IF j < Len(u) THEN u[j + 1].node ELSE b.node
    <3>1. /\ j \in 1..Len(st) /\ j < Len(st) /\ u[j] = st[j] /\ j + 1 \in 1..Len(st)
      BY <1>1
    <3>2. (IF j < Len(u) THEN u[j + 1].node ELSE b.node) = st[j + 1].node
      <4>1. CASE j = Len(u)
        BY <1>1, <4>1
      <4>2. CASE j # Len(u)
        BY <1>1, <3>1, <4>2
      <4> QED BY <4>1, <4>2
    <3> QED BY <3>1, <3>2 DEF Along
  <2> QED BY <2>1, <2>2 DEF Along
<1> QED BY <1>2, <1>3

(* The buffer holds the key above n, whatever the marks. *)
Spelled(n) ==
  \A a, may : Marked(alive, sub, root, item, a, may) => Buffered(keyBuf, a[n])

(* No exception has left anything behind: on the stack, or in the buffer.  *)
BufOK ==
  ~tainted =>
    /\ pc = "idle" => stack = <<>>
    /\ (pc = "idle" \/ purpose = "clear") => keyBuf \in {<<>>, <<0>>}
    /\ (pc # "idle" /\ purpose = "each") =>
         Along(stack, top.node, alive, sub, root) /\ Spelled(top.node)

(* A zero would end a key, and told is a sequence. *)
ItemOK == \A n \in alive : item[n] # 0
ToldOK == \E S : told \in Seq(S)

BufInv == KeyInv /\ BufOK /\ ItemOK /\ ToldOK

-----------------------------------------------------------------------------
(***************************************************************************)
(* The steps of a traversal, each with what its callbacks do to the buffer.*)
(***************************************************************************)
TellingAt == \E r \in Answers : VisitAt(r) /\ InvokeCallback(r) /\ keyBuf' = KeyBufAfter(r)
TellingLeaving ==
  \E r \in Answers : /\ VisitAndLeave(r, FALSE)
                     /\ InvokeCallback(r)
                     /\ keyBuf' = IF r = "zero" THEN AfterPopStack(KeyBufAfter(r))
                                                ELSE KeyBufAfter(r)
Silent == (PassOrder \/ SkipNull) /\ UNCHANGED tellVars
Down == PushStack /\ keyBuf' = OnPushStack(keyBuf) /\ UNCHANGED <<told, plain, tainted>>
Up == Leave(FALSE) /\ keyBuf' = AfterPopStack(keyBuf) /\ UNCHANGED <<told, plain, tainted>>

LEMMA TellSteps ==
  ASSUME MapWalk
  PROVE  TellingAt \/ Silent \/ Down \/ Up \/ TellingLeaving
BY DEF MapWalk, TellingAt, Silent, Down, Up, TellingLeaving

(* What holds behind a step of a ForEach, for the marks of the tree. *)
After(a) ==
  ~tainted' =>
     IF pc' = "idle" THEN stack' = <<>> /\ keyBuf' \in {<<>>, <<0>>}
     ELSE /\ Along(stack', top'.node, alive, sub, root)
          /\ Buffered(keyBuf', a[top'.node])

(* Between two steps of a ForEach without exceptions. *)
Amid(a, may) ==
  /\ MapInv /\ MapWalk /\ purpose = "each"
  /\ Marked(alive, sub, root, item, a, may)
  /\ Along(stack, top.node, alive, sub, root)
  /\ Buffered(keyBuf, a[top.node])

LEMMA AmidFacts ==
  ASSUME NEW a, NEW may, Amid(a, may)
  PROVE  /\ top.node \in alive /\ Nil \notin alive /\ pc \in {"at", "past"}
         /\ a[top.node] \in Seq(Nat) /\ item[top.node] \in Nat
         /\ keyBuf = Append(a[top.node], 0) \/ (a[top.node] = <<>> /\ keyBuf = <<>>)
         /\ Leads(alive, sub) /\ stack \in Seq(StackItem) /\ i \in Nat
         /\ Len(sub[top.node]) = 3 /\ alive \subseteq Node
<1>1. MapInv /\ MapWalk /\ Marked(alive, sub, root, item, a, may) /\ Buffered(keyBuf, a[top.node])
  BY DEF Amid
<1>2. /\ top.node \in alive /\ Nil \notin alive /\ pc \in {"at", "past"} /\ alive \subseteq Node
      /\ stack \in Seq(StackItem) /\ i \in Nat /\ Len(sub[top.node]) = 3
  BY <1>1, WalkFacts
<1>3. Leads(alive, sub)
  BY <1>1 DEF Amid, MapInv, TreeOK, Tree
<1> QED BY <1>1, <1>2, <1>3, MarkedIs DEF Buffered

LEMMA CallbackSpells ==
  ASSUME NEW a, NEW may, Amid(a, may), NEW r \in {"zero", "positive"}
  PROVE  Buffered(KeyBufAfter(r), a[top.node])
<1> DEFINE p == a[top.node]
           c == item[top.node]
<1>1. p \in Seq(Nat) /\ c \in Nat /\ Buffered(keyBuf, p)
  BY AmidFacts DEF Amid
<1>2. KeyBufAfter(r) = IF ~Told THEN keyBuf ELSE PopKeyItem(PushKeyItem(keyBuf, c))
  BY DEF KeyBufAfter
<1> HIDE DEF p, c
<1>3. PopKeyItem(PushKeyItem(keyBuf, c)) = Append(p, 0)
  BY <1>1, PushSpells, PopSpells
<1>4. Buffered(KeyBufAfter(r), p)
  BY <1>1, <1>2, <1>3 DEF Buffered
<1> QED BY <1>4 DEF p

(* Anything but 0 is an answer of the client. *)
LEMMA OnlyTold ==
  ASSUME NEW r \in Answers, r # "zero"
  PROVE  Told /\ (AtEnd => r # "positive") /\ r \in {"positive", "negative", "throw"}
<1>1. Told
  BY DEF Answers
<1>2. r \in Outcomes /\ (AtEnd => r # "positive")
  BY <1>1 DEF Answers
<1> QED BY <1>1, <1>2, TreeAssumption

(* The traversal breaks off. *)
LEMMA BreaksOff ==
  ASSUME NEW r \in Answers, r \in {"negative", "throw"}, InvokeCallback(r),
         r = "negative" => Finish, keyBuf' = KeyBufAfter(r)
  PROVE  ~tainted' => pc' = "idle" /\ stack' = <<>> /\ keyBuf' = <<>>
<1>1. CASE r = "negative"
  BY <1>1, OnlyTold DEF KeyBufAfter, Finish
<1>2. CASE r = "throw"
  BY <1>2 DEF InvokeCallback
<1> QED BY <1>1, <1>2

LEMMA SpellsAt ==
  ASSUME NEW a, NEW may, Amid(a, may), TellingAt
  PROVE  After(a)
<1>1. PICK r \in Answers : VisitAt(r) /\ InvokeCallback(r) /\ keyBuf' = KeyBufAfter(r)
  BY DEF TellingAt
<1>2. r \in {"zero", "positive", "negative", "throw"}
  BY OnlyTold
<1>3. CASE r \in {"zero", "positive"}
  <2>1. pc' # "idle" /\ UNCHANGED <<stack, top>>
    BY <1>1, <1>3, AmidFacts DEF VisitAt
  <2>2. Buffered(keyBuf', a[top'.node])
    BY <1>1, <1>3, <2>1, CallbackSpells
  <2> QED BY <2>1, <2>2 DEF After, Amid
<1>4. CASE r \in {"negative", "throw"}
  <2>1. r = "negative" => Finish
    BY <1>1 DEF VisitAt
  <2> QED BY <1>1, <1>4, <2>1, BreaksOff DEF After
<1> QED BY <1>2, <1>3, <1>4

LEMMA SpellsSilent ==
  ASSUME NEW a, NEW may, Amid(a, may), Silent
  PROVE  After(a)
<1>1. UNCHANGED <<stack, top, keyBuf>> /\ pc' # "idle"
  BY DEF Silent, PassOrder, SkipNull, tellVars
<1> QED BY <1>1 DEF After, Amid

LEMMA SpellsDown ==
  ASSUME NEW a, NEW may, Amid(a, may), Down
  PROVE  After(a)
<1> DEFINE n == top.node
           k == i + 1
           m == sub[n][k]
<1>1. /\ pc = "past" /\ sub[n][k] # Nil /\ pc' = "at"
      /\ stack' = Append(stack, Item(n, k)) /\ top' = Item(m, 0)
      /\ keyBuf' = IF i = 0 THEN PushKeyItem(keyBuf, item[n]) ELSE keyBuf
  BY DEF Down, PushStack, OnPushStack, Amid
<1>2. /\ k \in Places /\ n \in alive /\ stack \in Seq(StackItem) /\ Item(n, k) \in StackItem
      /\ a[n] \in Seq(Nat) /\ item[n] \in Nat /\ Leads(alive, sub)
  <2>1. i \in 0..2
    BY <1>1, WalkFacts DEF Amid
  <2>2. k \in Places
    BY <2>1 DEF Places
  <2>3. n \in Node
    BY AmidFacts
  <2>4. Item(n, k) \in StackItem
    <3> HIDE DEF n, k
    <3> QED BY <2>2, <2>3 DEF Item, StackItem, NodeOrNil, Places
  <2> QED BY <2>2, <2>4, AmidFacts
<1>3. top'.node = m
  BY <1>1 DEF Item
<1>4. /\ Marked(alive, sub, root, item, a, may) /\ Along(stack, n, alive, sub, root)
      /\ Buffered(keyBuf, a[n]) /\ (i = 0 <=> k = 1)
  BY AmidFacts DEF Amid
<1> HIDE DEF n, k
<1>5. Along(stack', m, alive, sub, root)
  BY <1>1, <1>2, <1>4, AlongDown
<1>6. a[m] = IF k = 1 THEN Key(item, a, n) ELSE a[n]
  BY <1>1, <1>2, <1>4, MarkedBelow
<1>7. Buffered(keyBuf', a[m])
  <2>1. CASE k = 1
    <3>1. keyBuf' = Append(Append(a[n], item[n]), 0)
      BY <1>1, <1>2, <1>4, <2>1, PushSpells
    <3> QED BY <1>6, <2>1, <3>1 DEF Buffered, Key
  <2>2. CASE k # 1
    BY <1>1, <1>4, <1>6, <2>2
  <2> QED BY <2>1, <2>2
<1> QED BY <1>1, <1>3, <1>5, <1>7 DEF After

LEMMA SpellsPopped ==
  ASSUME NEW a, NEW may, Amid(a, may), NEW b, Buffered(b, a[top.node]),
         PopStack(FALSE), keyBuf' = AfterPopStack(b)
  PROVE  After(a)
<1> DEFINE n == top.node
<1>1. /\ n \in alive /\ Nil \notin alive /\ stack \in Seq(StackItem) /\ Leads(alive, sub)
      /\ Marked(alive, sub, root, item, a, may) /\ Along(stack, n, alive, sub, root)
      /\ purpose = "each"
  BY AmidFacts DEF Amid
<1>2. CASE stack = <<>>
  <2>1. n = root /\ keyBuf' = b /\ Finish
    BY <1>1, <1>2 DEF Along, AfterPopStack, PopStack
  <2>2. a[n] = <<>>
    BY <1>1, <2>1 DEF Marked
  <2>3. b \in {<<>>, <<0>>}
    BY <2>2 DEF Buffered
  <2> QED BY <2>1, <2>3 DEF After, Finish
<1>3. CASE stack # <<>>
  <2> DEFINE l == stack[Len(stack)]
             rest == SubSeq(stack, 1, Len(stack) - 1)
  <2>1. /\ l.node \in alive /\ l.next \in Places /\ sub[l.node][l.next] = n
        /\ Along(rest, l.node, alive, sub, root)
    BY <1>1, <1>3, AlongUp
  <2>2. stack' = rest /\ top' = Item(l.node, l.next) /\ pc' = "at"
    BY <1>3 DEF PopStack
  <2>3. keyBuf' = IF l.next = 1 THEN PopKeyItem(b) ELSE b
    BY <1>1, <1>3 DEF AfterPopStack
  <2>4. Buffered(b, a[n])
    OBVIOUS
  <2> HIDE DEF l, rest, n
  <2>5. a[n] = IF l.next = 1 THEN Key(item, a, l.node) ELSE a[l.node]
    <3>1. sub[l.node][l.next] # Nil
      BY <1>1, <2>1
    <3> QED BY <1>1, <2>1, <3>1, MarkedBelow
  <2>6. top'.node = l.node
    BY <2>2 DEF Item
  <2>7. Buffered(keyBuf', a[l.node])
    <3>1. CASE l.next = 1
      <4>1. a[l.node] \in Seq(Nat) /\ item[l.node] \in Nat
        BY <1>1, <2>1, MarkedIs
      <4>2. a[n] = Append(a[l.node], item[l.node]) /\ a[n] # <<>>
        BY <2>5, <3>1, <4>1, AppendProperties DEF Key
      <4>3. b = Append(Append(a[l.node], item[l.node]), 0)
        BY <2>4, <4>2 DEF Buffered
      <4>4. keyBuf' = Append(a[l.node], 0)
        BY <2>3, <3>1, <4>1, <4>3, PopSpells
      <4> QED BY <4>4 DEF Buffered
    <3>2. CASE l.next # 1
      BY <2>3, <2>4, <2>5, <3>2
    <3> QED BY <3>1, <3>2
  <2> QED BY <2>1, <2>2, <2>6, <2>7 DEF After
<1> QED BY <1>2, <1>3

LEMMA SpellsEach ==
  ASSUME NEW a, NEW may, Amid(a, may)
  PROVE  After(a)
<1>1. CASE Up
  BY <1>1, SpellsPopped DEF Up, Leave, Amid
<1>2. CASE TellingLeaving
  <2>1. PICK r \in Answers :
          /\ VisitAndLeave(r, FALSE) /\ InvokeCallback(r)
          /\ keyBuf' = IF r = "zero" THEN AfterPopStack(KeyBufAfter(r)) ELSE KeyBufAfter(r)
    BY <1>2 DEF TellingLeaving
  <2>2. CASE r = "zero"
    <3>1. PopStack(FALSE)
      <4>1. PopStack(r = "positive" \/ FALSE)
        BY <2>1, <2>2 DEF VisitAndLeave
      <4> QED BY <2>2, <4>1 DEF PopStack
    <3>2. Buffered(KeyBufAfter(r), a[top.node])
      BY <2>2, CallbackSpells
    <3> QED BY <2>1, <2>2, <3>1, <3>2, SpellsPopped
  <2>3. CASE r # "zero"
    <3>1. r \in {"negative", "throw"}
      BY <2>1, <2>3, OnlyTold DEF VisitAndLeave
    <3>2. r = "negative" => Finish
      BY <2>1 DEF VisitAndLeave
    <3> QED BY <2>1, <2>3, <3>1, <3>2, BreaksOff DEF After
  <2> QED BY <2>2, <2>3
<1>3. MapWalk
  BY DEF Amid
<1> QED BY <1>1, <1>2, <1>3, TellSteps, SpellsAt, SpellsSilent, SpellsDown

-----------------------------------------------------------------------------
(***************************************************************************)
(* The buffer through every step of the map.                               *)
(***************************************************************************)
LEMMA BufInit == MapInit => BufInv
<1> SUFFICES ASSUME MapInit  PROVE BufInv
  OBVIOUS
<1>1. KeyInv
  BY KeyInit
<1>2. /\ pc = "idle" /\ stack = <<>> /\ keyBuf = <<>> /\ alive = {} /\ told = <<>>
  BY DEF MapInit, Init
<1>3. told \in Seq({})
  BY <1>2
<1> QED BY <1>1, <1>2, <1>3 DEF BufInv, BufOK, ItemOK, ToldOK

(* The marks of a traversal that does not destroy. *)
LEMMA EachMarks ==
  ASSUME KeyInv, MapWalk, purpose = "each"
  PROVE  /\ \E a, may : Marked(alive, sub, root, item, a, may)
         /\ \A a, may : Marked(alive, sub, root, item, a, may)'
                          => Marked(alive, sub, root, item, a, may)
<1>1. \E a, may : Marked(alive, sub, root, item, a, may)
  BY MarkTake DEF KeyInv
<1>2. UNCHANGED <<alive, sub, root>> /\ \A n \in alive' : item'[n] = item[n]
  BY EachStep, WalkFacts DEF KeyInv
<1>3. ASSUME NEW a, NEW may, Marked(alive', sub', root', item', a, may)
      PROVE  Marked(alive, sub, root, item, a, may)
  <2>1. /\ Marked(alive, sub, root, item', a, may)
        /\ \A n \in alive : item[n] = item'[n]
    BY <1>2, <1>3
  <2> DEFINE jt == item'
  <2>2. Marked(alive, sub, root, jt, a, may) /\ \A n \in alive : item[n] = jt[n]
    BY <2>1
  <2> HIDE DEF jt
  <2> QED BY <2>2, MarkedSame
<1> QED BY <1>1, <1>3

LEMMA EachBuffer ==
  ASSUME BufInv, MapWalk, purpose = "each"
  PROVE  BufOK'
<1>0. /\ KeyInv /\ MapInv /\ pc # "idle"
      /\ UNCHANGED <<alive, sub, root>> /\ purpose' = "each"
  BY EachStep DEF BufInv, KeyInv, MapWalk
<1>1. CASE ~tainted
  <2>1. Along(stack, top.node, alive, sub, root) /\ Spelled(top.node)
    BY <1>0, <1>1 DEF BufInv, BufOK
  <2>2. \A a, may : Marked(alive, sub, root, item, a, may) => After(a)
    <3> SUFFICES ASSUME NEW a, NEW may, Marked(alive, sub, root, item, a, may)
                 PROVE  After(a)
      OBVIOUS
    <3>1. Amid(a, may)
      BY <1>0, <2>1 DEF Amid, Spelled
    <3> QED BY <3>1, SpellsEach
  <2>3. PICK a, may : Marked(alive, sub, root, item, a, may)
    BY <1>0, EachMarks
  <2>4. After(a)
    BY <2>2, <2>3
  <2>5. (~tainted' /\ pc' # "idle") => Spelled(top.node)'
    <3> SUFFICES ASSUME ~tainted', pc' # "idle", NEW e, NEW may2,
                        Marked(alive', sub', root', item', e, may2)
                 PROVE  Buffered(keyBuf', e[top'.node])
      BY DEF Spelled
    <3>1. Marked(alive, sub, root, item, e, may2)
      BY <1>0, EachMarks
    <3> QED BY <2>2, <3>1 DEF After
  <2> QED BY <1>0, <2>4, <2>5 DEF After, BufOK
<1>2. CASE tainted
  <2> SUFFICES ASSUME ~tainted'
               PROVE  pc' = "idle" /\ stack' = <<>> /\ keyBuf' = <<>>
    BY <1>0 DEF BufOK
  <2>1. \A r : InvokeCallback(r) => r = "negative"
    BY <1>2 DEF InvokeCallback
  <2>2. CASE TellingAt
    <3>1. PICK r \in Answers : VisitAt(r) /\ InvokeCallback(r) /\ keyBuf' = KeyBufAfter(r)
      BY <2>2 DEF TellingAt
    <3>2. r = "negative" /\ Finish
      BY <2>1, <3>1 DEF VisitAt
    <3> QED BY <3>1, <3>2, BreaksOff
  <2>3. CASE TellingLeaving
    <3>1. PICK r \in Answers :
            /\ VisitAndLeave(r, FALSE) /\ InvokeCallback(r)
            /\ keyBuf' = IF r = "zero" THEN AfterPopStack(KeyBufAfter(r)) ELSE KeyBufAfter(r)
      BY <2>3 DEF TellingLeaving
    <3>2. r = "negative" /\ Finish
      BY <2>1, <3>1 DEF VisitAndLeave
    <3> QED BY <3>1, <3>2, BreaksOff
  <2>4. CASE Silent \/ Down \/ Up
    BY <1>2, <2>4 DEF Silent, Down, Up, tellVars
  <2> QED BY <2>2, <2>3, <2>4, TellSteps
<1> QED BY <1>1, <1>2

LEMMA ClearBuffer ==
  ASSUME BufInv, MapWalk, purpose = "clear"
  PROVE  BufOK'
<1>0. MapInv /\ pc # "idle" /\ (~tainted => keyBuf \in {<<>>, <<0>>})
  BY DEF BufInv, KeyInv, BufOK, MapWalk
<1>1. UNCHANGED <<keyBuf, tainted>>
  <2>1. ~Told /\ Answers = {"zero"}
    BY DEF Told, Answers
  <2>2. UNCHANGED keyBuf
    BY <2>1 DEF MapWalk, KeyBufAfter, OnPushStack, AfterPopStack, tellVars
  <2>3. UNCHANGED tainted
    BY <2>1 DEF MapWalk, InvokeCallback, tellVars
  <2> QED BY <2>2, <2>3
<1>2. /\ purpose' = "clear" \/ pc' = "idle"
      /\ pc' = "idle" => stack' = <<>>
  <2>1. CASE PassOrder \/ SkipNull \/ PushStack
    BY <2>1 DEF PassOrder, SkipNull, PushStack
  <2>2. CASE VisitAndLeave("zero", FALSE)
    <3>1. PopStack(FALSE)
      BY <1>0, <2>2, DestroyFacts
    <3> QED BY <3>1 DEF PopStack, Finish
  <2> QED BY <1>0, <2>1, <2>2, ClearSteps
<1> QED BY <1>0, <1>1, <1>2 DEF BufOK

(* A traversal starts. *)
LEMMA StartBuffer ==
  ASSUME BufInv, NEW o, NEW p \in {"each", "clear"}, StartMapWalk(o, p)
  PROVE  BufOK'
<1>1. /\ pc = "idle" /\ pc' = "at" /\ root # Nil /\ top' = Item(root, 0)
      /\ purpose' = p /\ UNCHANGED <<alive, sub, root, stack, keyBuf, tainted, item>>
  BY DEF StartMapWalk, StartWalk, nodeVars, dataVars
<1> SUFFICES ASSUME ~tainted
             PROVE  /\ p = "clear" => keyBuf \in {<<>>, <<0>>}
                    /\ p = "each" => /\ Along(stack, root, alive, sub, root)
                                     /\ \A a, may : Marked(alive, sub, root, item, a, may)
                                                      => Buffered(keyBuf, a[root])
  <2>1. top'.node = root
    BY <1>1 DEF Item
  <2>2. CASE p = "clear"
    BY <1>1, <2>2 DEF BufOK
  <2>3. CASE p = "each"
    BY <1>1, <2>1, <2>3 DEF BufOK, Spelled
  <2> QED BY <2>2, <2>3
<1>2. stack = <<>> /\ keyBuf \in {<<>>, <<0>>}
  BY <1>1 DEF BufInv, BufOK
<1>3. Along(stack, root, alive, sub, root)
  BY <1>2 DEF Along
<1>4. \A a, may : Marked(alive, sub, root, item, a, may) => Buffered(keyBuf, a[root])
  <2> SUFFICES ASSUME NEW a, NEW may, Marked(alive, sub, root, item, a, may)
               PROVE  Buffered(keyBuf, a[root])
    OBVIOUS
  <2>1. a[root] = <<>>
    BY <1>1 DEF Marked
  <2>2. Append(<<>>, 0) = <<0>>
    OBVIOUS
  <2> QED BY <1>2, <2>1, <2>2 DEF Buffered
<1> QED BY <1>2, <1>3, <1>4

(* Nothing happens to it between the traversals. *)
LEMMA IdleBuffer ==
  ASSUME BufInv, pc = "idle", UNCHANGED <<stack, pc, purpose, tainted, keyBuf>>
  PROVE  BufOK'
BY DEF BufInv, BufOK

(* Every node has a character that is not zero. *)
LEMMA ItemsStay ==
  ASSUME BufInv, alive' \subseteq alive, \A n \in alive' : item'[n] = item[n]
  PROVE  ItemOK'
BY DEF BufInv, ItemOK

LEMMA InsertItem ==
  ASSUME BufInv, NEW m \in Node, Insert(m)
  PROVE  ItemOK'
<1>1. /\ Searching /\ alive' = alive \cup {m} /\ item' = [item EXCEPT ![m] = Wanted]
      /\ item \in [Node -> Nat] /\ alive \subseteq Node
  BY DEF Insert, BufInv, KeyInv, MapInv, DataTypes, Shaped
<1>2. Wanted # 0
  <2> DEFINE key == call.key
             pos == call.pos
  <2>1. key \in Seq(Nat \ {0}) /\ pos \in 1..Len(key)
    BY <1>1, SearchFacts DEF BufInv, KeyInv, Insert
  <2> HIDE DEF key, pos
  <2>2. key[pos] # 0
    BY <2>1
  <2> QED BY <2>2 DEF Wanted, key, pos
<1> QED BY <1>1, <1>2 DEF BufInv, ItemOK

(* What is told is told one by one. *)
LEMMA ToldAppended ==
  ASSUME ToldOK, NEW e, told' = Append(told, e)
  PROVE  ToldOK' /\ Len(told') \in Nat /\ told'[Len(told')] = e
<1>1. PICK S : told \in Seq(S)
  BY DEF ToldOK
<1> DEFINE T == S \cup {e}
<1>2. told \in Seq(T) /\ e \in T
  BY <1>1, SeqEqual
<1> HIDE DEF T
<1>3. Append(told, e) \in Seq(T) /\ Append(told, e)[Len(Append(told, e))] = e
  BY <1>2
<1> QED BY <1>3 DEF ToldOK

LEMMA ToldWalks ==
  ASSUME BufInv, MapWalk
  PROVE  \/ told' = told
         \/ /\ Told
            /\ told' = Append(told, Entry(top.node, KeyIn(PushKeyItem(keyBuf, item[top.node]))))
BY TellSteps DEF TellingAt, TellingLeaving, Silent, Down, Up, InvokeCallback, tellVars, Entry

LEMMA ToldStep ==
  ASSUME BufInv, [MapNext]_mapVars
  PROVE  ToldOK' /\ (told' = told \/ told' = <<>> \/ MapWalk)
<1>1. MapWalk \/ told' = told \/ told' = <<>>
  BY DEF MapNext, Call, Lookup, Descend, Found, Missing, Insert, Assign, MapForEach, ClearNodes,
         ClearCount, StartMapWalk, BetweenCalls, tellVars, mapVars
<1>2. MapWalk => ToldOK'
  BY ToldWalks, ToldAppended DEF BufInv, ToldOK
<1>3. told' = <<>> => ToldOK'
  <2>1. <<>> \in Seq({})
    OBVIOUS
  <2> QED BY <2>1 DEF ToldOK
<1>4. told' = told => ToldOK'
  BY DEF BufInv, ToldOK
<1> QED BY <1>1, <1>2, <1>3, <1>4

LEMMA BufStep ==
  ASSUME BufInv, [MapNext]_mapVars
  PROVE  BufInv'
<1>0. KeyInv' /\ ToldOK' /\ KeyInv /\ MapInv
  BY KeyStep, ToldStep DEF BufInv, KeyInv
<1> SUFFICES BufOK' /\ ItemOK'
  BY <1>0 DEF BufInv
<1>1. CASE \E o \in {"get", "remove", "index"}, k \in Keys : Call(o, k)
  <2>1. /\ pc = "idle" /\ UNCHANGED <<stack, pc, purpose, tainted, keyBuf, alive, item>>
    BY <1>1 DEF Call, BetweenCalls, BetweenWalks, nodeVars
  <2> QED BY <2>1, IdleBuffer, ItemsStay
<1>2. CASE Descend \/ Found \/ Missing
  <2>1. /\ Searching /\ UNCHANGED <<stack, pc, purpose, tainted, keyBuf, alive, item>>
    BY <1>2 DEF Descend, Found, Missing, vars, nodeVars, walkVars, dataVars, tellVars
  <2>2. pc = "idle"
    BY <1>0, <2>1, SearchFacts
  <2> QED BY <2>1, <2>2, IdleBuffer, ItemsStay
<1>3. CASE \E n \in Node : Insert(n)
  <2>1. /\ Searching /\ UNCHANGED <<stack, pc, purpose, tainted, keyBuf>>
    BY <1>3 DEF Insert, walkVars, tellVars
  <2>2. pc = "idle"
    BY <1>0, <2>1, SearchFacts
  <2> QED BY <1>3, <2>1, <2>2, IdleBuffer, InsertItem
<1>4. CASE \E v \in Val \cup {Empty} : Assign(v)
  <2>1. /\ pc = "idle" /\ UNCHANGED <<stack, pc, purpose, tainted, keyBuf, alive, item>>
    BY <1>4 DEF Assign, BetweenCalls, BetweenWalks, nodeVars
  <2> QED BY <2>1, IdleBuffer, ItemsStay
<1>5. CASE \E o \in Orders : MapForEach(o)
  <2>1. PICK o : StartMapWalk(o, "each")
    BY <1>5 DEF MapForEach
  <2>2. UNCHANGED <<alive, item>>
    BY <2>1 DEF StartMapWalk, StartWalk, nodeVars, dataVars
  <2> QED BY <2>1, <2>2, StartBuffer, ItemsStay
<1>6. CASE ClearNodes
  <2>1. StartMapWalk(-1, "clear")
    BY <1>6 DEF ClearNodes
  <2>2. UNCHANGED <<alive, item>>
    BY <2>1 DEF StartMapWalk, StartWalk, nodeVars, dataVars
  <2> QED BY <2>1, <2>2, StartBuffer, ItemsStay
<1>7. CASE ClearCount
  <2>1. /\ pc = "idle" /\ UNCHANGED <<stack, pc, purpose, tainted, keyBuf, alive, item>>
    BY <1>7 DEF ClearCount, BetweenCalls, BetweenWalks, nodeVars
  <2> QED BY <2>1, IdleBuffer, ItemsStay
<1>8. CASE MapWalk
  <2>1. purpose \in {"each", "clear"} /\ \A n \in alive' : item'[n] = item[n]
    BY <1>0, <1>8, WalkFacts
  <2>2. alive' \subseteq alive
    BY <1>8, TellSteps DEF TellingAt, TellingLeaving, Silent, Down, Up, VisitAt, VisitAndLeave,
        OnTraversal, PassOrder, SkipNull, PushStack, Leave, nodeVars
  <2> QED BY <1>8, <2>1, <2>2, EachBuffer, ClearBuffer, ItemsStay
<1>9. CASE UNCHANGED mapVars
  <2>1. UNCHANGED <<stack, top, pc, purpose, tainted, keyBuf, alive, sub, root, item>>
    BY <1>9 DEF mapVars, vars, nodeVars, walkVars, dataVars, tellVars
  <2>2. BufOK'
    BY <2>1 DEF BufInv, BufOK, Spelled
  <2> QED BY <2>1, <2>2, ItemsStay
<1> QED BY <1>1, <1>2, <1>3, <1>4, <1>5, <1>6, <1>7, <1>8, <1>9 DEF MapNext, Lookup

(* As long as no exception has left characters in it, the key buffer spells *)
(* the key above the node a ForEach stands on, and is empty between the    *)
(* traversals (property_map.h, for_each_callback_invoker).                 *)
THEOREM BufferInvariant == MapSpec => []BufInv
<1>1. BufInv /\ [MapNext]_mapVars => BufInv'
  BY BufStep
<1> QED BY <1>1, BufInit, PTL DEF MapSpec

LEMMA TellsKey ==
  ASSUME BufInv, [MapNext]_mapVars, Len(told') > Len(told), ~tainted
  PROVE  told'[Len(told')] \in Named
<1>1. Len(told) \in Nat /\ told' # told /\ told' # <<>>
  BY DEF BufInv, ToldOK
<1>2. MapWalk
  BY <1>1, ToldStep
<1> DEFINE n == top.node
           e == Entry(n, KeyIn(PushKeyItem(keyBuf, item[n])))
<1>3. Told /\ told' = Append(told, e)
  BY <1>1, <1>2, ToldWalks
<1>4. told'[Len(told')] = e
  BY <1>3, ToldAppended DEF BufInv
<1>5. /\ purpose = "each" /\ pc # "idle" /\ n \in alive /\ MapInv /\ KeyInv
      /\ Nil \notin alive
  BY <1>2, <1>3, WalkFacts DEF Told, BufInv, KeyInv, MapWalk
<1>6. PICK a, may : Marked(alive, sub, root, item, a, may)
  BY <1>2, <1>5, EachMarks
<1>7. Buffered(keyBuf, a[n])
  BY <1>5, <1>6 DEF BufInv, BufOK, Spelled
<1>8. /\ a[n] \in Seq(Nat) /\ item[n] \in Nat
      /\ Tree(alive, sub, root) /\ IsFiniteSet(alive) /\ \A m \in alive : item[m] # 0
  BY <1>5, <1>6, MarkedIs DEF MapInv, TreeOK, Shaped, BufInv, ItemOK
<1>9. KeyIn(PushKeyItem(keyBuf, item[n])) = Key(item, a, n)
  <2>1. PushKeyItem(keyBuf, item[n]) = Append(Key(item, a, n), 0)
    BY <1>7, <1>8, PushSpells DEF Key
  <2>2. Key(item, a, n) \in Seq(Nat \ {0})
    BY <1>5, <1>6, <1>8, MarksNonZero
  <2> QED BY <2>1, <2>2, BufferReads
<1>10. Named = {Entry(m, Key(item, a, m)) : m \in alive}
  BY <1>5, <1>6, <1>8, NamedIs
<1> QED BY <1>4, <1>5, <1>9, <1>10

(* The key ForEach tells is the key of the value it tells, on every tree   *)
(* and in every order, as long as no exception has left characters in the  *)
(* buffer (property_map.h, for_each_callback_invoker, invokeCallback).     *)
THEOREM KeysAreNamed == MapSpec => KeyNamed
<1>1. BufInv /\ [MapNext]_mapVars =>
        [(Len(told') > Len(told) /\ ~tainted) => told'[Len(told')] \in Named]_mapVars
  BY TellsKey
<1> QED BY <1>1, BufferInvariant, PTL DEF MapSpec, KeyNamed

-----------------------------------------------------------------------------
(***************************************************************************)
(* What a ForEach is through with, what it is in and what is still to come.*)
(***************************************************************************)
Suspended(st) == {st[q].node : q \in 1..Len(st)}
Unique(st) == \A p, q \in 1..Len(st) : st[p].node = st[q].node => p = q

(* The nodes on the path, done and to do; at the end of the path, the slots*)
(* from k on are to do.                                                    *)
Parted(st, n, A, Do, To) ==
  /\ A = Suspended(st) \cup {n} \cup Do \cup To
  /\ n \notin Suspended(st)
  /\ Do \cap (Suspended(st) \cup {n}) = {} /\ To \cap (Suspended(st) \cup {n}) = {}
  /\ Do \cap To = {}
Coloured(st, n, k, A, s, r, Do, To) ==
  /\ Along(st, n, A, s, r) /\ Unique(st) /\ Parted(st, n, A, Do, To)
  /\ Leads(Do, s) /\ Leads(To, s)
  /\ \A j \in Places : s[n][j] \in (IF j < k THEN Do ELSE To) \cup {Nil}
  /\ \A q \in 1..Len(st) : \A j \in Places \ {st[q].next} :
        s[st[q].node][j] \in (IF j < st[q].next THEN Do ELSE To) \cup {Nil}

LEMMA SuspendedMore ==
  ASSUME NEW T, NEW st \in Seq(T), NEW e \in T
  PROVE  Suspended(Append(st, e)) = Suspended(st) \cup {e.node}
<1> DEFINE u == Append(st, e)
<1>1. /\ Len(u) = Len(st) + 1 /\ u[Len(u)] = e /\ Len(st) \in Nat
      /\ \A j \in 1..Len(st) : u[j] = st[j]
  OBVIOUS
<1> HIDE DEF u
<1>2. Suspended(u) = Suspended(st) \cup {e.node}
  <2>1. ASSUME NEW x \in Suspended(u)  PROVE x \in Suspended(st) \cup {e.node}
    <3>1. PICK q \in 1..Len(u) : x = u[q].node
      BY DEF Suspended
    <3>2. CASE q = Len(u)
      BY <1>1, <3>1, <3>2
    <3>3. CASE q # Len(u)
      <4>1. q \in 1..Len(st)
        BY <1>1, <3>3
      <4> QED BY <1>1, <3>1, <4>1 DEF Suspended
    <3> QED BY <3>2, <3>3
  <2>2. ASSUME NEW x \in Suspended(st)  PROVE x \in Suspended(u)
    <3>1. PICK q \in 1..Len(st) : x = st[q].node
      BY DEF Suspended
    <3>2. q \in 1..Len(u)
      BY <1>1
    <3> QED BY <1>1, <3>1, <3>2 DEF Suspended
  <2>3. e.node \in Suspended(u)
    <3>1. Len(u) \in 1..Len(u)
      BY <1>1
    <3> QED BY <1>1, <3>1 DEF Suspended
  <2> QED BY <2>1, <2>2, <2>3
<1> QED BY <1>2 DEF u

LEMMA SuspendedLess ==
  ASSUME NEW T, NEW st \in Seq(T), st # <<>>, Unique(st)
  PROVE  LET b == st[Len(st)]
             u == SubSeq(st, 1, Len(st) - 1)
         IN  /\ Suspended(st) = Suspended(u) \cup {b.node} /\ b.node \notin Suspended(u)
             /\ Unique(u) /\ Len(u) = Len(st) - 1 /\ u \in Seq(T)
             /\ \A q \in 1..Len(u) : u[q] = st[q] /\ q \in 1..Len(st)
<1> DEFINE b == st[Len(st)]
           u == SubSeq(st, 1, Len(st) - 1)
           l == Len(st) - 1
<1>1. l \in Nat /\ l = Len(st) - 1 /\ (\A j \in 1..l : st[j] \in T) /\ Len(st) \in 1..Len(st)
  OBVIOUS
<1>2. u = SubSeq(st, 1, l)
  OBVIOUS
<1> HIDE DEF l
<1>3. /\ u \in Seq(T) /\ Len(u) = l /\ \A j \in 1..l : u[j] = st[j]
  <2>1. /\ SubSeq(st, 1, l) \in Seq(T)
        /\ Len(SubSeq(st, 1, l)) = IF 1 <= l THEN l - 1 + 1 ELSE 0
        /\ \A j \in 1..(l - 1 + 1) : SubSeq(st, 1, l)[j] = st[1 + j - 1]
    BY <1>1, SubSeqProperties
  <2> HIDE DEF u
  <2> QED BY <1>1, <1>2, <2>1
<1> HIDE DEF u
<1>4. \A q \in 1..Len(u) : u[q] = st[q] /\ q \in 1..Len(st) /\ q # Len(st)
  BY <1>1, <1>3
<1>5. Unique(u)
  BY <1>4 DEF Unique
<1>6. b.node \notin Suspended(u)
  BY <1>1, <1>4 DEF Unique, Suspended
<1>7. Suspended(st) = Suspended(u) \cup {b.node}
  <2>1. ASSUME NEW x \in Suspended(st)  PROVE x \in Suspended(u) \cup {b.node}
    <3>1. PICK q \in 1..Len(st) : x = st[q].node
      BY DEF Suspended
    <3>2. CASE q = Len(st)
      BY <3>1, <3>2
    <3>3. CASE q # Len(st)
      <4>1. q \in 1..Len(u)
        BY <1>1, <1>3, <3>3
      <4> QED BY <1>4, <3>1, <4>1 DEF Suspended
    <3> QED BY <3>2, <3>3
  <2>2. Suspended(u) \cup {b.node} \subseteq Suspended(st)
    BY <1>1, <1>4 DEF Suspended
  <2> QED BY <2>1, <2>2
<1> QED BY <1>1, <1>3, <1>4, <1>5, <1>6, <1>7 DEF u, l

LEMMA ColourStart ==
  ASSUME NEW A, NEW s, NEW r, Tree(A, s, r), Nil \notin A, r # Nil
  PROVE  Coloured(<<>>, r, 1, A, s, r, {}, A \ {r})
<1>1. Along(<<>>, r, A, s, r) /\ Unique(<<>>) /\ Suspended(<<>>) = {}
  BY DEF Along, Unique, Suspended
<1>2. r \in A /\ Leads(A, s) /\ RootFree(A, s, r)
  BY DEF Tree
<1>3. Parted(<<>>, r, A, {}, A \ {r})
  BY <1>1, <1>2 DEF Parted
<1>4. \A n \in A : \A j \in Places : s[n][j] \in (A \ {r}) \cup {Nil}
  BY <1>2 DEF Leads, RootFree
<1>5. Leads({}, s) /\ Leads(A \ {r}, s)
  BY <1>4 DEF Leads
<1> QED BY <1>1, <1>2, <1>3, <1>4, <1>5 DEF Coloured, Places

LEMMA ColourNext ==
  ASSUME NEW st, NEW n, NEW k \in Places, NEW A, NEW s, NEW r, NEW Do, NEW To,
         Coloured(st, n, k, A, s, r, Do, To), s[n][k] = Nil
  PROVE  Coloured(st, n, k + 1, A, s, r, Do, To)
<1>1. \A j \in Places : s[n][j] \in (IF j < k + 1 THEN Do ELSE To) \cup {Nil}
  <2> SUFFICES ASSUME NEW j \in Places
               PROVE  s[n][j] \in (IF j < k + 1 THEN Do ELSE To) \cup {Nil}
    OBVIOUS
  <2>1. s[n][j] \in (IF j < k THEN Do ELSE To) \cup {Nil}
    BY DEF Coloured
  <2> QED BY <2>1 DEF Places
<1> QED BY <1>1 DEF Coloured

(* The sub-node at hand is one still to come, and enters the path. *)
LEMMA ColourDown ==
  ASSUME NEW T, NEW st \in Seq(T), NEW n, NEW k \in Places, NEW A, NEW s, NEW r, NEW Do, NEW To,
         Coloured(st, n, k, A, s, r, Do, To), s[n][k] # Nil, Item(n, k) \in T,
         OneParent(A, s), Nil \notin A
  PROVE  /\ s[n][k] \in To
         /\ Coloured(Append(st, Item(n, k)), s[n][k], 1, A, s, r, Do, To \ {s[n][k]})
<1> DEFINE m == s[n][k]
           u == Append(st, Item(n, k))
           To1 == To \ {m}
<1>1. /\ Along(st, n, A, s, r) /\ Unique(st) /\ Parted(st, n, A, Do, To)
      /\ Leads(Do, s) /\ Leads(To, s)
      /\ \A j \in Places : s[n][j] \in (IF j < k THEN Do ELSE To) \cup {Nil}
      /\ \A q \in 1..Len(st) : \A j \in Places \ {st[q].next} :
            s[st[q].node][j] \in (IF j < st[q].next THEN Do ELSE To) \cup {Nil}
  BY DEF Coloured
<1>2. m \in To
  <2>1. m \in (IF k < k THEN Do ELSE To) \cup {Nil}
    BY <1>1
  <2> QED BY <2>1 DEF Places
<1>3. n \in A /\ To \subseteq A /\ Do \subseteq A /\ Suspended(st) \subseteq A
  BY <1>1 DEF Parted
<1>4. \A x \in A : \A j \in Places : s[x][j] = m => x = n /\ j = k
  BY <1>2, <1>3 DEF OneParent
<1>5. Along(u, m, A, s, r)
  BY <1>1, <1>3, AlongDown
<1>6. /\ u \in Seq(T) /\ Len(u) = Len(st) + 1 /\ u[Len(u)] = Item(n, k) /\ Len(st) \in Nat
      /\ \A j \in 1..Len(st) : u[j] = st[j]
  OBVIOUS
<1>7. Item(n, k).node = n /\ Item(n, k).next = k
  BY DEF Item
<1>8. Suspended(u) = Suspended(st) \cup {n}
  BY <1>7, SuspendedMore
<1> HIDE DEF u
<1>9. Unique(u)
  <2> SUFFICES ASSUME NEW p \in 1..Len(u), NEW q \in 1..Len(u), u[p].node = u[q].node
               PROVE  p = q
    BY DEF Unique
  <2>1. \A x \in 1..Len(u) : x # Len(u) =>
            x \in 1..Len(st) /\ u[x].node = st[x].node /\ u[x].node \in Suspended(st)
    <3> SUFFICES ASSUME NEW x \in 1..Len(u), x # Len(u)
                 PROVE  x \in 1..Len(st) /\ u[x].node = st[x].node /\ u[x].node \in Suspended(st)
      OBVIOUS
    <3>1. x \in 1..Len(st)
      BY <1>6
    <3> QED BY <1>6, <3>1 DEF Suspended
  <2>2. u[Len(u)].node \notin Suspended(st)
    BY <1>1, <1>6, <1>7 DEF Parted
  <2> QED BY <1>1, <2>1, <2>2 DEF Unique
<1> HIDE DEF m
<1>10. Parted(u, m, A, Do, To1)
  BY <1>1, <1>2, <1>8 DEF Parted
<1>11. Leads(To1, s)
  BY <1>1, <1>3, <1>4 DEF Leads, Parted
<1>12. \A j \in Places : s[m][j] \in (IF j < 1 THEN Do ELSE To1) \cup {Nil}
  <2> SUFFICES ASSUME NEW j \in Places  PROVE s[m][j] \in To1 \cup {Nil}
    BY DEF Places
  <2>1. s[m][j] \in To \cup {Nil}
    BY <1>1, <1>2 DEF Leads
  <2>2. m # n
    BY <1>1, <1>2 DEF Parted
  <2> QED BY <1>2, <1>3, <1>4, <2>1, <2>2
<1>13. ASSUME NEW q \in 1..Len(u), NEW j \in Places \ {u[q].next}
       PROVE  s[u[q].node][j] \in (IF j < u[q].next THEN Do ELSE To1) \cup {Nil}
  <2>1. u[q].node \in A
    BY <1>3, <1>8 DEF Suspended
  <2>2. s[u[q].node][j] \in (IF j < u[q].next THEN Do ELSE To) \cup {Nil}
    <3>1. CASE q = Len(u)
      BY <1>1, <1>6, <1>7, <3>1
    <3>2. CASE q # Len(u)
      <4>1. q \in 1..Len(st) /\ u[q] = st[q]
        BY <1>6, <3>2
      <4> QED BY <1>1, <4>1
    <3> QED BY <3>1, <3>2
  <2>3. s[u[q].node][j] # m
    <3> SUFFICES ASSUME s[u[q].node][j] = m  PROVE FALSE
      OBVIOUS
    <3>1. u[q].node = n /\ j = k
      BY <1>4, <2>1
    <3>2. q = Len(u)
      <4>1. Len(u) \in 1..Len(u) /\ u[Len(u)].node = n
        BY <1>6, <1>7
      <4> QED BY <1>9, <3>1, <4>1 DEF Unique
    <3> QED BY <1>6, <1>7, <3>1, <3>2
  <2> QED BY <2>2, <2>3
<1>14. Coloured(u, m, 1, A, s, r, Do, To1)
  <2> HIDE DEF To1
  <2> QED BY <1>1, <1>5, <1>9, <1>10, <1>11, <1>12, <1>13 DEF Coloured
<1> QED BY <1>2, <1>14 DEF u, m

(* The node at hand is done, with all that is below it. *)
LEMMA ColourUp ==
  ASSUME NEW T, NEW st \in Seq(T), st # <<>>, NEW n, NEW A, NEW s, NEW r, NEW Do, NEW To,
         NEW k \in Nat, k > 3,
         Coloured(st, n, k, A, s, r, Do, To), OneParent(A, s), Nil \notin A
  PROVE  LET b == st[Len(st)]
         IN  /\ b.node \in A /\ b.next \in Places
             /\ Coloured(SubSeq(st, 1, Len(st) - 1), b.node, b.next + 1, A, s, r, Do \cup {n}, To)
<1> DEFINE b == st[Len(st)]
           u == SubSeq(st, 1, Len(st) - 1)
           Do1 == Do \cup {n}
<1>1. /\ Along(st, n, A, s, r) /\ Unique(st) /\ Parted(st, n, A, Do, To)
      /\ Leads(Do, s) /\ Leads(To, s)
      /\ \A j \in Places : s[n][j] \in (IF j < k THEN Do ELSE To) \cup {Nil}
      /\ \A q \in 1..Len(st) : \A j \in Places \ {st[q].next} :
            s[st[q].node][j] \in (IF j < st[q].next THEN Do ELSE To) \cup {Nil}
  BY DEF Coloured
<1>2. /\ b.node \in A /\ b.next \in Places /\ s[b.node][b.next] = n
      /\ Along(u, b.node, A, s, r)
  BY <1>1, AlongUp
<1>3. /\ Suspended(st) = Suspended(u) \cup {b.node} /\ b.node \notin Suspended(u)
      /\ Unique(u) /\ \A q \in 1..Len(u) : u[q] = st[q] /\ q \in 1..Len(st)
  BY <1>1, SuspendedLess
<1>4. Len(st) \in 1..Len(st)
  OBVIOUS
<1>5. \A j \in Places \ {b.next} : s[b.node][j] \in (IF j < b.next THEN Do ELSE To) \cup {Nil}
  BY <1>1, <1>4
<1> HIDE DEF b, u
<1>6. Parted(u, b.node, A, Do1, To)
  BY <1>1, <1>3 DEF Parted
<1>7. Leads(Do1, s)
  <2>1. \A j \in Places : s[n][j] \in Do \cup {Nil}
    BY <1>1 DEF Places
  <2> QED BY <1>1, <2>1 DEF Leads
<1>8. \A j \in Places : s[b.node][j] \in (IF j < b.next + 1 THEN Do1 ELSE To) \cup {Nil}
  <2> SUFFICES ASSUME NEW j \in Places
               PROVE  s[b.node][j] \in (IF j < b.next + 1 THEN Do1 ELSE To) \cup {Nil}
    OBVIOUS
  <2>0. b.next \in Int /\ j \in Int
    BY <1>2 DEF Places
  <2>1. CASE j = b.next
    BY <1>2, <2>0, <2>1
  <2>2. CASE j # b.next
    <3>1. s[b.node][j] \in (IF j < b.next THEN Do ELSE To) \cup {Nil}
      BY <1>5, <2>2
    <3>2. j < b.next + 1 <=> j < b.next
      BY <2>0, <2>2
    <3> QED BY <3>1, <3>2
  <2> QED BY <2>1, <2>2
<1>9. ASSUME NEW q \in 1..Len(u), NEW j \in Places \ {u[q].next}
      PROVE  s[u[q].node][j] \in (IF j < u[q].next THEN Do1 ELSE To) \cup {Nil}
  <2>1. u[q] = st[q] /\ q \in 1..Len(st)
    BY <1>3
  <2>2. s[u[q].node][j] \in (IF j < u[q].next THEN Do ELSE To) \cup {Nil}
    BY <1>1, <2>1
  <2> QED BY <2>2
<1>10. Coloured(u, b.node, b.next + 1, A, s, r, Do1, To)
  <2> HIDE DEF Do1
  <2> QED BY <1>1, <1>2, <1>3, <1>6, <1>7, <1>8, <1>9 DEF Coloured
<1> QED BY <1>2, <1>10 DEF b, u

(* When the root is left, everything is done. *)
LEMMA ColourEnd ==
  ASSUME NEW n, NEW A, NEW s, NEW r, NEW Do, NEW To, NEW k \in Nat, k > 3,
         Coloured(<<>>, n, k, A, s, r, Do, To), Tree(A, s, r)
  PROVE  A = Do \cup {n}
<1> DEFINE S == Do \cup {n}
<1>1. /\ Parted(<<>>, n, A, Do, To) /\ Leads(Do, s) /\ Along(<<>>, n, A, s, r)
      /\ \A j \in Places : s[n][j] \in (IF j < k THEN Do ELSE To) \cup {Nil}
  BY DEF Coloured
<1>2. n = r /\ S \in SUBSET A
  BY <1>1 DEF Along, Parted
<1>3. Leads(S, s)
  <2>1. \A j \in Places : s[n][j] \in Do \cup {Nil}
    BY <1>1 DEF Places
  <2> QED BY <1>1, <2>1 DEF Leads
<1>4. n \in S
  OBVIOUS
<1> HIDE DEF S
<1>5. S = A
  BY <1>2, <1>3, <1>4 DEF Tree, Rooted
<1> QED BY <1>5 DEF S

(* The nodes visited: all that are done, and those of the path that the    *)
(* order has come by; n is at the slots up to lim.                         *)
MetSo(Met, st, n, ord, Do, To) ==
  /\ Do \subseteq Met /\ Met \cap To = {} /\ Met \subseteq Do \cup Suspended(st) \cup {n}
  /\ \A q \in 1..Len(st) : st[q].node \in Met <=> ord \in 0..(st[q].next - 1)
Reached(Met, st, n, lim, ord, Do, To) ==
  MetSo(Met, st, n, ord, Do, To) /\ (n \in Met <=> ord \in 0..lim)

(* Told are the values of those visited, each once. *)
Valued(vl, Met) == {x \in Met : vl[x] # Empty}
Tellings(td) == {td[t].node : t \in 1..Len(td)}
ToldSo(td, vl, Met) ==
  Tellings(td) = Valued(vl, Met) /\ Len(td) = Cardinality(Valued(vl, Met))

Ongoing(st, n, k, lim, td) ==
  \E Do, To, Met : /\ Coloured(st, n, k, alive, sub, root, Do, To)
                    /\ Reached(Met, st, n, lim, order, Do, To)
                    /\ ToldSo(td, val, Met)

(* The last slot at which the node at hand was asked for. *)
Lim == IF pc = "past" THEN i ELSE i - 1

TellOK ==
  (pc # "idle" /\ purpose = "each" /\ stale = 0 /\ plain) =>
     i \in 0..3 /\ Ongoing(stack, top.node, i + 1, Lim, told)

TellInv == BufInv /\ TellOK

-----------------------------------------------------------------------------
LEMMA ReachedIn ==
  ASSUME NEW st, NEW n, NEW k, NEW A, NEW s, NEW r, NEW Do, NEW To,
         Coloured(st, n, k, A, s, r, Do, To), NEW Met, NEW lim, NEW ord,
         Reached(Met, st, n, lim, ord, Do, To)
  PROVE  Met \subseteq A /\ n \in A /\ n \notin Suspended(st) /\ n \notin To
BY DEF Coloured, Parted, Reached, MetSo

(* The node at hand is visited. *)
LEMMA ReachedMore ==
  ASSUME NEW st, NEW n, NEW Do, NEW To, NEW Met, NEW lim, NEW ord,
         Reached(Met, st, n, lim, ord, Do, To), n \notin Suspended(st), n \notin To,
         NEW lim2, ord \in 0..lim2
  PROVE  Reached(Met \cup {n}, st, n, lim2, ord, Do, To)
<1>1. \A q \in 1..Len(st) : st[q].node # n
  BY DEF Suspended
<1> QED BY <1>1 DEF Reached, MetSo

LEMMA ToldMore ==
  ASSUME BufInv, MapWalk, purpose = "each", NEW Met, Met \subseteq alive,
         ToldSo(told, val, Met), top.node \notin Met, NEW r, InvokeCallback(r)
  PROVE  ToldSo(told', val, Met \cup {top.node})
<1> DEFINE n == top.node
           V == Valued(val, Met)
           W == Valued(val, Met \cup {n})
<1>1. IsFiniteSet(V) /\ n \notin V
  <2>1. IsFiniteSet(alive) /\ V \subseteq alive
    BY DEF BufInv, KeyInv, MapInv, Shaped, Valued
  <2> QED BY <2>1, FS_Subset DEF Valued
<1>2. CASE Valid(n)
  <2>1. W = V \cup {n}
    BY <1>2 DEF Valued, Valid
  <2>2. told' = Append(told, Entry(n, KeyIn(PushKeyItem(keyBuf, item[n]))))
    BY <1>2 DEF InvokeCallback, Told, Entry
  <2> DEFINE e == Entry(n, KeyIn(PushKeyItem(keyBuf, item[n])))
  <2>3. e.node = n
    BY DEF Entry
  <2> HIDE DEF e
  <2>4. PICK S : told \in Seq(S)
    BY DEF BufInv, ToldOK
  <2>5. told \in Seq(S \cup {e})
    BY <2>4, SeqEqual
  <2> DEFINE T == S \cup {e}
  <2>6. told \in Seq(T) /\ e \in T
    BY <2>5
  <2> HIDE DEF T
  <2>7. Suspended(Append(told, e)) = Suspended(told) \cup {e.node}
    BY <2>6, SuspendedMore
  <2>8. Len(Append(told, e)) = Len(told) + 1
    BY <2>6
  <2>9. Tellings(Append(told, e)) = V \cup {n}
    BY <2>3, <2>7 DEF Suspended, Tellings, ToldSo
  <2>10. Cardinality(V \cup {n}) = Cardinality(V) + 1
    BY <1>1, FS_AddElement
  <2>11. Len(Append(told, e)) = Cardinality(V) + 1
    BY <2>8 DEF ToldSo
  <2>12. told' = Append(told, e)
    BY <2>2 DEF e
  <2> QED BY <2>1, <2>9, <2>10, <2>11, <2>12 DEF ToldSo
<1>3. CASE ~Valid(n)
  <2>1. W = V /\ told' = told
    BY <1>3 DEF Valued, Valid, InvokeCallback, Told
  <2> QED BY <2>1 DEF ToldSo
<1> QED BY <1>2, <1>3

(* Only 0 is answered. *)
LEMMA PlainZero ==
  ASSUME NEW r \in Answers, InvokeCallback(r), plain'
  PROVE  r = "zero"
BY OnlyTold DEF InvokeCallback

(* What holds behind a step of a ForEach that is answered 0 all the time.  *)
Onwards ==
  IF pc' = "idle" THEN ToldSo(told', val, alive)
  ELSE /\ i' \in 0..3 /\ order' = order
       /\ Ongoing(stack', top'.node, i' + 1, Lim', told')

(* Between two steps of such a ForEach. *)
Telling(Do, To, Met) ==
  /\ BufInv /\ MapWalk /\ purpose = "each" /\ plain' /\ i \in 0..3
  /\ Coloured(stack, top.node, i + 1, alive, sub, root, Do, To)
  /\ Reached(Met, stack, top.node, Lim, order, Do, To)
  /\ ToldSo(told, val, Met)

LEMMA TellFacts ==
  ASSUME NEW Do, NEW To, NEW Met, Telling(Do, To, Met)
  PROVE  /\ MapInv /\ top.node \in alive /\ Nil \notin alive /\ pc \in {"at", "past"}
         /\ Tree(alive, sub, root) /\ OneParent(alive, sub) /\ order \in Int
         /\ stack \in Seq(StackItem) /\ i \in Int /\ alive \subseteq Node
         /\ Len(sub[top.node]) = 3 /\ (pc = "past" => i \in 0..2)
         /\ Met \subseteq alive /\ top.node \notin Suspended(stack) /\ top.node \notin To
<1>1. BufInv /\ MapWalk /\ purpose = "each" /\ MapInv /\ i \in 0..3
  BY DEF Telling, BufInv, KeyInv
<1>2. /\ top.node \in alive /\ Nil \notin alive /\ pc \in {"at", "past"} /\ alive \subseteq Node
      /\ stack \in Seq(StackItem) /\ Len(sub[top.node]) = 3 /\ order \in Int
      /\ (pc = "past" => i \in 0..2)
  BY <1>1, WalkFacts
<1>3. Tree(alive, sub, root) /\ OneParent(alive, sub)
  BY <1>1 DEF MapInv, TreeOK, Tree
<1>4. Met \subseteq alive /\ top.node \notin Suspended(stack) /\ top.node \notin To
  BY ReachedIn DEF Telling
<1> QED BY <1>1, <1>2, <1>3, <1>4

LEMMA TellsAt ==
  ASSUME NEW Do, NEW To, NEW Met, Telling(Do, To, Met), TellingAt
  PROVE  Onwards
<1> DEFINE n == top.node
<1>1. PICK r \in Answers : VisitAt(r) /\ InvokeCallback(r)
  BY DEF TellingAt
<1>2. r = "zero"
  BY <1>1, PlainZero DEF Telling
<1>3. /\ pc = "at" /\ pc' = "past" /\ i = order /\ UNCHANGED <<stack, top, i, order>>
  BY <1>1, <1>2 DEF VisitAt
<1>4. n \notin Met
  BY <1>3, TellFacts DEF Telling, Reached, MetSo, Lim
<1>5. ToldSo(told', val, Met \cup {n})
  BY <1>1, <1>4, TellFacts, ToldMore DEF Telling
<1>6. Reached(Met \cup {n}, stack, n, i, order, Do, To)
  <2>1. order \in 0..i
    BY <1>3, TellFacts DEF Telling
  <2> QED BY <2>1, TellFacts, ReachedMore DEF Telling
<1>7. Ongoing(stack, n, i + 1, i, told')
  BY <1>5, <1>6 DEF Ongoing, Telling
<1>8. Lim' = i
  BY <1>3 DEF Lim
<1> QED BY <1>3, <1>7, <1>8 DEF Onwards, Telling

LEMMA TellsSilent ==
  ASSUME NEW Do, NEW To, NEW Met, Telling(Do, To, Met), Silent
  PROVE  Onwards
<1> DEFINE n == top.node
<1>1. told' = told
  BY DEF Silent, tellVars
<1>2. CASE PassOrder
  <2>1. /\ pc = "at" /\ pc' = "past" /\ i # order /\ UNCHANGED <<stack, top, i, order>>
    BY <1>2 DEF PassOrder
  <2>2. order \in 0..i <=> order \in 0..Lim
    BY <2>1, TellFacts DEF Lim
  <2>3. Reached(Met, stack, n, i, order, Do, To)
    BY <2>2 DEF Telling, Reached, MetSo
  <2>4. Ongoing(stack, n, i + 1, i, told)
    BY <2>3 DEF Ongoing, Telling
  <2>5. Lim' = i
    BY <2>1 DEF Lim
  <2> QED BY <1>1, <2>1, <2>4, <2>5 DEF Onwards, Telling
<1>3. CASE SkipNull
  <2>1. /\ pc = "past" /\ pc' = "at" /\ sub[n][i + 1] = Nil /\ i' = i + 1
        /\ UNCHANGED <<stack, top, order>>
    BY <1>3 DEF SkipNull
  <2>2. i \in 0..2 /\ i + 1 \in Places
    BY <2>1, TellFacts DEF Places
  <2> DEFINE k == i + 1
  <2>3. Coloured(stack, n, k, alive, sub, root, Do, To) /\ k \in Places /\ sub[n][k] = Nil
    BY <2>1, <2>2 DEF Telling
  <2> HIDE DEF k
  <2>4. Coloured(stack, n, k + 1, alive, sub, root, Do, To)
    BY <2>3, ColourNext
  <2>5. Lim' = Lim /\ i' = k
    BY <2>1, <2>2 DEF Lim, k
  <2>6. Ongoing(stack, n, k + 1, Lim, told)
    BY <2>4 DEF Ongoing, Telling
  <2> QED BY <1>1, <2>1, <2>2, <2>5, <2>6 DEF Onwards
<1> QED BY <1>2, <1>3 DEF Silent

LEMMA TellsDown ==
  ASSUME NEW Do, NEW To, NEW Met, Telling(Do, To, Met), Down
  PROVE  Onwards
<1> DEFINE n == top.node
           k == i + 1
           m == sub[n][k]
           st == Append(stack, Item(n, k))
<1>1. /\ pc = "past" /\ pc' = "at" /\ sub[n][k] # Nil /\ stack' = st /\ top' = Item(m, 0)
      /\ i' = 0 /\ UNCHANGED <<order, told>>
  BY DEF Down, PushStack
<1>2. /\ i \in 0..2 /\ k \in Places /\ k - 1 = i /\ n \in Node /\ stack \in Seq(StackItem)
      /\ n \in alive /\ Nil \notin alive /\ OneParent(alive, sub) /\ order \in Int
  BY <1>1, TellFacts DEF Places
<1>3. Coloured(stack, n, k, alive, sub, root, Do, To) /\ Reached(Met, stack, n, i, order, Do, To)
  BY <1>1 DEF Telling, Lim
<1> HIDE DEF n, k
<1>4. Item(n, k) \in StackItem /\ Item(n, k).node = n /\ Item(n, k).next = k
  BY <1>2 DEF Item, StackItem, NodeOrNil, Places
<1>5. m \in To /\ Coloured(st, m, 1, alive, sub, root, Do, To \ {m})
  BY <1>1, <1>2, <1>3, <1>4, ColourDown
<1>6. /\ Len(st) = Len(stack) + 1 /\ st[Len(st)] = Item(n, k) /\ Len(stack) \in Nat
      /\ \A j \in 1..Len(stack) : st[j] = stack[j]
  BY <1>2, <1>4
<1>7. Suspended(st) = Suspended(stack) \cup {n}
  BY <1>2, <1>4, SuspendedMore
<1> HIDE DEF st, m
<1>8. Reached(Met, st, m, -1, order, Do, To \ {m})
  <2>1. /\ Do \subseteq Met /\ Met \cap To = {}
        /\ Met \subseteq Do \cup Suspended(stack) \cup {n}
        /\ n \in Met <=> order \in 0..i
        /\ \A q \in 1..Len(stack) : stack[q].node \in Met <=> order \in 0..(stack[q].next - 1)
    BY <1>3 DEF Reached, MetSo
  <2>2. m \notin Met /\ ~(order \in 0..(-1))
    BY <1>2, <1>5, <2>1
  <2>3. ASSUME NEW q \in 1..Len(st)
        PROVE  st[q].node \in Met <=> order \in 0..(st[q].next - 1)
    <3>1. CASE q = Len(st)
      BY <1>2, <1>4, <1>6, <2>1, <3>1
    <3>2. CASE q # Len(st)
      <4>1. q \in 1..Len(stack) /\ st[q] = stack[q]
        BY <1>6, <3>2
      <4> QED BY <2>1, <4>1
    <3> QED BY <3>1, <3>2
  <2> QED BY <1>7, <2>1, <2>2, <2>3 DEF Reached, MetSo
<1>9. Ongoing(st, m, 1, -1, told)
  BY <1>5, <1>8 DEF Ongoing, Telling
<1>10. Lim' = -1 /\ i' + 1 = 1 /\ top'.node = m /\ i' \in 0..3
  BY <1>1 DEF Lim, Item
<1> QED BY <1>1, <1>9, <1>10 DEF Onwards

(* The node at hand has been visited, and is left. *)
LEMMA TellsPopped ==
  ASSUME NEW Do, NEW To, NEW Met, Telling(Do, To, Met), NEW Met2,
         top.node \in Met2, MetSo(Met2, stack, top.node, order, Do, To),
         ToldSo(told', val, Met2), AtEnd, PopStack(FALSE)
  PROVE  Onwards
<1> DEFINE n == top.node
           k == i + 1
<1>0. k \in Nat /\ k > 3
  <2>1. i \in 0..3 /\ i >= 3
    BY TellFacts DEF AtEnd, SubNodeCount, Telling
  <2> QED BY <2>1
<1>1. /\ k \in Nat /\ k > 3 /\ Coloured(stack, n, k, alive, sub, root, Do, To)
      /\ stack \in Seq(StackItem) /\ OneParent(alive, sub) /\ Nil \notin alive
      /\ Tree(alive, sub, root) /\ n \in alive
  BY <1>0, TellFacts DEF Telling
<1>2. n \in Met2 /\ MetSo(Met2, stack, n, order, Do, To)
  OBVIOUS
<1> HIDE DEF n, k
<1>3. CASE stack = <<>>
  <2>1. pc' = "idle"
    BY <1>3 DEF PopStack, Finish
  <2>2. alive = Do \cup {n}
    BY <1>1, <1>3, ColourEnd
  <2>3. Met2 \subseteq alive
    BY <1>1, <1>2, <1>3 DEF MetSo, Coloured, Parted
  <2>4. Met2 = alive
    BY <1>2, <2>2, <2>3 DEF Reached, MetSo
  <2> QED BY <2>1, <2>4 DEF Onwards
<1>4. CASE stack # <<>>
  <2> DEFINE b == stack[Len(stack)]
             u == SubSeq(stack, 1, Len(stack) - 1)
  <2>1. /\ b.node \in alive /\ b.next \in Places
        /\ Coloured(u, b.node, b.next + 1, alive, sub, root, Do \cup {n}, To)
    BY <1>1, <1>4, ColourUp
  <2>2. /\ stack' = u /\ top' = Item(b.node, b.next) /\ i' = b.next /\ pc' = "at"
        /\ order' = order
    BY <1>4 DEF PopStack
  <2>3. Unique(stack)
    BY <1>1 DEF Coloured
  <2>4. /\ Suspended(stack) = Suspended(u) \cup {b.node}
        /\ \A q \in 1..Len(u) : u[q] = stack[q] /\ q \in 1..Len(stack)
    BY <1>1, <1>4, <2>3, SuspendedLess
  <2>5. Len(stack) \in 1..Len(stack)
    BY <1>1, <1>4
  <2>6. /\ \A q \in 1..Len(stack) : stack[q].node \in Met2 <=> order \in 0..(stack[q].next - 1)
        /\ Do \subseteq Met2 /\ Met2 \cap To = {}
        /\ Met2 \subseteq Do \cup Suspended(stack) \cup {n}
    BY <1>2 DEF Reached, MetSo
  <2>7. b.node \in Met2 <=> order \in 0..(b.next - 1)
    BY <2>5, <2>6
  <2> HIDE DEF b, u
  <2>8. Reached(Met2, u, b.node, b.next - 1, order, Do \cup {n}, To)
    BY <1>2, <2>4, <2>6, <2>7 DEF Reached, MetSo
  <2>9. Ongoing(u, b.node, b.next + 1, b.next - 1, told')
    BY <2>1, <2>8 DEF Ongoing
  <2>10. Lim' = b.next - 1 /\ i' + 1 = b.next + 1 /\ top'.node = b.node /\ i' \in 0..3
    BY <2>1, <2>2 DEF Lim, Item, Places
  <2> QED BY <2>2, <2>9, <2>10 DEF Onwards
<1> QED BY <1>3, <1>4

LEMMA TellsUp ==
  ASSUME NEW Do, NEW To, NEW Met, Telling(Do, To, Met), Up
  PROVE  Onwards
<1>1. AtEnd /\ ~PostOrder /\ PopStack(FALSE) /\ told' = told
  BY DEF Up, Leave
<1>2. top.node \in Met
  <2>1. order \in 0..Lim
    BY <1>1, TellFacts DEF AtEnd, PostOrder, Lim, SubNodeCount
  <2> QED BY <2>1 DEF Telling, Reached, MetSo
<1>3. MetSo(Met, stack, top.node, order, Do, To) /\ ToldSo(told', val, Met)
  BY <1>1 DEF Telling, Reached
<1> QED BY <1>1, <1>2, <1>3, TellsPopped

LEMMA TellsLeaving ==
  ASSUME NEW Do, NEW To, NEW Met, Telling(Do, To, Met), TellingLeaving
  PROVE  Onwards
<1> DEFINE n == top.node
<1>1. PICK r \in Answers : VisitAndLeave(r, FALSE) /\ InvokeCallback(r)
  BY DEF TellingLeaving
<1>2. r = "zero"
  BY <1>1, PlainZero DEF Telling
<1>3. AtEnd /\ PostOrder /\ PopStack(FALSE)
  <2>1. AtEnd /\ PostOrder /\ PopStack(r = "positive" \/ FALSE)
    BY <1>1, <1>2 DEF VisitAndLeave
  <2> QED BY <1>2, <2>1 DEF PopStack
<1>4. ~(order \in 0..Lim)
  <2>1. pc = "at" /\ i \in 0..3 /\ (order < 0 \/ order >= 3) /\ order \in Int
    BY <1>3, TellFacts DEF AtEnd, PostOrder, SubNodeCount, Telling
  <2>2. Lim = i - 1
    BY <2>1 DEF Lim
  <2> QED BY <2>1, <2>2
<1>5. n \notin Met
  BY <1>4 DEF Telling, Reached, MetSo
<1>6. ToldSo(told', val, Met \cup {n})
  BY <1>1, <1>5, TellFacts, ToldMore DEF Telling
<1>7. MetSo(Met \cup {n}, stack, n, order, Do, To)
  <2>1. n \notin To /\ \A q \in 1..Len(stack) : stack[q].node # n
    BY TellFacts DEF Suspended
  <2> QED BY <2>1 DEF Telling, Reached, MetSo
<1>8. n \in Met \cup {n}
  OBVIOUS
<1> QED BY <1>3, <1>6, <1>7, <1>8, TellsPopped

-----------------------------------------------------------------------------
(***************************************************************************)
(* What is told, through every step of the map.                            *)
(***************************************************************************)
LEMMA PlainFacts ==
  ASSUME MapWalk
  PROVE  /\ plain' => plain
         /\ pc' # "idle" => UNCHANGED <<stale, purpose>>
<1>1. plain' => plain
  BY TellSteps DEF TellingAt, TellingLeaving, Silent, Down, Up, InvokeCallback, tellVars
<1>2. CASE TellingAt
  BY <1>1, <1>2 DEF TellingAt, VisitAt, Finish, Unwind
<1>3. CASE Silent \/ Down
  BY <1>1, <1>3 DEF Silent, Down, PassOrder, SkipNull, PushStack
<1>4. CASE Up
  BY <1>1, <1>4 DEF Up, Leave, PopStack, Finish
<1>5. CASE TellingLeaving
  BY <1>1, <1>5 DEF TellingLeaving, VisitAndLeave, PopStack, Finish, Unwind
<1> QED BY <1>1, <1>2, <1>3, <1>4, <1>5, TellSteps

LEMMA EachTells ==
  ASSUME TellInv, MapWalk, purpose = "each", stale = 0, plain'
  PROVE  Onwards
<1>1. pc # "idle" /\ plain
  BY PlainFacts DEF MapWalk
<1>2. /\ BufInv /\ i \in 0..3
      /\ \E Do, To, Met : /\ Coloured(stack, top.node, i + 1, alive, sub, root, Do, To)
                           /\ Reached(Met, stack, top.node, Lim, order, Do, To)
                           /\ ToldSo(told, val, Met)
  BY <1>1 DEF TellInv, TellOK, Ongoing
<1>3. PICK Do, To, Met : Telling(Do, To, Met)
  BY <1>2 DEF Telling
<1> QED BY <1>3, TellSteps, TellsAt, TellsSilent, TellsDown, TellsUp, TellsLeaving

LEMMA WalkTells ==
  ASSUME TellInv, MapWalk
  PROVE  TellOK'
<1>0. MapInv
  BY DEF TellInv, BufInv, KeyInv
<1> SUFFICES ASSUME pc' # "idle", purpose' = "each", stale' = 0, plain'
             PROVE  i' \in 0..3 /\ Ongoing(stack, top.node, i + 1, Lim, told)'
  BY DEF TellOK
<1>1. purpose = "each" /\ stale = 0
  BY PlainFacts
<1>2. /\ i' \in 0..3 /\ order' = order
      /\ Ongoing(stack', top'.node, i' + 1, Lim', told')
  BY <1>1, EachTells DEF Onwards
<1>3. UNCHANGED <<alive, sub, root>> /\ \A n \in alive : val'[n] = val[n]
  BY <1>0, <1>1, EachStep, WalkFacts
<1>4. PICK Do, To, Met :
        /\ Coloured(stack', top'.node, i' + 1, alive, sub, root, Do, To)
        /\ Reached(Met, stack', top'.node, Lim', order, Do, To)
        /\ ToldSo(told', val, Met)
  BY <1>2 DEF Ongoing
<1>5. Met \subseteq alive
  BY <1>4, ReachedIn
<1>6. Valued(val', Met) = Valued(val, Met)
  BY <1>3, <1>5 DEF Valued
<1>7. ToldSo(told', val', Met)
  BY <1>4, <1>6 DEF ToldSo
<1>8. /\ Coloured(stack', top'.node, i' + 1, alive', sub', root', Do, To)
      /\ Reached(Met, stack', top'.node, Lim', order', Do, To)
  BY <1>2, <1>3, <1>4
<1> QED BY <1>2, <1>7, <1>8 DEF Ongoing

LEMMA StartTells ==
  ASSUME TellInv, NEW o \in Int, StartMapWalk(o, "each")
  PROVE  TellOK'
<1>0. /\ pc = "idle" /\ MapInv
      /\ Tree(alive, sub, root) /\ Nil \notin alive
  BY IdleFacts DEF StartMapWalk, StartWalk, TellInv, BufInv, KeyInv
<1>1. /\ root # Nil /\ top' = Item(root, 0) /\ i' = 0 /\ order' = o /\ pc' = "at"
      /\ stale' = Len(stack) /\ told' = <<>>
      /\ UNCHANGED <<alive, sub, root, stack, val>>
  BY DEF StartMapWalk, StartWalk, nodeVars, dataVars
<1> SUFFICES ASSUME stale' = 0
             PROVE  Ongoing(stack, top.node, i + 1, Lim, told)'
  BY <1>1 DEF TellOK
<1>2. stack = <<>>
  <2>1. stack \in Seq(StackItem)
    BY <1>0 DEF MapInv, TypeOK
  <2> QED BY <1>1, <2>1
<1>3. top'.node = root /\ Lim' = -1 /\ i' + 1 = 1
  BY <1>1 DEF Item, Lim
<1>4. Coloured(<<>>, root, 1, alive, sub, root, {}, alive \ {root})
  BY <1>0, <1>1, ColourStart
<1>5. Reached({}, <<>>, root, -1, o, {}, alive \ {root})
  BY DEF Reached, MetSo
<1>6. ToldSo(<<>>, val, {})
  <2>1. Valued(val, {}) = {} /\ Tellings(<<>>) = {} /\ Len(<<>>) = 0
    BY DEF Valued, Tellings
  <2> QED BY <2>1, FS_EmptySet DEF ToldSo
<1>7. /\ Coloured(stack', top'.node, i' + 1, alive', sub', root', {}, alive \ {root})
      /\ Reached({}, stack', top'.node, Lim', order', {}, alive \ {root})
      /\ ToldSo(told', val', {})
  BY <1>1, <1>2, <1>3, <1>4, <1>5, <1>6
<1> QED BY <1>7 DEF Ongoing

LEMMA TellInit == MapInit => TellInv
BY BufInit DEF TellInv, TellOK, MapInit, Init

LEMMA TellStep ==
  ASSUME TellInv, [MapNext]_mapVars
  PROVE  TellInv'
<1>0. BufInv' /\ MapInv
  BY BufStep DEF TellInv, BufInv, KeyInv
<1> SUFFICES TellOK'
  BY <1>0 DEF TellInv
<1>1. ASSUME pc' = "idle" \/ purpose' = "clear"  PROVE TellOK'
  BY <1>1 DEF TellOK
<1>2. CASE \E o \in {"get", "remove", "index"}, k \in Keys : Call(o, k)
  BY <1>1, <1>2 DEF Call, BetweenCalls, BetweenWalks
<1>3. CASE Lookup
  <2>1. Searching /\ UNCHANGED pc
    BY <1>3 DEF Lookup, Descend, Found, Missing, Insert, vars, walkVars
  <2>2. pc = "idle"
    BY <1>0, <2>1, SearchFacts
  <2> QED BY <1>1, <2>1, <2>2
<1>4. CASE \E v \in Val \cup {Empty} : Assign(v)
  BY <1>1, <1>4 DEF Assign, BetweenCalls, BetweenWalks
<1>5. CASE \E o \in Orders : MapForEach(o)
  <2>1. PICK o \in Int : StartMapWalk(o, "each")
    BY <1>5, TreeAssumption DEF MapForEach
  <2> QED BY <2>1, StartTells
<1>6. CASE ClearNodes
  BY <1>1, <1>6 DEF ClearNodes, StartMapWalk, StartWalk
<1>7. CASE ClearCount
  BY <1>1, <1>7 DEF ClearCount, BetweenCalls, BetweenWalks
<1>8. CASE MapWalk
  BY <1>8, WalkTells
<1>9. CASE UNCHANGED mapVars
  <2>1. UNCHANGED <<stack, top, i, order, pc, purpose, stale, plain, told, val, alive, sub, root>>
    BY <1>9 DEF mapVars, vars, nodeVars, walkVars, dataVars, tellVars
  <2> QED BY <2>1 DEF TellInv, TellOK, Ongoing, Lim
<1> QED BY <1>2, <1>3, <1>4, <1>5, <1>6, <1>7, <1>8, <1>9 DEF MapNext

LEMMA AllTold ==
  ASSUME TellInv, [MapNext]_mapVars, pc # "idle", purpose = "each", stale = 0,
         pc' = "idle", plain'
  PROVE  /\ {told'[t].node : t \in DOMAIN told'} = {n \in alive : Valid(n)}
         /\ Len(told') = Cardinality({n \in alive : Valid(n)})
<1>0. MapInv
  BY DEF TellInv, BufInv, KeyInv
<1>1. MapWalk
  <2>1. Lookup => pc = "idle"
    <3>1. Lookup => Searching
      BY DEF Lookup, Descend, Found, Missing, Insert
    <3> QED BY <1>0, <3>1, SearchFacts
  <2>2. UNCHANGED mapVars => pc' = pc
    BY DEF mapVars, vars, walkVars
  <2> QED BY <2>1, <2>2 DEF MapNext, Call, Assign, MapForEach, ClearNodes, ClearCount,
             StartMapWalk, StartWalk, BetweenCalls, BetweenWalks
<1>2. ToldSo(told', val, alive)
  BY <1>1, EachTells DEF Onwards
<1>3. Valued(val, alive) = {n \in alive : Valid(n)}
  BY DEF Valued, Valid
<1>4. DOMAIN told' = 1..Len(told')
  <2>1. ToldOK'
    BY TellStep DEF TellInv, BufInv
  <2>2. PICK S : told' \in Seq(S)
    BY <2>1 DEF ToldOK
  <2> QED BY <2>2
<1> QED BY <1>2, <1>3, <1>4 DEF ToldSo, Tellings

(* A ForEach whose callback always answered 0 has told every value of the  *)
(* map, and none twice, in whatever order it went and however the lookups  *)
(* had rotated the tree before it (property_map.h, ForEach and             *)
(* invokeCallback; tree.h, ForEach).                                       *)
THEOREM EveryValueTold == MapSpec => TellsAll
<1>1. TellInv /\ [MapNext]_mapVars => TellInv'
  BY TellStep
<1>2. TellInv /\ [MapNext]_mapVars =>
        [(pc # "idle" /\ purpose = "each" /\ stale = 0 /\ pc' = "idle" /\ plain') =>
            /\ {told'[t].node : t \in DOMAIN told'} = {n \in alive : Valid(n)}
            /\ Len(told') = Cardinality({n \in alive : Valid(n)})]_mapVars
  BY AllTold
<1> QED BY <1>1, <1>2, TellInit, PTL DEF MapSpec, TellsAll
=============================================================================

---------------------------- MODULE Table_proofs ----------------------------
(***************************************************************************)
(* Proofs about Table, for any sets of values and any width: no two pairs  *)
(* share a cell, so the bits are the set of inserted pairs.                *)
(***************************************************************************)
EXTENDS Table, TLAPS

(* The cells of the m-th shell are those from m^2 to (m + 1)^2 - 1. *)
Shell(x, y) == IF x < y THEN y ELSE x

(* A cell lies in the shell of the larger of its two numbers.              *)
LEMMA ShellBounds ==
  ASSUME NEW x \in Nat, NEW y \in Nat
  PROVE  /\ Shell(x, y) \in Nat
         /\ Pairing(x, y) \in Nat
         /\ Shell(x, y) * Shell(x, y) <= Pairing(x, y)
         /\ Pairing(x, y) < (Shell(x, y) + 1) * (Shell(x, y) + 1)
<1>1. ASSUME NEW n \in Nat
      PROVE  /\ (n + 1) * (n + 1) = n * n + 2 * n + 1
             /\ n * (n + 1) = n * n + n
             /\ n * n \in Nat
  OBVIOUS
<1>2. CASE x < y
  <2>1. Shell(x, y) = y /\ Pairing(x, y) = y * y + x
    BY <1>2 DEF Shell, Pairing
  <2> QED BY <1>1, <1>2, <2>1
<1>3. CASE ~(x < y)
  <2>1. Shell(x, y) = x /\ Pairing(x, y) = x * (x + 1) + y
    BY <1>3 DEF Shell, Pairing
  <2>2. Pairing(x, y) = x * x + x + y
    BY <1>1, <2>1
  <2> QED BY <1>1, <1>3, <2>1, <2>2
<1> QED BY <1>2, <1>3

(* Squares grow. *)
LEMMA SquaresGrow ==
  ASSUME NEW m \in Nat, NEW n \in Nat, m < n
  PROVE  (m + 1) * (m + 1) <= n * n
<1> DEFINE d == n - (m + 1)
<1>1. d \in Nat /\ n = m + 1 + d
  OBVIOUS
<1>2. n * n = (m + 1) * (m + 1) + 2 * (m + 1) * d + d * d
  BY <1>1
<1>3. 2 * (m + 1) * d \in Nat /\ d * d \in Nat /\ (m + 1) * (m + 1) \in Nat
  BY <1>1
<1> HIDE DEF d
<1> QED BY <1>2, <1>3

(* The growing layout gives every pair of numbers a cell of its own        *)
(* (table.h, table_buf_idx_calculator<0>).                                 *)
THEOREM PairingInjective ==
  ASSUME NEW x \in Nat, NEW y \in Nat, NEW u \in Nat, NEW v \in Nat,
         Pairing(x, y) = Pairing(u, v)
  PROVE  x = u /\ y = v
<1> DEFINE m == Shell(x, y)
           n == Shell(u, v)
<1>1. /\ m \in Nat /\ m * m <= Pairing(x, y) /\ Pairing(x, y) < (m + 1) * (m + 1)
      /\ n \in Nat /\ n * n <= Pairing(u, v) /\ Pairing(u, v) < (n + 1) * (n + 1)
      /\ Pairing(x, y) \in Nat
  BY ShellBounds
<1>2. m = n
  <2> HIDE DEF m, n
  <2>1. m * m \in Nat /\ n * n \in Nat /\ (m + 1) * (m + 1) \in Nat /\ (n + 1) * (n + 1) \in Nat
    BY <1>1
  <2>2. ~(m < n)
    BY <1>1, <2>1, SquaresGrow
  <2>3. ~(n < m)
    BY <1>1, <2>1, SquaresGrow
  <2> QED BY <1>1, <2>2, <2>3
<1>3. m * (m + 1) = m * m + m /\ m * m \in Nat
  BY <1>1
<1>4. CASE x < y /\ u < v
  BY <1>2, <1>3, <1>4 DEF Shell, Pairing
<1>5. CASE ~(x < y) /\ ~(u < v)
  BY <1>2, <1>3, <1>5 DEF Shell, Pairing
<1>6. CASE x < y /\ ~(u < v)
  BY <1>2, <1>3, <1>6 DEF Shell, Pairing
<1>7. CASE ~(x < y) /\ u < v
  BY <1>2, <1>3, <1>7 DEF Shell, Pairing
<1> QED BY <1>4, <1>5, <1>6, <1>7

(* So does the layout with a width, inside the width.                      *)
LEMMA RowsDisjoint ==
  ASSUME NEW w \in Nat, NEW x \in 0..(w - 1), NEW u \in 0..(w - 1),
         NEW y \in Nat, NEW v \in Nat, y < v
  PROVE  y * w + x < v * w + u
<1> DEFINE d == v - (y + 1)
<1>1. d \in Nat /\ v = y + 1 + d
  OBVIOUS
<1>2. v * w = y * w + w + d * w
  BY <1>1
<1>3. d * w \in Nat /\ y * w \in Nat
  BY <1>1
<1> HIDE DEF d
<1> QED BY <1>2, <1>3

(* Every pair of numbers inside the width has a cell of its own. *)
LEMMA CellInjective ==
  ASSUME width \in Nat,
         NEW x \in Nat, NEW y \in Nat, NEW u \in Nat, NEW v \in Nat,
         InWidth(x), InWidth(u), Cell(x, y) = Cell(u, v)
  PROVE  x = u /\ y = v
<1>1. CASE width = 0
  BY <1>1, PairingInjective DEF Cell
<1>2. CASE width # 0
  <2>1. x \in 0..(width - 1) /\ u \in 0..(width - 1)
    BY <1>2 DEF InWidth
  <2>2. y * width + x = v * width + u
    BY <1>2 DEF Cell
  <2>3. y * width \in Nat /\ v * width \in Nat
    OBVIOUS
  <2>4. ~(y < v)
    BY <2>1, <2>2, <2>3, RowsDisjoint
  <2>5. ~(v < y)
    BY <2>1, <2>2, <2>3, RowsDisjoint
  <2>6. y = v
    BY <2>4, <2>5
  <2> QED BY <2>1, <2>2, <2>3, <2>6
<1> QED BY <1>1, <1>2

(* Cells are counted from 0. *)
LEMMA CellType ==
  ASSUME width \in Nat, NEW x \in Nat, NEW y \in Nat
  PROVE  Cell(x, y) \in Nat
<1>1. Pairing(x, y) \in Nat
  BY ShellBounds
<1>2. y * width + x \in Nat
  OBVIOUS
<1> QED BY <1>1, <1>2 DEF Cell

-----------------------------------------------------------------------------
(* Registering a value: the numbers given before stay, the new value gets  *)
(* the next one.                                                           *)
LEMMA RegisterFacts ==
  ASSUME NEW S, NEW map \in Seq(S), NEW v \in S, Distinct(map)
  PROVE  /\ Register(map, v) \in Seq(S)
         /\ Distinct(Register(map, v))
         /\ Len(map) <= Len(Register(map, v))
         /\ \A k \in 1..Len(map) : Register(map, v)[k] = map[k]
         /\ \A k \in 1..Len(Register(map, v)) :
               k \in 1..Len(map) \/ Register(map, v)[k] = v
         /\ \E k \in 1..Len(Register(map, v)) : Register(map, v)[k] = v
<1>1. CASE \E k \in 1..Len(map) : map[k] = v
  BY <1>1 DEF Register
<1>2. CASE ~\E k \in 1..Len(map) : map[k] = v
  <2>1. Register(map, v) = Append(map, v)
    BY <1>2 DEF Register
  <2>2. /\ Append(map, v) \in Seq(S)
        /\ Len(Append(map, v)) = Len(map) + 1
        /\ \A k \in 1..Len(map) : Append(map, v)[k] = map[k]
        /\ Append(map, v)[Len(map) + 1] = v
        /\ Len(map) \in Nat
    OBVIOUS
  <2>3. Distinct(Append(map, v))
    BY <1>2, <2>2 DEF Distinct
  <2> QED BY <2>1, <2>2, <2>3
<1> QED BY <1>1, <1>2

(* The number of a registered value is its place. *)
LEMMA IndexFacts ==
  ASSUME NEW S, NEW map \in Seq(S), Distinct(map), NEW k \in 1..Len(map)
  PROVE  Index(map, map[k]) = k - 1
<1>1. \E j \in 1..Len(map) : map[j] = map[k]
  OBVIOUS
<1>2. (CHOOSE j \in 1..Len(map) : map[j] = map[k]) = k
  BY <1>1 DEF Distinct
<1> QED BY <1>2 DEF Index

(* The empty table. *)
LEMMA InitOwned == Init => BitsOwned /\ Related = {}
BY TableAssumption DEF Init, BitsOwned, TypeOK, Distinct, Answers, Related,
                       RegisteredA, Abstract!Done

(* Insert sets the bit of its own pair and no other. *)
LEMMA InsertBits ==
  ASSUME BitsOwned, NEW a \in A, NEW b \in B, Insert(a, b),
         InWidth(Index(Register(mapA, a), a))
  PROVE  /\ bits' \in Seq(BOOLEAN)
         /\ Len(bits) <= Len(bits')
         /\ \E j \in 1..Len(mapA'), k \in 1..Len(mapB') :
               /\ mapA'[j] = a /\ mapB'[k] = b /\ InWidth(j - 1)
               /\ Cell(j - 1, k - 1) \in 0..(Len(bits') - 1)
               /\ bits'[Cell(j - 1, k - 1) + 1]
               /\ \A c \in 1..Len(bits') : c # Cell(j - 1, k - 1) + 1 =>
                     bits'[c] <=> (c <= Len(bits) /\ bits[c])
<1> DEFINE mA == Register(mapA, a)
           mB == Register(mapB, b)
<1>1. /\ mapA' = mA /\ mapB' = mB
      /\ mA \in Seq(A) /\ Distinct(mA) /\ mB \in Seq(B) /\ Distinct(mB)
  BY RegisterFacts DEF Insert, BitsOwned, TypeOK
<1>2. PICK j \in 1..Len(mA), k \in 1..Len(mB) : mA[j] = a /\ mB[k] = b
  BY RegisterFacts DEF BitsOwned, TypeOK
<1>3. Index(mA, a) = j - 1 /\ Index(mB, b) = k - 1
  BY <1>1, <1>2, IndexFacts
<1> DEFINE c == Cell(j - 1, k - 1)
           n == IF c + 1 > Len(bits) THEN c + 1 ELSE Len(bits)
<1>4. bits' = [Grown(n) EXCEPT ![c + 1] = TRUE]
  BY <1>3 DEF Insert
<1>5. c \in Nat
  <2>1. j - 1 \in Nat /\ k - 1 \in Nat
    OBVIOUS
  <2> QED BY <2>1, CellType DEF BitsOwned, TypeOK
<1>6. n \in Nat /\ c + 1 \in 1..n /\ Len(bits) <= n
  BY <1>5 DEF BitsOwned, TypeOK
<1> HIDE DEF c, n
<1>7. Grown(n) \in [1..n -> BOOLEAN]
  BY DEF Grown, BitsOwned, TypeOK
<1>8. bits' \in [1..n -> BOOLEAN]
  BY <1>4, <1>6, <1>7
<1>9. bits' \in Seq(BOOLEAN) /\ Len(bits') = n
  BY <1>6, <1>8
<1>10. bits'[c + 1] /\ \A d \in 1..n : d # c + 1 => (bits'[d] <=> (d <= Len(bits) /\ bits[d]))
  BY <1>4, <1>6 DEF Grown
<1>11. c \in 0..(Len(bits') - 1) /\ InWidth(j - 1)
  BY <1>3, <1>5, <1>6, <1>9
<1> QED BY <1>1, <1>2, <1>6, <1>9, <1>10, <1>11 DEF c

(* BitsOwned speaks of the bits and numbers of the next state, for a step  *)
(* that keeps the width.                                                   *)
LEMMA OwnedNext ==
  ASSUME width \in Nat, width' = width, mapA' \in Seq(A), mapB' \in Seq(B),
         bits' \in Seq(BOOLEAN), answer' \in Answers,
         Distinct(mapA'), Distinct(mapB'),
         \A c \in 1..Len(bits') : bits'[c] =>
            \E x \in 0..(Len(mapA') - 1), y \in 0..(Len(mapB') - 1) :
               InWidth(x) /\ c = Cell(x, y) + 1
  PROVE  BitsOwned'
<1>1. Answers' = Answers
  BY DEF Answers, Abstract!Done, Abstract!Failed, Abstract!FoundWithA,
         Abstract!FoundWithB
<1>2. TypeOK'
  BY <1>1 DEF TypeOK
<1>3. Distinct(mapA)' /\ Distinct(mapB)'
  BY DEF Distinct
<1>4. \A x : InWidth(x)' <=> InWidth(x)
  BY DEF InWidth
<1>5. \A x, y : Cell(x, y)' = Cell(x, y)
  BY DEF Cell
<1>6. (\A c \in 1..Len(bits) : bits[c] =>
         \E x \in 0..(Len(mapA) - 1), y \in 0..(Len(mapB) - 1) :
            InWidth(x) /\ c = Cell(x, y) + 1)'
  BY <1>4, <1>5
<1> QED BY <1>2, <1>3, <1>6 DEF BitsOwned

(* Insert registers the values of the bit it sets.                         *)
LEMMA InsertOwned ==
  ASSUME BitsOwned, NEW a \in A, NEW b \in B, Insert(a, b)
  PROVE  BitsOwned'
<1>1. /\ mapA' = Register(mapA, a) /\ mapB' = Register(mapB, b) /\ width' = width
      /\ answer' \in Answers /\ width \in Nat
  BY DEF Insert, Answers, BitsOwned, TypeOK
<1>2. /\ mapA' \in Seq(A) /\ Distinct(mapA') /\ Len(mapA) <= Len(mapA')
      /\ mapB' \in Seq(B) /\ Distinct(mapB') /\ Len(mapB) <= Len(mapB')
  BY <1>1, RegisterFacts DEF BitsOwned, TypeOK
<1>3. \A c \in 1..Len(bits) : bits[c] =>
         \E x \in 0..(Len(mapA') - 1), y \in 0..(Len(mapB') - 1) :
            InWidth(x) /\ c = Cell(x, y) + 1
  <2> SUFFICES ASSUME NEW c \in 1..Len(bits), bits[c]
               PROVE  \E x \in 0..(Len(mapA') - 1), y \in 0..(Len(mapB') - 1) :
                         InWidth(x) /\ c = Cell(x, y) + 1
    OBVIOUS
  <2>1. PICK x \in 0..(Len(mapA) - 1), y \in 0..(Len(mapB) - 1) :
           InWidth(x) /\ c = Cell(x, y) + 1
    BY DEF BitsOwned
  <2>2. x \in 0..(Len(mapA') - 1) /\ y \in 0..(Len(mapB') - 1)
    BY <1>2 DEF BitsOwned, TypeOK
  <2> QED BY <2>1, <2>2
<1>4. CASE InWidth(Index(mapA', a))
  <2>1. InWidth(Index(Register(mapA, a), a))
    BY <1>1, <1>4
  <2>2. bits' \in Seq(BOOLEAN)
    BY <2>1, InsertBits
  <2>3. PICK j \in 1..Len(mapA'), k \in 1..Len(mapB') :
           /\ InWidth(j - 1)
           /\ \A c \in 1..Len(bits') : c # Cell(j - 1, k - 1) + 1 =>
                 bits'[c] <=> (c <= Len(bits) /\ bits[c])
    BY <2>1, InsertBits
  <2>4. ASSUME NEW c \in 1..Len(bits'), bits'[c]
        PROVE  \E x \in 0..(Len(mapA') - 1), y \in 0..(Len(mapB') - 1) :
                  InWidth(x) /\ c = Cell(x, y) + 1
    <3>1. CASE c = Cell(j - 1, k - 1) + 1
      <4>1. j - 1 \in 0..(Len(mapA') - 1) /\ k - 1 \in 0..(Len(mapB') - 1)
        BY <1>2
      <4> QED BY <4>1, <2>3, <3>1
    <3>2. CASE c # Cell(j - 1, k - 1) + 1
      <4>1. c \in 1..Len(bits) /\ bits[c]
        <5>1. c <= Len(bits) /\ bits[c]
          BY <2>3, <2>4, <3>2
        <5>2. c \in Nat /\ c >= 1 /\ Len(bits) \in Nat
          BY <2>2 DEF BitsOwned, TypeOK
        <5> QED BY <5>1, <5>2
      <4> QED BY <4>1, <1>3
    <3> QED BY <3>1, <3>2
  <2> QED BY <1>1, <1>2, <2>2, <2>4, OwnedNext
<1>5. CASE ~InWidth(Index(mapA', a))
  <2>1. bits' = bits
    BY <1>1, <1>5 DEF Insert
  <2> QED BY <1>1, <1>2, <1>3, <2>1, OwnedNext DEF BitsOwned, TypeOK
<1> QED BY <1>4, <1>5

(* The operations that register nothing clear bits or leave them alone. *)
LEMMA OtherOwned ==
  ASSUME BitsOwned, width' = width, answer' \in Answers,
         \/ UNCHANGED <<mapA, mapB>> /\ bits' \in Seq(BOOLEAN) /\ Len(bits') = Len(bits)
            /\ \A c \in 1..Len(bits) : bits'[c] => bits[c]
         \/ mapA' = <<>> /\ mapB' = <<>> /\ bits' = <<>>
  PROVE  BitsOwned'
<1>1. /\ width \in Nat /\ mapA' \in Seq(A) /\ mapB' \in Seq(B) /\ bits' \in Seq(BOOLEAN)
      /\ Distinct(mapA') /\ Distinct(mapB')
  <2>1. CASE UNCHANGED <<mapA, mapB>> /\ bits' \in Seq(BOOLEAN)
    BY <2>1 DEF BitsOwned, TypeOK
  <2>2. CASE mapA' = <<>> /\ mapB' = <<>> /\ bits' = <<>>
    BY <2>2 DEF BitsOwned, TypeOK, Distinct
  <2> QED BY <2>1, <2>2
<1>2. \A c \in 1..Len(bits') : bits'[c] =>
         \E x \in 0..(Len(mapA') - 1), y \in 0..(Len(mapB') - 1) :
            InWidth(x) /\ c = Cell(x, y) + 1
  BY DEF BitsOwned
<1> QED BY <1>1, <1>2, OwnedNext

(* Remove clears the bit of its own pair and no other. *)
LEMMA RemoveBits ==
  ASSUME BitsOwned, NEW a \in A, NEW b \in B, Remove(a, b)
  PROVE  /\ bits' \in Seq(BOOLEAN)
         /\ Len(bits') = Len(bits)
         /\ \A c \in 1..Len(bits) : bits'[c] => bits[c]
         /\ answer' \in Answers
         /\ UNCHANGED <<width, mapA, mapB>>
<1>1. answer' \in Answers /\ UNCHANGED <<width, mapA, mapB>>
  BY DEF Remove, Answers
<1>2. CASE bits' = bits
  BY <1>1, <1>2 DEF BitsOwned, TypeOK
<1>3. CASE bits' # bits
  <2> DEFINE c == CellOf(a, b) + 1
  <2>1. bits' = [bits EXCEPT ![c] = FALSE]
    BY <1>3 DEF Remove
  <2> HIDE DEF c
  <2>2. bits \in [1..Len(bits) -> BOOLEAN] /\ Len(bits) \in Nat
    BY DEF BitsOwned, TypeOK
  <2>3. bits' \in [1..Len(bits) -> BOOLEAN]
    BY <2>1, <2>2
  <2>4. bits' \in Seq(BOOLEAN) /\ Len(bits') = Len(bits)
    BY <2>2, <2>3
  <2>5. ASSUME NEW d \in 1..Len(bits), bits'[d]
        PROVE  bits[d]
    BY <2>1, <2>2, <2>5
  <2> QED BY <1>1, <2>4, <2>5
<1> QED BY <1>2, <1>3

(* One case per operation. *)
LEMMA NextOwned ==
  ASSUME BitsOwned, [Next]_tableVars
  PROVE  BitsOwned'
<1>1. CASE \E a \in A, b \in B : Insert(a, b)
  BY <1>1, InsertOwned
<1>2. CASE \E a \in A, b \in B : Remove(a, b)
  BY <1>2, RemoveBits, OtherOwned
<1>3. CASE Clear
  BY <1>3, OtherOwned DEF Clear, Answers
<1>4. CASE \E a \in A : FindWithA(a)
  <2>1. PICK a \in A : FindWithA(a)
    BY <1>4
  <2>2. RegisteredB \subseteq B
    BY DEF RegisteredB, BitsOwned, TypeOK
  <2>3. answer' \in Answers
    <3>1. \/ answer' = Abstract!Failed
          \/ \E bs \in SUBSET B : answer' = Abstract!FoundWithA(a, bs)
      BY <2>1, <2>2 DEF FindWithA
    <3> QED BY <3>1 DEF Answers
  <2>4. UNCHANGED <<width, mapA, mapB, bits>>
    BY <2>1 DEF FindWithA
  <2> QED BY <2>3, <2>4, OtherOwned DEF BitsOwned, TypeOK
<1>5. CASE \E b \in B : FindWithB(b)
  <2>1. PICK b \in B : FindWithB(b)
    BY <1>5
  <2>2. RegisteredA \subseteq A
    BY DEF RegisteredA, BitsOwned, TypeOK
  <2>3. answer' \in Answers
    <3>1. \/ answer' = Abstract!Failed
          \/ \E as \in SUBSET A : answer' = Abstract!FoundWithB(b, as)
      BY <2>1, <2>2 DEF FindWithB
    <3> QED BY <3>1 DEF Answers
  <2>4. UNCHANGED <<width, mapA, mapB, bits>>
    BY <2>1 DEF FindWithB
  <2> QED BY <2>3, <2>4, OtherOwned DEF BitsOwned, TypeOK
<1>6. CASE UNCHANGED tableVars
  BY <1>6, OtherOwned DEF tableVars, BitsOwned, TypeOK
<1> QED BY <1>1, <1>2, <1>3, <1>4, <1>5, <1>6 DEF Next

-----------------------------------------------------------------------------
(* A set bit, by the numbers of its values. *)
IsPair(mA, mB, bs, a, b) ==
  \E j \in 1..Len(mA), k \in 1..Len(mB) :
     /\ mA[j] = a /\ mB[k] = b
     /\ InWidth(j - 1)
     /\ Cell(j - 1, k - 1) < Len(bs)
     /\ bs[Cell(j - 1, k - 1) + 1]

(* The pairs of the set bits, for the buffers of this state or the next.   *)
PairsOf(mA, mB, bs) ==
  {<<mA[p[1]], mB[p[2]]>> :
      p \in {q \in (1..Len(mA)) \X (1..Len(mB)) :
               /\ InWidth(q[1] - 1)
               /\ Cell(q[1] - 1, q[2] - 1) < Len(bs)
               /\ bs[Cell(q[1] - 1, q[2] - 1) + 1]}}

(* They are the pairs that have a set bit. *)
LEMMA PairsOfBits ==
  ASSUME NEW mA \in Seq(A), NEW mB \in Seq(B), NEW bs
  PROVE  /\ PairsOf(mA, mB, bs) \subseteq A \X B
         /\ \A a, b : <<a, b>> \in PairsOf(mA, mB, bs) <=> IsPair(mA, mB, bs, a, b)
<1> DEFINE S == PairsOf(mA, mB, bs)
<1>1. ASSUME NEW p \in (1..Len(mA)) \X (1..Len(mB))
      PROVE  mA[p[1]] \in A /\ mB[p[2]] \in B
  OBVIOUS
<1>2. ASSUME NEW a, NEW b, <<a, b>> \in S
      PROVE  IsPair(mA, mB, bs, a, b)
  BY <1>2 DEF IsPair, PairsOf
<1>3. ASSUME NEW a, NEW b, IsPair(mA, mB, bs, a, b)
      PROVE  <<a, b>> \in S
  <2>1. PICK j \in 1..Len(mA), k \in 1..Len(mB) :
           /\ mA[j] = a /\ mB[k] = b
           /\ InWidth(j - 1)
           /\ Cell(j - 1, k - 1) < Len(bs)
           /\ bs[Cell(j - 1, k - 1) + 1]
    BY <1>3 DEF IsPair
  <2> DEFINE p == <<j, k>>
  <2>2. p \in (1..Len(mA)) \X (1..Len(mB)) /\ p[1] = j /\ p[2] = k
    OBVIOUS
  <2> QED BY <2>1, <2>2 DEF PairsOf
<1>4. S \subseteq A \X B
  BY <1>1 DEF PairsOf
<1> QED BY <1>2, <1>3, <1>4

(* The related pairs, now and after a step. *)
LEMMA RelatedPairs ==
  ASSUME BitsOwned
  PROVE  /\ Related \subseteq A \X B
         /\ \A a, b : <<a, b>> \in Related <=> IsPair(mapA, mapB, bits, a, b)
<1>1. mapA \in Seq(A) /\ mapB \in Seq(B)
  BY DEF BitsOwned, TypeOK
<1>2. Related = PairsOf(mapA, mapB, bits)
  BY DEF Related, IsSet, PairsOf
<1> QED BY <1>1, <1>2, PairsOfBits

(* The same for the next state, in the terms of this one. *)
LEMMA RelatedPairsNext ==
  ASSUME BitsOwned', width' = width
  PROVE  /\ Related' \subseteq A \X B
         /\ \A a, b : <<a, b>> \in Related' <=> IsPair(mapA', mapB', bits', a, b)
<1>1. mapA' \in Seq(A) /\ mapB' \in Seq(B)
  BY DEF BitsOwned, TypeOK
<1>2. Related' = PairsOf(mapA', mapB', bits')
  BY DEF Related, IsSet, PairsOf, InWidth, Cell
<1> QED BY <1>1, <1>2, PairsOfBits

(* A bit that is set is the bit of the values registered before, even if   *)
(* more have been registered since.                                        *)
LEMMA OldBit ==
  ASSUME BitsOwned, NEW mA \in Seq(A), NEW mB \in Seq(B),
         Len(mapA) <= Len(mA), \A n \in 1..Len(mapA) : mA[n] = mapA[n],
         Len(mapB) <= Len(mB), \A n \in 1..Len(mapB) : mB[n] = mapB[n],
         NEW j \in 1..Len(mA), NEW k \in 1..Len(mB), InWidth(j - 1),
         Cell(j - 1, k - 1) + 1 \in 1..Len(bits), bits[Cell(j - 1, k - 1) + 1]
  PROVE  /\ j \in 1..Len(mapA) /\ mapA[j] = mA[j]
         /\ k \in 1..Len(mapB) /\ mapB[k] = mB[k]
<1>1. PICK x \in 0..(Len(mapA) - 1), y \in 0..(Len(mapB) - 1) :
         InWidth(x) /\ Cell(j - 1, k - 1) + 1 = Cell(x, y) + 1
  BY DEF BitsOwned
<1>2. /\ width \in Nat /\ Len(mapA) \in Nat /\ Len(mapB) \in Nat
      /\ j - 1 \in Nat /\ k - 1 \in Nat /\ x \in Nat /\ y \in Nat
  BY SMTT(30) DEF BitsOwned, TypeOK
<1>3. Cell(j - 1, k - 1) = Cell(x, y)
  <2>1. Cell(j - 1, k - 1) \in Nat
    BY <1>2, CellType
  <2>2. Cell(x, y) \in Nat
    BY <1>2, CellType
  <2> QED BY SMTT(30), <1>1, <2>1, <2>2
<1>4. j - 1 = x /\ k - 1 = y
  BY <1>1, <1>2, <1>3, CellInjective
<1> QED BY <1>2, <1>4

(* Insert relates its two values and leaves all other pairs as they are.   *)
LEMMA InsertRelated ==
  ASSUME BitsOwned, NEW a \in A, NEW b \in B, Insert(a, b)
  PROVE  Related' = IF InWidth(Index(Register(mapA, a), a))
                    THEN Related \cup {<<a, b>>} ELSE Related
<1> DEFINE mA == Register(mapA, a)
           mB == Register(mapB, b)
<1>1. /\ mapA' = mA /\ mapB' = mB /\ width' = width
  BY DEF Insert
<1>2. /\ mA \in Seq(A) /\ Len(mapA) <= Len(mA) /\ \A n \in 1..Len(mapA) : mA[n] = mapA[n]
      /\ mB \in Seq(B) /\ Len(mapB) <= Len(mB) /\ \A n \in 1..Len(mapB) : mB[n] = mapB[n]
      /\ Len(mapA) \in Nat /\ Len(mapB) \in Nat /\ Len(bits) \in Nat /\ width \in Nat
      /\ Len(mA) \in Nat /\ Len(mB) \in Nat
  <2>1. /\ mapA \in Seq(A) /\ Distinct(mapA) /\ mapB \in Seq(B) /\ Distinct(mapB)
        /\ bits \in Seq(BOOLEAN) /\ width \in Nat
    BY DEF BitsOwned, TypeOK
  <2>2. mA \in Seq(A) /\ Len(mapA) <= Len(mA) /\ \A n \in 1..Len(mapA) : mA[n] = mapA[n]
    BY <2>1, RegisterFacts
  <2>3. mB \in Seq(B) /\ Len(mapB) <= Len(mB) /\ \A n \in 1..Len(mapB) : mB[n] = mapB[n]
    BY <2>1, RegisterFacts
  <2> HIDE DEF mA, mB
  <2> QED BY <2>1, <2>2, <2>3
<1>3. /\ Related' \subseteq A \X B
      /\ \A c \in A, d \in B : <<c, d>> \in Related' <=> IsPair(mA, mB, bits', c, d)
  BY <1>1, InsertOwned, RelatedPairsNext
<1>4. /\ Related \subseteq A \X B
      /\ \A c \in A, d \in B : <<c, d>> \in Related <=> IsPair(mapA, mapB, bits, c, d)
  BY RelatedPairs
<1> HIDE DEF mA, mB
<1>5. \A j \in 1..Len(mA), k \in 1..Len(mB) : Cell(j - 1, k - 1) \in Nat
  <2> TAKE j \in 1..Len(mA), k \in 1..Len(mB)
  <2>1. j - 1 \in Nat /\ k - 1 \in Nat
    BY <1>2
  <2> QED BY <1>2, <2>1, CellType
<1>6. CASE InWidth(Index(mA, a))
  <2>1. PICK j0 \in 1..Len(mA), k0 \in 1..Len(mB) :
           /\ mA[j0] = a /\ mB[k0] = b /\ InWidth(j0 - 1)
           /\ Cell(j0 - 1, k0 - 1) \in 0..(Len(bits') - 1)
           /\ bits'[Cell(j0 - 1, k0 - 1) + 1]
           /\ \A e \in 1..Len(bits') : e # Cell(j0 - 1, k0 - 1) + 1 =>
                 (bits'[e] <=> (e <= Len(bits) /\ bits[e]))
    BY <1>1, <1>6, InsertBits DEF mA
  <2>2. Len(bits) <= Len(bits') /\ Len(bits') \in Nat
    BY <1>6, InsertBits DEF mA
  <2>3. IsPair(mA, mB, bits', a, b)
    BY <2>1, <2>2 DEF IsPair
  <2>4. ASSUME NEW c \in A, NEW d \in B, IsPair(mapA, mapB, bits, c, d)
        PROVE  IsPair(mA, mB, bits', c, d)
    <3>1. PICK j \in 1..Len(mapA), k \in 1..Len(mapB) :
             /\ mapA[j] = c /\ mapB[k] = d /\ InWidth(j - 1)
             /\ Cell(j - 1, k - 1) < Len(bits)
             /\ bits[Cell(j - 1, k - 1) + 1]
      BY <2>4 DEF IsPair
    <3>2. j \in 1..Len(mA) /\ k \in 1..Len(mB) /\ mA[j] = c /\ mB[k] = d
      BY <1>2, <3>1
    <3>3. /\ Cell(j - 1, k - 1) + 1 \in 1..Len(bits')
          /\ Cell(j - 1, k - 1) + 1 <= Len(bits)
          /\ Cell(j - 1, k - 1) < Len(bits')
      <4>1. Cell(j - 1, k - 1) \in Nat
        BY <1>5, <3>2
      <4> QED BY SMTT(30), <1>2, <2>2, <3>1, <4>1
    <3>4. bits'[Cell(j - 1, k - 1) + 1]
      BY <2>1, <3>1, <3>3
    <3> QED BY <3>1, <3>2, <3>3, <3>4 DEF IsPair
  <2>5. ASSUME NEW c \in A, NEW d \in B, IsPair(mA, mB, bits', c, d)
        PROVE  IsPair(mapA, mapB, bits, c, d) \/ (c = a /\ d = b)
    <3>1. PICK j \in 1..Len(mA), k \in 1..Len(mB) :
             /\ mA[j] = c /\ mB[k] = d /\ InWidth(j - 1)
             /\ Cell(j - 1, k - 1) < Len(bits')
             /\ bits'[Cell(j - 1, k - 1) + 1]
      BY <2>5 DEF IsPair
    <3>2. CASE Cell(j - 1, k - 1) = Cell(j0 - 1, k0 - 1)
      <4>1. j - 1 \in Nat /\ k - 1 \in Nat /\ j0 - 1 \in Nat /\ k0 - 1 \in Nat
        BY <1>2
      <4>2. j - 1 = j0 - 1 /\ k - 1 = k0 - 1
        BY <1>2, <2>1, <3>1, <3>2, <4>1, CellInjective
      <4>3. j = j0 /\ k = k0
        BY <4>2
      <4> QED BY <2>1, <3>1, <4>3
    <3>3. CASE Cell(j - 1, k - 1) # Cell(j0 - 1, k0 - 1)
      <4>1. /\ Cell(j - 1, k - 1) + 1 \in 1..Len(bits')
            /\ Cell(j - 1, k - 1) + 1 # Cell(j0 - 1, k0 - 1) + 1
        <5>1. Cell(j - 1, k - 1) \in Nat /\ Cell(j0 - 1, k0 - 1) \in Nat
          BY <1>5
        <5>2. \A p, q \in Nat : p # q => p + 1 # q + 1
          OBVIOUS
        <5>3. Cell(j - 1, k - 1) + 1 # Cell(j0 - 1, k0 - 1) + 1
          BY <3>3, <5>1, <5>2
        <5>4. Cell(j - 1, k - 1) + 1 \in 1..Len(bits')
          BY SMTT(30), <2>2, <3>1, <5>1
        <5> QED BY <5>3, <5>4
      <4>2. Cell(j - 1, k - 1) + 1 <= Len(bits) /\ bits[Cell(j - 1, k - 1) + 1]
        BY <2>1, <3>1, <4>1
      <4>3. Cell(j - 1, k - 1) + 1 \in 1..Len(bits) /\ Cell(j - 1, k - 1) < Len(bits)
        <5>1. Cell(j - 1, k - 1) \in Nat
          BY <1>5
        <5> QED BY <1>2, <4>2, <5>1
      <4>4. /\ j \in 1..Len(mapA) /\ mapA[j] = c
            /\ k \in 1..Len(mapB) /\ mapB[k] = d
        BY <1>2, <3>1, <4>2, <4>3, OldBit
      <4> QED BY <3>1, <4>2, <4>3, <4>4 DEF IsPair
    <3> QED BY <3>2, <3>3
  <2>6. Related' = Related \cup {<<a, b>>}
    BY <1>3, <1>4, <2>3, <2>4, <2>5
  <2> QED BY <1>6, <2>6 DEF mA
<1>7. CASE ~InWidth(Index(mA, a))
  <2>1. bits' = bits
    BY <1>7 DEF Insert, mA
  <2>2. ASSUME NEW c \in A, NEW d \in B, IsPair(mapA, mapB, bits, c, d)
        PROVE  IsPair(mA, mB, bits, c, d)
    <3>1. PICK j \in 1..Len(mapA), k \in 1..Len(mapB) :
             /\ mapA[j] = c /\ mapB[k] = d /\ InWidth(j - 1)
             /\ Cell(j - 1, k - 1) < Len(bits)
             /\ bits[Cell(j - 1, k - 1) + 1]
      BY <2>2 DEF IsPair
    <3>2. j \in 1..Len(mA) /\ k \in 1..Len(mB) /\ mA[j] = c /\ mB[k] = d
      BY <1>2, <3>1
    <3> QED BY <3>1, <3>2 DEF IsPair
  <2>3. ASSUME NEW c \in A, NEW d \in B, IsPair(mA, mB, bits, c, d)
        PROVE  IsPair(mapA, mapB, bits, c, d)
    <3>1. PICK j \in 1..Len(mA), k \in 1..Len(mB) :
             /\ mA[j] = c /\ mB[k] = d /\ InWidth(j - 1)
             /\ Cell(j - 1, k - 1) < Len(bits)
             /\ bits[Cell(j - 1, k - 1) + 1]
      BY <2>3 DEF IsPair
    <3>2. Cell(j - 1, k - 1) + 1 \in 1..Len(bits)
      BY SMTT(30), <1>2, <1>5, <3>1
    <3>3. /\ j \in 1..Len(mapA) /\ mapA[j] = c
          /\ k \in 1..Len(mapB) /\ mapB[k] = d
      BY <1>2, <3>1, <3>2, OldBit
    <3> QED BY <3>1, <3>3 DEF IsPair
  <2>4. Related' = Related
    BY <1>3, <1>4, <2>1, <2>2, <2>3
  <2> QED BY <1>7, <2>4 DEF mA
<1> QED BY <1>6, <1>7

(* Remove separates its two values and leaves all other pairs as they are; *)
(* where it fails there was nothing to separate.                           *)
LEMMA RemoveRelated ==
  ASSUME BitsOwned, NEW a \in A, NEW b \in B, Remove(a, b)
  PROVE  Related' = Related \ {<<a, b>>}
<1>1. UNCHANGED <<width, mapA, mapB>> /\ BitsOwned'
  BY RemoveBits, OtherOwned
<1>2. /\ Related' \subseteq A \X B
      /\ \A c \in A, d \in B : <<c, d>> \in Related' <=> IsPair(mapA, mapB, bits', c, d)
  BY <1>1, RelatedPairsNext
<1>3. /\ Related \subseteq A \X B
      /\ \A c \in A, d \in B : <<c, d>> \in Related <=> IsPair(mapA, mapB, bits, c, d)
  BY RelatedPairs
<1>4. /\ width \in Nat /\ Len(bits) \in Nat /\ Distinct(mapA) /\ Distinct(mapB)
      /\ mapA \in Seq(A) /\ mapB \in Seq(B) /\ Len(mapA) \in Nat /\ Len(mapB) \in Nat
      /\ bits \in [1..Len(bits) -> BOOLEAN]
  BY DEF BitsOwned, TypeOK
<1>5. bits' = bits => Related' = Related
  BY <1>2, <1>3
<1>6. CASE /\ a \in RegisteredA /\ b \in RegisteredB /\ InBuffer(a, b)
           /\ bits' = [bits EXCEPT ![CellOf(a, b) + 1] = FALSE]
           /\ answer' = Abstract!Done
  <2>1. PICK j0 \in 1..Len(mapA), k0 \in 1..Len(mapB) : mapA[j0] = a /\ mapB[k0] = b
    BY <1>6 DEF RegisteredA, RegisteredB
  <2>2. Index(mapA, a) = j0 - 1 /\ Index(mapB, b) = k0 - 1
    BY <1>4, <2>1, IndexFacts
  <2> DEFINE c0 == Cell(j0 - 1, k0 - 1)
  <2>3. c0 < Len(bits) /\ InWidth(j0 - 1) /\ bits' = [bits EXCEPT ![c0 + 1] = FALSE]
    BY <1>6, <2>2 DEF InBuffer, CellOf
  <2>4. j0 - 1 \in Nat /\ k0 - 1 \in Nat /\ c0 \in Nat
    <3>1. j0 - 1 \in Nat /\ k0 - 1 \in Nat
      BY <1>4
    <3> QED BY <1>4, <3>1, CellType
  <2>5. Len(bits') = Len(bits)
    BY RemoveBits
  <2>6. c0 + 1 \in 1..Len(bits)
    <3> HIDE DEF c0
    <3> QED BY <1>4, <2>3, <2>4
  <2>7. ~bits'[c0 + 1]
    <3> HIDE DEF c0
    <3> QED BY <1>4, <2>3, <2>6
  <2>8. \A e : e \in 1..Len(bits) /\ e # c0 + 1 => (bits'[e] <=> bits[e])
    <3> HIDE DEF c0
    <3> QED BY <1>4, <2>3
  <2>9. ASSUME NEW c \in A, NEW d \in B
        PROVE  IsPair(mapA, mapB, bits', c, d) <=>
                  IsPair(mapA, mapB, bits, c, d) /\ <<c, d>> # <<a, b>>
    <3>1. ASSUME NEW j \in 1..Len(mapA), NEW k \in 1..Len(mapB),
                 mapA[j] = c, mapB[k] = d, InWidth(j - 1), Cell(j - 1, k - 1) < Len(bits)
          PROVE  /\ <<c, d>> = <<a, b>> => ~bits'[Cell(j - 1, k - 1) + 1]
                 /\ <<c, d>> # <<a, b>> =>
                       (bits'[Cell(j - 1, k - 1) + 1] <=> bits[Cell(j - 1, k - 1) + 1])
      <4>1. j - 1 \in Nat /\ k - 1 \in Nat
        BY <1>4
      <4>2. Cell(j - 1, k - 1) \in Nat
        BY <1>4, <4>1, CellType
      <4>3. CASE <<c, d>> = <<a, b>>
        <5>1. j = j0 /\ k = k0
          BY <1>4, <2>1, <3>1, <4>3 DEF Distinct
        <5> QED BY <2>7, <4>3, <5>1
      <4>4. CASE <<c, d>> # <<a, b>>
        <5>1. Cell(j - 1, k - 1) # c0
          <6> SUFFICES ASSUME Cell(j - 1, k - 1) = c0
                       PROVE  FALSE
            OBVIOUS
          <6>1. j - 1 = j0 - 1 /\ k - 1 = k0 - 1
            BY <1>4, <2>3, <2>4, <3>1, <4>1, CellInjective
          <6>2. j = j0 /\ k = k0
            BY <6>1
          <6> QED BY <2>1, <3>1, <4>4, <6>2
        <5>2. Cell(j - 1, k - 1) + 1 \in 1..Len(bits) /\ Cell(j - 1, k - 1) + 1 # c0 + 1
          <6>1. \A p, q \in Nat : p # q => p + 1 # q + 1
            OBVIOUS
          <6>2. Cell(j - 1, k - 1) + 1 # c0 + 1
            BY <2>4, <4>2, <5>1, <6>1
          <6>3. Cell(j - 1, k - 1) + 1 \in 1..Len(bits)
            BY <1>4, <3>1, <4>2
          <6> QED BY <6>2, <6>3
        <5> QED BY <2>8, <4>4, <5>2
      <4> QED BY <4>3, <4>4
    <3>2. IsPair(mapA, mapB, bits', c, d) =>
             IsPair(mapA, mapB, bits, c, d) /\ <<c, d>> # <<a, b>>
      <4> SUFFICES ASSUME NEW j \in 1..Len(mapA), NEW k \in 1..Len(mapB),
                          mapA[j] = c, mapB[k] = d, InWidth(j - 1),
                          Cell(j - 1, k - 1) < Len(bits), bits'[Cell(j - 1, k - 1) + 1]
                   PROVE  IsPair(mapA, mapB, bits, c, d) /\ <<c, d>> # <<a, b>>
        BY <2>5 DEF IsPair
      <4> QED BY <3>1 DEF IsPair
    <3>3. IsPair(mapA, mapB, bits, c, d) /\ <<c, d>> # <<a, b>> =>
             IsPair(mapA, mapB, bits', c, d)
      BY <2>5, <3>1 DEF IsPair
    <3> QED BY <3>2, <3>3
  <2>10. Related' = Related \ {<<a, b>>}
    BY <1>2, <1>3, <2>9
  <2> QED BY <2>10
<1>7. CASE /\ a \notin RegisteredA \/ b \notin RegisteredB \/ ~InBuffer(a, b)
           /\ bits' = bits
  <2>1. IsPair(mapA, mapB, bits, a, b) =>
           a \in RegisteredA /\ b \in RegisteredB /\ InBuffer(a, b)
    BY <1>4, IndexFacts DEF IsPair, RegisteredA, RegisteredB, InBuffer, CellOf
  <2>2. <<a, b>> \notin Related
    BY <1>3, <1>7, <2>1
  <2> QED BY <1>5, <1>7, <2>2
<1> QED BY <1>6, <1>7 DEF Remove, InBuffer

-----------------------------------------------------------------------------
(* Registering keeps the numbers given before, and gives the next one.     *)
LEMMA NumbersKept ==
  ASSUME BitsOwned, NEW a \in A
  PROVE  /\ \A c \in RegisteredA : Index(Register(mapA, a), c) = Index(mapA, c)
         /\ a \notin RegisteredA =>
              /\ Register(mapA, a) = Append(mapA, a)
              /\ Index(Register(mapA, a), a) = Len(mapA)
<1> DEFINE m == Register(mapA, a)
<1>1. mapA \in Seq(A) /\ Distinct(mapA)
  BY DEF BitsOwned, TypeOK
<1>2. /\ m \in Seq(A) /\ Distinct(m) /\ Len(mapA) <= Len(m)
      /\ \A k \in 1..Len(mapA) : m[k] = mapA[k]
  BY <1>1, RegisterFacts
<1>3. a \notin RegisteredA => m = Append(mapA, a)
  BY DEF Register, RegisteredA
<1> HIDE DEF m
<1>4. ASSUME NEW c \in RegisteredA
      PROVE  Index(m, c) = Index(mapA, c)
  <2>1. PICK k \in 1..Len(mapA) : mapA[k] = c
    BY DEF RegisteredA
  <2>2. k \in 1..Len(m) /\ m[k] = c
    BY <1>1, <1>2, <2>1
  <2>3. Index(mapA, c) = k - 1
    BY <1>1, <2>1, IndexFacts
  <2>4. Index(m, c) = k - 1
    BY <1>2, <2>2, IndexFacts
  <2> QED BY <2>3, <2>4
<1>5. ASSUME a \notin RegisteredA
      PROVE  Index(m, a) = Len(mapA)
  <2>1. Len(m) = Len(mapA) + 1 /\ m[Len(mapA) + 1] = a /\ Len(mapA) \in Nat
    BY <1>1, <1>3, <1>5
  <2> DEFINE k == Len(mapA) + 1
  <2>2. k \in 1..Len(m) /\ m[k] = a /\ k - 1 = Len(mapA)
    BY <2>1
  <2> HIDE DEF k
  <2>3. Index(m, a) = k - 1
    BY <1>2, <2>2, IndexFacts
  <2> QED BY <2>2, <2>3
<1> QED BY <1>3, <1>4, <1>5 DEF m

(* A value is in the width of the table exactly if the abstract one has a  *)
(* column for it.                                                          *)
LEMMA ColumnIs ==
  ASSUME BitsOwned, NEW a \in A
  PROVE  Abstract!HasColumn(a) <=> InWidth(Index(Register(mapA, a), a))
<1>1. CASE a \in RegisteredA
  <2>1. Index(Register(mapA, a), a) = Index(mapA, a)
    BY <1>1, NumbersKept
  <2> QED BY <1>1, <2>1 DEF Abstract!HasColumn, Refused
<1>2. CASE a \notin RegisteredA
  <2>1. Index(Register(mapA, a), a) = Len(mapA)
    BY <1>2, NumbersKept
  <2> QED BY <1>2, <2>1 DEF Abstract!HasColumn, InWidth
<1> QED BY <1>1, <1>2

(* Every operation is an operation of the abstract table. *)
LEMMA InsertRefines ==
  ASSUME BitsOwned, NEW a \in A, NEW b \in B, Insert(a, b)
  PROVE  Abstract!Insert(a, b)
<1>0. /\ mapA' = Register(mapA, a) /\ mapA \in Seq(A) /\ width' = width
      /\ mapB' = Register(mapB, b) /\ mapB \in Seq(B)
  BY DEF Insert, BitsOwned, TypeOK
<1>1. RegisteredA' = RegisteredA \cup {a}
  BY <1>0 DEF RegisteredA, Register
<1>2. RegisteredB' = RegisteredB \cup {b}
  BY <1>0 DEF RegisteredB, Register
<1>3. Len(mapA)' = IF a \in RegisteredA THEN Len(mapA) ELSE Len(mapA) + 1
  BY <1>0 DEF RegisteredA, Register
<1>4. \A c \in RegisteredA : Index(mapA', c) = Index(mapA, c)
  <2>1. \A c \in RegisteredA : Index(Register(mapA, a), c) = Index(mapA, c)
    BY NumbersKept
  <2> QED BY <1>0, <2>1
<1>5. InWidth(Index(mapA', a)) <=> Abstract!HasColumn(a)
  BY <1>0, ColumnIs
<1>6. \A x : InWidth(x)' <=> InWidth(x)
  BY <1>0 DEF InWidth
<1>7. \A c \in RegisteredA : InWidth(Index(mapA', c)) <=> InWidth(Index(mapA, c))
  BY <1>4
<1>8. Refused' = {c \in RegisteredA \cup {a} : ~InWidth(Index(mapA', c))}
  BY <1>0, <1>1 DEF Refused, InWidth
<1>9. Abstract!HasColumn(a) => Refused' = Refused
  <2>1. a \in Refused => a \in RegisteredA
    BY DEF Refused
  <2> QED BY <1>5, <1>7, <1>8, <2>1 DEF Refused
<1>10. ~Abstract!HasColumn(a) => Refused' = Refused \cup {a}
  BY <1>5, <1>7, <1>8 DEF Refused
<1>11. /\ Abstract!HasColumn(a) => answer' = Abstract!Done /\ Related' = Related \cup {<<a, b>>}
       /\ ~Abstract!HasColumn(a) => answer' = Abstract!Failed /\ Related' = Related
  BY InsertRelated, ColumnIs DEF Insert
<1> QED BY <1>0, <1>1, <1>2, <1>3, <1>9, <1>10, <1>11 DEF Abstract!Insert

(* What is known and refused depends on the numbers only.                  *)
LEMMA SameKnown ==
  ASSUME UNCHANGED <<width, mapA, mapB>>
  PROVE  /\ RegisteredA' = RegisteredA /\ RegisteredB' = RegisteredB
         /\ Refused' = Refused /\ Len(mapA)' = Len(mapA)
BY DEF RegisteredA, RegisteredB, Refused, InWidth, Index

(* Remove is a Remove of the abstract table.                               *)
LEMMA RemoveRefines ==
  ASSUME BitsOwned, NEW a \in A, NEW b \in B, Remove(a, b)
  PROVE  Abstract!Remove(a, b)
<1>1. UNCHANGED <<width, mapA, mapB>>
  BY RemoveBits
<1>2. answer' = IF a \in Refused /\ b \in RegisteredB THEN Abstract!Failed ELSE Abstract!Done
  BY DEF Remove, Refused
<1> QED BY <1>1, <1>2, SameKnown, RemoveRelated DEF Abstract!Remove

(* Clear is a Clear of the abstract table.                                 *)
LEMMA ClearRefines == Clear => Abstract!Clear
<1> SUFFICES ASSUME Clear PROVE Abstract!Clear
  OBVIOUS
<1>1. mapA' = <<>> /\ mapB' = <<>> /\ bits' = <<>> /\ answer' = Abstract!Done /\ width' = width
  BY DEF Clear
<1>2. RegisteredA' = {} /\ RegisteredB' = {} /\ Len(mapA)' = 0
  BY <1>1 DEF RegisteredA, RegisteredB
<1>3. Refused' = {}
  BY <1>2 DEF Refused
<1>4. Related' = {}
  BY <1>1 DEF Related
<1> QED BY <1>1, <1>2, <1>3, <1>4 DEF Abstract!Clear

(* The set of related pairs only depends on the table. *)
LEMMA SameTable ==
  ASSUME UNCHANGED <<width, mapA, mapB, bits>>
  PROVE  /\ Related' = Related /\ RegisteredA' = RegisteredA /\ RegisteredB' = RegisteredB
         /\ Refused' = Refused /\ Len(mapA)' = Len(mapA)
<1>1. Related' = Related
  BY DEF Related, IsSet, InWidth, Cell
<1> QED BY <1>1, SameKnown

(* FindWithA returns the relatives, and else only what lies behind the     *)
(* buffer.                                                                 *)
LEMMA FindWithARefines ==
  ASSUME BitsOwned, NEW a \in A, FindWithA(a)
  PROVE  Abstract!FindWithA(a)
<1>1. UNCHANGED <<width, mapA, mapB, bits>>
  BY DEF FindWithA
<1>2. {b \in RegisteredB : <<a, b>> \in Related} = {b \in B : <<a, b>> \in Related}
  <2>1. RegisteredB \subseteq B
    BY DEF RegisteredB, BitsOwned, TypeOK
  <2>2. \A b : <<a, b>> \in Related => b \in RegisteredB
    BY DEF Related, RegisteredB
  <2> QED BY <2>1, <2>2
<1> QED BY <1>1, <1>2, SameTable DEF FindWithA, Abstract!FindWithA

(* FindWithB likewise.                                                     *)
LEMMA FindWithBRefines ==
  ASSUME BitsOwned, NEW b \in B, FindWithB(b)
  PROVE  Abstract!FindWithB(b)
<1>1. UNCHANGED <<width, mapA, mapB, bits>>
  BY DEF FindWithB
<1>2. {a \in RegisteredA : <<a, b>> \in Related} = {a \in A : <<a, b>> \in Related}
  <2>1. RegisteredA \subseteq A
    BY DEF RegisteredA, BitsOwned, TypeOK
  <2>2. \A a : <<a, b>> \in Related => a \in RegisteredA
    BY DEF Related, RegisteredA
  <2> QED BY <2>1, <2>2
<1> QED BY <1>1, <1>2, SameTable DEF FindWithB, Abstract!FindWithB

(* A set bit always belongs to registered values (table.h, Insert, Remove  *)
(* and Clear).                                                             *)
THEOREM TableInvariant == Spec => []BitsOwned
<1>1. Init => BitsOwned
  BY InitOwned
<1>2. BitsOwned /\ [Next]_tableVars => BitsOwned'
  BY NextOwned
<1> QED BY <1>1, <1>2, PTL DEF Spec

(* The table implements the multi-map: its bits are the set of inserted    *)
(* pairs, a retrieval returns the related values and otherwise only what   *)
(* has its cell behind the end of the buffer, and an operation fails where *)
(* it comes by a value beyond the width and nowhere else (table.h, table). *)
THEOREM TableImplementsMultiMap == Spec => Refines
<1>1. Init => Abstract!Init
  <2> SUFFICES ASSUME Init PROVE Abstract!Init
    OBVIOUS
  <2>1. Related = {}
    BY InitOwned
  <2> QED BY <2>1 DEF Init, Abstract!Init, RegisteredA, RegisteredB, Refused
<1>2. BitsOwned /\ [Next]_tableVars => [Abstract!Next]_(Abstract!vars)
  <2> SUFFICES ASSUME BitsOwned, [Next]_tableVars
               PROVE  Abstract!Next \/ UNCHANGED Abstract!vars
    OBVIOUS
  <2>1. CASE \E a \in A, b \in B : Insert(a, b)
    BY <2>1, InsertRefines DEF Abstract!Next
  <2>2. CASE \E a \in A, b \in B : Remove(a, b)
    BY <2>2, RemoveRefines DEF Abstract!Next
  <2>3. CASE Clear
    BY <2>3, ClearRefines DEF Abstract!Next
  <2>4. CASE \E a \in A : FindWithA(a)
    BY <2>4, FindWithARefines DEF Abstract!Next
  <2>5. CASE \E b \in B : FindWithB(b)
    BY <2>5, FindWithBRefines DEF Abstract!Next
  <2>6. CASE UNCHANGED tableVars
    BY <2>6, SameTable DEF tableVars, Abstract!vars
  <2> QED BY <2>1, <2>2, <2>3, <2>4, <2>5, <2>6 DEF Next
<1> QED BY <1>1, <1>2, TableInvariant, PTL DEF Spec, Refines, Abstract!Spec
=============================================================================

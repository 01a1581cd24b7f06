-------------------------- MODULE FieldParse_proofs --------------------------
(***************************************************************************)
(* Proofs about FieldParse and FieldExpand: the types, that a field is     *)
(* told the latest of what it depends on, that the bits of the leaves tile *)
(* the buffer, and that the calls made are the expansion of the grammar.   *)
(*                                                                         *)
(* FieldInv is inductive.  It needs the whole path of the walk: every      *)
(* suspended field is the parent of the next and has a repetition the      *)
(* buffer tells of, else the count of a field would not be defined.        *)
(*                                                                         *)
(* ExpandInv adds what the calls have told: one sequence for each of the   *)
(* suspended fields, how far into which repetition it is, and the same for *)
(* the field at hand.                                                      *)
(***************************************************************************)
EXTENDS FieldExpand, TreeWalk_proofs

Info == [field : Node, number : Nat, max : Nat, offset : Nat, size : Nat]
Data == [number : Nat, max : Nat]
Entry == [info : Info, items : Nat, deps : UNION {[S -> Info] : S \in SUBSET Node}]

(* The walk of ParseField goes in pre-order over the descriptors, and only *)
(* Clear() takes them away.                                                *)
ControlOK ==
  /\ purpose = "each" <=> pc = "idle"
  /\ pc = "idle" => i = 0
  /\ IF purpose = "clear" THEN order = -1 ELSE order = 0
  /\ alive = Node => sub = SubFields
  /\ purpose = "lend" => alive = Node /\ root = Parser
  /\ pc = "past" => i < SubNodeCount(top.node)

(* The suspended fields are combined ones, each the parent of the next.    *)
FieldAt(k) == IF k = Len(stack) THEN top.node ELSE stack[k + 1].node

PathOK ==
  purpose = "lend" =>
     /\ top.node \in Node
     /\ stack = <<>> => top.node = Parser
     /\ stack # <<>> => stack[1].node = Parser
     /\ \A k \in DOMAIN stack :
          /\ stack[k].node \in Node
          /\ stack[k].next \in DOMAIN SubFields[stack[k].node]
          /\ SubFields[stack[k].node][stack[k].next] = FieldAt(k)

(* A field whose sub-fields are being parsed is there, and its data says   *)
(* how often it is.                                                        *)
RepetitionAt(k) == IF k = 1 THEN 1 ELSE data[k - 1].number + 1
Going(f, d, repetition) ==
  /\ repetition \in DOMAIN content[f]
  /\ d.number + 1 <= d.max /\ d.max = content[f][repetition]

DataOK ==
  purpose = "lend" =>
     /\ Len(data) = Len(stack)
     /\ \A k \in DOMAIN stack : Going(stack[k].node, data[k], RepetitionAt(k))
     /\ pc = "past" \/ (i # 0 /\ i < SubNodeCount(top.node))
          => Going(top.node, dataTop, Repetition)

(* Nothing is left for the next parse to find.                             *)
Cleared == pc = "idle" /\ root = Nil /\ alive = Node => backtrace = <<>>

(* The shape of what is kept beside the walk.                              *)
RestOK ==
  /\ dataTop \in Data
  /\ data \in Seq(Data)
  /\ parseOffset \in 0..(OffsetModulus - 1)
  /\ backtrace \in Seq(Info)
  /\ \A k \in DOMAIN backtrace : IsDependent(backtrace[k].field) /\ IsValid(backtrace[k])
  /\ pool \in Nat
  /\ content \in Contents
  /\ emitted \in Seq(Entry)

FieldInv == TypeOK /\ RestOK /\ ControlOK /\ PathOK /\ DataOK /\ Cleared

(* What a description depends on is the newest item of its backtrace.      *)
NewestAt(b, d, k) ==
  /\ k \in DOMAIN b
  /\ b[k].field = d
  /\ \A j \in 1..(k - 1) : b[j].field # d

(* The call number j is the last of n that had the field d, of any size.   *)
Latest(log, d, j, n) ==
  /\ log[j].info.field = d
  /\ log[j].info.size # 0
  /\ \A l \in (j + 1)..n : log[l].info.field = d => log[l].info.size = 0

TraceOK ==
  purpose = "lend" =>
     \A d \in Node : \A k \in DOMAIN backtrace : NewestAt(backtrace, d, k) =>
        \E j \in DOMAIN emitted : /\ emitted[j].info = backtrace[k]
                                  /\ Latest(emitted, d, j, Len(emitted))

LeavesOf(log, n) == {j \in 1..n : IsLeaf(log[j].info.field)}
End(log, n) ==
  IF LeavesOf(log, n) = {} THEN 0 ELSE LeafEnd(log[Max(LeavesOf(log, n))]) % OffsetModulus
OffsetOK == purpose = "lend" => parseOffset = End(emitted, Len(emitted))

-----------------------------------------------------------------------------
(***************************************************************************)
(* Numbers: smallest, largest, and the offsets of the items of a field.    *)
(***************************************************************************)

(* Of numbers up to n there is a largest one. *)
LEMMA Largest ==
  ASSUME NEW n \in Nat, NEW S \in SUBSET (1..n), S # {}
  PROVE  Max(S) \in S /\ \A y \in S : Max(S) >= y
<1> DEFINE HasMax(T) == \E x \in T : \A y \in T : x >= y
           N == {m \in Nat : \A T \in SUBSET (1..m) : T # {} => HasMax(T)}
<1>1. 0 \in N
  <2>1. 1..0 = {}
    OBVIOUS
  <2> QED BY <2>1
<1>2. ASSUME NEW m \in N  PROVE m + 1 \in N
  <2>1. SUFFICES ASSUME NEW T \in SUBSET (1..m + 1), T # {}  PROVE HasMax(T)
    OBVIOUS
  <2>2. m \in Nat /\ \A y \in T : y \in 1..m + 1
    OBVIOUS
  <2>3. CASE m + 1 \in T
    <3>1. \A y \in T : m + 1 >= y
      BY <2>2
    <3> QED BY <2>3, <3>1
  <2>4. CASE m + 1 \notin T
    <3>1. T \in SUBSET (1..m)
      BY <2>2, <2>4
    <3> QED BY <2>1, <3>1
  <2> QED BY <2>3, <2>4
<1> HIDE DEF N
<1>3. N = Nat
  <2>1. N \in SUBSET Nat
    BY DEF N
  <2> QED BY <1>1, <1>2, <2>1, AllNumbers
<1>4. \E x \in S : \A y \in S : x >= y
  BY <1>3 DEF N
<1> QED BY <1>4 DEF Max

-----------------------------------------------------------------------------
(***************************************************************************)
(* Where the items of a leaf begin.                                        *)
(***************************************************************************)
Wrapped(f, offset, count, at) ==
  at = [k \in 1..(count + 1) |->
          IF k = 1 THEN offset
          ELSE (at[k - 1] + FieldSize(f, at[k - 1])) % OffsetModulus]

Plain(f, offset, count, at) ==
  at = [k \in 1..(count + 1) |->
          IF k = 1 THEN offset ELSE at[k - 1] + FieldSize(f, at[k - 1])]

LEMMA WrappedExists ==
  ASSUME NEW f, NEW offset, NEW count \in Nat
  PROVE  \E at : Wrapped(f, offset, count, at)
<1> DEFINE Next1(a) == (a + FieldSize(f, a)) % OffsetModulus
           S == {m \in Nat : \E at : Wrapped(f, offset, m, at)}
<1> HIDE DEF Next1
<1>0. \A m \in Nat : \A at : Wrapped(f, offset, m, at) <=>
        at = [k \in 1..(m + 1) |-> IF k = 1 THEN offset ELSE Next1(at[k - 1])]
  BY Zenon DEF Wrapped, Next1
<1>1. 0 \in S
  <2> DEFINE at == [k \in 1..(0 + 1) |-> offset]
  <2>1. at = [k \in 1..(0 + 1) |-> IF k = 1 THEN offset ELSE Next1(at[k - 1])]
    OBVIOUS
  <2> HIDE DEF at
  <2> QED BY <1>0, <2>1
<1>2. ASSUME NEW m \in S  PROVE m + 1 \in S
  <2>1. PICK q : q = [k \in 1..(m + 1) |-> IF k = 1 THEN offset ELSE Next1(q[k - 1])]
    BY <1>0
  <2> DEFINE at == [k \in 1..(m + 1 + 1) |-> IF k = m + 2 THEN Next1(q[m + 1]) ELSE q[k]]
  <2>2. m \in Nat
    OBVIOUS
  <2>3. ASSUME NEW k \in 1..(m + 1 + 1)
        PROVE  at[k] = IF k = 1 THEN offset ELSE Next1(at[k - 1])
    <3>1. CASE k = m + 2
      <4>1. at[k - 1] = q[m + 1] /\ k # 1 /\ at[k] = Next1(q[m + 1])
        BY <2>2, <3>1
      <4> QED BY <4>1
    <3>2. CASE k # m + 2
      <4>1. k \in 1..(m + 1) /\ at[k] = q[k] /\ (k # 1 => k - 1 \in 1..(m + 1) /\ at[k - 1] = q[k - 1])
        BY <2>2, <3>2
      <4>2. q[k] = IF k = 1 THEN offset ELSE Next1(q[k - 1])
        BY <2>1, <4>1
      <4> QED BY <4>1, <4>2
    <3> QED BY <3>1, <3>2
  <2>4. at = [k \in 1..(m + 1 + 1) |-> at[k]]
    OBVIOUS
  <2> HIDE DEF at
  <2>5. at = [k \in 1..(m + 1 + 1) |-> IF k = 1 THEN offset ELSE Next1(at[k - 1])]
    BY <2>3, <2>4, Zenon
  <2>6. m + 1 \in Nat /\ \E p : Wrapped(f, offset, m + 1, p)
    BY <1>0, <2>2, <2>5
  <2> QED BY <2>6
<1> HIDE DEF S
<1>3. S = Nat
  <2>1. S \in SUBSET Nat
    BY DEF S
  <2> QED BY <1>1, <1>2, <2>1, AllNumbers
<1> QED BY <1>3 DEF S

LEMMA PlainExists ==
  ASSUME NEW f, NEW offset, NEW count \in Nat
  PROVE  \E at : Plain(f, offset, count, at)
<1> DEFINE Next1(a) == a + FieldSize(f, a)
           S == {m \in Nat : \E at : Plain(f, offset, m, at)}
<1> HIDE DEF Next1
<1>0. \A m \in Nat : \A at : Plain(f, offset, m, at) <=>
        at = [k \in 1..(m + 1) |-> IF k = 1 THEN offset ELSE Next1(at[k - 1])]
  BY Zenon DEF Plain, Next1
<1>1. 0 \in S
  <2> DEFINE at == [k \in 1..(0 + 1) |-> offset]
  <2>1. at = [k \in 1..(0 + 1) |-> IF k = 1 THEN offset ELSE Next1(at[k - 1])]
    OBVIOUS
  <2> HIDE DEF at
  <2> QED BY <1>0, <2>1
<1>2. ASSUME NEW m \in S  PROVE m + 1 \in S
  <2>1. PICK q : q = [k \in 1..(m + 1) |-> IF k = 1 THEN offset ELSE Next1(q[k - 1])]
    BY <1>0
  <2> DEFINE at == [k \in 1..(m + 1 + 1) |-> IF k = m + 2 THEN Next1(q[m + 1]) ELSE q[k]]
  <2>2. m \in Nat
    OBVIOUS
  <2>3. ASSUME NEW k \in 1..(m + 1 + 1)
        PROVE  at[k] = IF k = 1 THEN offset ELSE Next1(at[k - 1])
    <3>1. CASE k = m + 2
      <4>1. at[k - 1] = q[m + 1] /\ k # 1 /\ at[k] = Next1(q[m + 1])
        BY <2>2, <3>1
      <4> QED BY <4>1
    <3>2. CASE k # m + 2
      <4>1. k \in 1..(m + 1) /\ at[k] = q[k] /\ (k # 1 => k - 1 \in 1..(m + 1) /\ at[k - 1] = q[k - 1])
        BY <2>2, <3>2
      <4>2. q[k] = IF k = 1 THEN offset ELSE Next1(q[k - 1])
        BY <2>1, <4>1
      <4> QED BY <4>1, <4>2
    <3> QED BY <3>1, <3>2
  <2>4. at = [k \in 1..(m + 1 + 1) |-> at[k]]
    OBVIOUS
  <2> HIDE DEF at
  <2>5. at = [k \in 1..(m + 1 + 1) |-> IF k = 1 THEN offset ELSE Next1(at[k - 1])]
    BY <2>3, <2>4, Zenon
  <2>6. m + 1 \in Nat /\ \E p : Plain(f, offset, m + 1, p)
    BY <1>0, <2>2, <2>5
  <2> QED BY <2>6
<1> HIDE DEF S
<1>3. S = Nat
  <2>1. S \in SUBSET Nat
    BY DEF S
  <2> QED BY <1>1, <1>2, <2>1, AllNumbers
<1> QED BY <1>3 DEF S

LEMMA ItemOffsetIs ==
  ASSUME NEW f, NEW offset, NEW count \in Nat
  PROVE  Wrapped(f, offset, count, ItemOffset(f, offset, count))
<1>1. ItemOffset(f, offset, count) = CHOOSE at : Wrapped(f, offset, count, at)
  BY Zenon DEF ItemOffset, Wrapped
<1> HIDE DEF Wrapped
<1> QED BY <1>1, WrappedExists, Zenon

LEMMA LeafEndIs ==
  ASSUME NEW e, e.items \in Nat
  PROVE  \E at : /\ Plain(e.info.field, e.info.offset, e.items, at)
                 /\ LeafEnd(e) = at[e.items + 1]
<1> DEFINE at == CHOOSE q : Plain(e.info.field, e.info.offset, e.items, q)
<1>1. LeafEnd(e) = at[e.items + 1]
  BY Zenon DEF LeafEnd, Plain
<1>2. Plain(e.info.field, e.info.offset, e.items, at)
  BY PlainExists, Zenon
<1> QED BY <1>1, <1>2

LEMMA SizeType ==
  ASSUME NEW f \in Node, NEW offset \in Nat
  PROVE  FieldSize(f, offset) \in Nat
<1>1. offset % 2 \in 0..1
  OBVIOUS
<1> QED BY <1>1, ParseAssumption DEF FieldSize

LEMMA RemainderIs ==
  ASSUME NEW M \in Nat \ {0}, NEW k \in Int, NEW v \in 0..(M - 1)
  PROVE  (M * k + v) % M = v
<1> DEFINE x == M * k + v
           q == x \div M
           r == x % M
           d == k - q
<1>1. x \in Int /\ q \in Int /\ r \in 0..(M - 1) /\ x = M * q + r
  OBVIOUS
<1>2. M * d = r - v
  BY <1>1
<1> HIDE DEF x, q, r
<1>3. d \in Int /\ M * d < M /\ M * d > 0 - M
  BY <1>1, <1>2
<1> HIDE DEF d
<1>4. d = 0
  <2>1. d >= 1 => M * d >= M
    BY <1>3
  <2>2. d <= -1 => M * d <= 0 - M
    BY <1>3
  <2> QED BY <1>3, <2>1, <2>2
<1>5. r = v
  BY <1>1, <1>2, <1>4
<1> QED BY <1>5 DEF r, x

(* As the modulus is even, wrapping changes no parity and so no size.      *)
LEMMA WrapKeepsSize ==
  ASSUME NEW f \in Node, NEW a \in Nat
  PROVE  /\ a % OffsetModulus \in 0..(OffsetModulus - 1)
         /\ FieldSize(f, a % OffsetModulus) = FieldSize(f, a)
         /\ ((a % OffsetModulus) + FieldSize(f, a)) % OffsetModulus
              = (a + FieldSize(f, a)) % OffsetModulus
<1> DEFINE M == OffsetModulus
           q == a \div M
           h == M \div 2
           s == FieldSize(f, a)
           b == a % M
           p == (b + s) \div M
           v == (b + s) % M
<1>0. M \in Nat \ {0}
  BY ParseAssumption
<1>1. h \in Nat /\ M = 2 * h
  BY ParseAssumption
<1> HIDE DEF h, M
<1>2. q \in Nat /\ b \in 0..(M - 1) /\ a = M * q + b
  BY <1>0
<1> HIDE DEF q, b, s
<1>3. s \in Nat
  BY SizeType DEF s
<1>4. a % 2 = b % 2
  <2> DEFINE t == h * q
  <2>1. t \in Int /\ a = 2 * t + b
    BY <1>1, <1>2
  <2> HIDE DEF t
  <2> QED BY <1>2, <2>1
<1>5. FieldSize(f, b) = s
  BY <1>4 DEF FieldSize, s
<1>6. v \in 0..(M - 1) /\ p \in Int /\ b + s = M * p + v
  BY <1>0, <1>2, <1>3
<1> HIDE DEF p
<1>7. a + s = M * (q + p) + v /\ q + p \in Int
  BY <1>0, <1>2, <1>3, <1>6
<1> HIDE DEF v
<1>8. (a + s) % M = v
  <2> DEFINE k == q + p
  <2>1. (M * k + v) % M = v
    BY <1>0, <1>6, <1>7, RemainderIs
  <2> QED BY <1>7, <2>1
<1> QED BY <1>2, <1>5, <1>8 DEF b, s, v, M

(* The parse goes on behind the last bit of the items, counted modulo.     *)
LEMMA ItemsEnd ==
  ASSUME NEW e, e.items \in Nat, e.info.field \in Node,
         e.info.offset \in 0..(OffsetModulus - 1)
  PROVE  /\ ItemOffset(e.info.field, e.info.offset, e.items)[e.items + 1]
                = LeafEnd(e) % OffsetModulus
         /\ LeafEnd(e) % OffsetModulus \in 0..(OffsetModulus - 1)
<1> DEFINE f == e.info.field
           o == e.info.offset
           n == e.items
           w == ItemOffset(f, o, n)
           S == {m \in Nat : m <= n => TRUE}
<1>0. OffsetModulus \in Nat \ {0}
  BY ParseAssumption
<1>1. PICK p : Plain(f, o, n, p) /\ LeafEnd(e) = p[n + 1]
  BY LeafEndIs
<1>2. /\ w[1] = o
      /\ \A k \in 1..n : w[k + 1] = (w[k] + FieldSize(f, w[k])) % OffsetModulus
  <2>1. Wrapped(f, o, n, w)
    BY ItemOffsetIs
  <2> HIDE DEF w
  <2>2. \A k \in 1..(n + 1) : w[k] = IF k = 1 THEN o
                 ELSE (w[k - 1] + FieldSize(f, w[k - 1])) % OffsetModulus
    BY <2>1, Zenon DEF Wrapped
  <2>3. ASSUME NEW k \in 1..n
        PROVE  w[k + 1] = (w[k] + FieldSize(f, w[k])) % OffsetModulus
    <3> DEFINE j == k + 1
    <3>1. j \in 1..(n + 1) /\ j # 1 /\ j - 1 = k
      OBVIOUS
    <3> HIDE DEF j
    <3>2. w[j] = (w[j - 1] + FieldSize(f, w[j - 1])) % OffsetModulus
      BY <2>2, <3>1
    <3> QED BY <3>1, <3>2 DEF j
  <2> QED BY <2>2, <2>3
<1>3. /\ p[1] = o
      /\ \A k \in 1..n : p[k + 1] = p[k] + FieldSize(f, p[k])
  <2>2. \A k \in 1..(n + 1) : p[k] = IF k = 1 THEN o ELSE p[k - 1] + FieldSize(f, p[k - 1])
    BY <1>1, Zenon DEF Plain
  <2>3. ASSUME NEW k \in 1..n
        PROVE  p[k + 1] = p[k] + FieldSize(f, p[k])
    <3> DEFINE j == k + 1
    <3>1. j \in 1..(n + 1) /\ j # 1 /\ j - 1 = k
      OBVIOUS
    <3> HIDE DEF j
    <3>2. p[j] = p[j - 1] + FieldSize(f, p[j - 1])
      BY <2>2, <3>1
    <3> QED BY <3>1, <3>2 DEF j
  <2> QED BY <2>2, <2>3
<1> DEFINE Same(m) == p[m + 1] \in Nat /\ w[m + 1] = p[m + 1] % OffsetModulus
           N == {m \in Nat : m <= n => Same(m)}
<1>4. f \in Node /\ o \in 0..(OffsetModulus - 1) /\ n \in Nat
  OBVIOUS
<1> HIDE DEF f, o, n, w
<1>5. 0 \in N
  <2>1. o % OffsetModulus = o
    BY <1>0, <1>4
  <2> QED BY <1>0, <1>2, <1>3, <1>4, <2>1
<1>6. ASSUME NEW m \in N  PROVE m + 1 \in N
  <2>1. SUFFICES ASSUME m + 1 <= n  PROVE Same(m + 1)
    OBVIOUS
  <2> DEFINE k == m + 1
  <2>2. m \in Nat /\ k \in 1..n /\ Same(m)
    BY <1>4, <2>1
  <2> DEFINE a == p[k]
  <2>3. a \in Nat /\ w[k] = a % OffsetModulus
    BY <2>2
  <2> HIDE DEF k, N
  <2>4. p[k + 1] = a + FieldSize(f, a)
    BY <1>3, <2>2
  <2>5. w[k + 1] = ((a % OffsetModulus) + FieldSize(f, a % OffsetModulus)) % OffsetModulus
    BY <1>2, <2>2, <2>3
  <2> HIDE DEF a
  <2>6. w[k + 1] = (a + FieldSize(f, a)) % OffsetModulus
    BY <1>4, <2>3, <2>5, WrapKeepsSize
  <2>7. p[k + 1] \in Nat
    BY <1>4, <2>3, <2>4, SizeType
  <2> QED BY <2>4, <2>6, <2>7 DEF k
<1> HIDE DEF N
<1>7. N = Nat
  <2>1. N \in SUBSET Nat
    BY DEF N
  <2> QED BY <1>5, <1>6, <2>1, AllNumbers
<1>8. Same(n)
  <2>1. n \in N /\ n <= n
    BY <1>4, <1>7
  <2> QED BY <2>1 DEF N
<1>9. p[n + 1] % OffsetModulus \in 0..(OffsetModulus - 1)
  BY <1>0, <1>8
<1> QED BY <1>1, <1>8, <1>9 DEF f, o, n, w

-----------------------------------------------------------------------------
(***************************************************************************)
(* Types, and the parse as a walk over the descriptors.                    *)
(***************************************************************************)
LEMMA Appended ==
  ASSUME NEW S, NEW s \in Seq(S), NEW x \in S
  PROVE  /\ Append(s, x) \in Seq(S) /\ Len(s) \in Nat
         /\ DOMAIN s = 1..Len(s)
         /\ Len(Append(s, x)) = Len(s) + 1
         /\ DOMAIN Append(s, x) = 1..(Len(s) + 1)
         /\ \A k \in 1..Len(s) : Append(s, x)[k] = s[k]
         /\ Append(s, x)[Len(s) + 1] = x
OBVIOUS

LEMMA Shortened ==
  ASSUME NEW S, NEW s \in Seq(S), s # <<>>
  PROVE  /\ SubSeq(s, 1, Len(s) - 1) \in Seq(S)
         /\ Front(s) = SubSeq(s, 1, Len(s) - 1)
         /\ Last(s) = s[Len(s)] /\ Last(s) \in S
         /\ Len(s) \in Nat \ {0} /\ DOMAIN s = 1..Len(s)
         /\ Len(Front(s)) = Len(s) - 1
         /\ DOMAIN Front(s) = 1..(Len(s) - 1)
         /\ \A k \in 1..(Len(s) - 1) : Front(s)[k] = s[k] /\ k \in DOMAIN s
<1>1. Len(s) \in Nat \ {0} /\ DOMAIN s = 1..Len(s)
  OBVIOUS
<1> DEFINE n == Len(s)
           t == SubSeq(s, 1, n - 1)
<1>2. t \in Seq(S) /\ Len(t) = n - 1
  BY <1>1
<1>3. \A k \in 1..(n - 1) : t[k] = s[k] /\ k \in DOMAIN s
  BY <1>1
<1>4. DOMAIN t = 1..(n - 1)
  BY <1>2
<1>5. s[n] \in S
  BY <1>1
<1> HIDE DEF n, t
<1> QED BY <1>1, <1>2, <1>3, <1>4, <1>5 DEF n, t, Front, Last

LEMMA Prepended ==
  ASSUME NEW S, NEW s \in Seq(S), NEW x \in S
  PROVE  /\ <<x>> \o s \in Seq(S)
         /\ DOMAIN (<<x>> \o s) = 1..(Len(s) + 1)
         /\ DOMAIN s = 1..Len(s) /\ Len(s) \in Nat
         /\ (<<x>> \o s)[1] = x
         /\ \A k \in 1..Len(s) : (<<x>> \o s)[k + 1] = s[k]
         /\ \A k \in 2..(Len(s) + 1) : (<<x>> \o s)[k] = s[k - 1] /\ k - 1 \in 1..Len(s)
OBVIOUS

(* The field at hand: the repetition of its parent is one the buffer tells *)
(* of.                                                                     *)
LEMMA FieldAtHand ==
  ASSUME FieldInv, purpose = "lend"
  PROVE  /\ top.node \in Node /\ sub = SubFields
         /\ SubNodeCount(top.node) = Len(SubFields[top.node])
         /\ Len(SubFields[top.node]) \in Nat
         /\ Repetition = RepetitionAt(Len(stack) + 1)
         /\ Repetition \in DOMAIN content[top.node]
         /\ FieldCount(top.node) \in Nat
         /\ FieldCount(top.node) = content[top.node][Repetition]
<1> DEFINE f == top.node
           n == Len(stack)
<1>1. /\ f \in Node /\ sub = SubFields /\ SubFields[f] \in Seq(Node)
      /\ content \in Contents /\ content[f] \in Seq(Nat)
      /\ stack \in Seq(StackItem) /\ data \in Seq(Data) /\ Len(data) = n /\ n \in Nat
  <2>1. /\ stack \in Seq(StackItem) /\ data \in Seq(Data) /\ content \in Contents
    BY DEF FieldInv, TypeOK, RestOK
  <2>2. f \in Node /\ sub = SubFields /\ Len(data) = n
    BY DEF FieldInv, ControlOK, PathOK, DataOK
  <2>3. content[f] \in Seq(Nat)
    BY <2>1, <2>2, ContentsAssumption
  <2>4. SubFields[f] \in Seq(Node)
    BY <2>2, ParseAssumption
  <2> QED BY <2>1, <2>2, <2>3, <2>4
<1>2. Repetition = RepetitionAt(n + 1)
  <2>1. data = <<>> <=> n = 0
    BY <1>1
  <2> QED BY <1>1, <2>1 DEF Repetition, RepetitionAt
<1>3. Repetition \in DOMAIN content[f]
  <2>1. CASE n = 0
    <3>1. stack = <<>> /\ f = Parser /\ Repetition = 1
      BY <1>1, <1>2, <2>1 DEF FieldInv, PathOK, RepetitionAt
    <3>2. content[Parser] # <<>>
      BY <1>1, ContentsAssumption
    <3> QED BY <1>1, <3>1, <3>2
  <2>2. CASE n # 0
    <3> DEFINE p == stack[n].node
               r == RepetitionAt(n)
               k == stack[n].next
    <3>1. n \in DOMAIN stack
      BY <1>1, <2>2
    <3>2. p \in Node /\ k \in DOMAIN SubFields[p] /\ SubFields[p][k] = f
      BY <3>1 DEF FieldInv, PathOK, FieldAt
    <3>3. Going(p, data[n], r)
      BY <3>1 DEF FieldInv, DataOK
    <3>4. content[p][r] <= Len(content[f])
      BY <1>1, <3>2, <3>3, ContentsAssumption DEF Going
    <3>5. Repetition = data[n].number + 1 /\ data[n].number \in Nat
      <4>1. n + 1 # 1 /\ n + 1 - 1 = n /\ n \in DOMAIN data
        BY <1>1, <2>2
      <4>2. data[n] \in Data
        BY <1>1, <4>1
      <4>3. RepetitionAt(n + 1) = data[n + 1 - 1].number + 1
        BY <4>1 DEF RepetitionAt
      <4> QED BY <1>2, <4>1, <4>2, <4>3 DEF Data
    <3>6. content[p][r] \in Nat
      BY <1>1, <3>2, <3>3, ContentsAssumption DEF Going
    <3> HIDE DEF p, r, k
    <3>7. Repetition \in 1..Len(content[f])
      <4>1. Len(content[f]) \in Nat
        BY <1>1
      <4>2. data[n].number + 1 <= Len(content[f])
        BY <3>3, <3>4, <3>5, <3>6, <4>1 DEF Going
      <4> QED BY <3>5, <4>1, <4>2
    <3> QED BY <1>1, <3>7
  <2> QED BY <2>1, <2>2
<1> QED BY <1>1, <1>2, <1>3 DEF SubNodeCount, FieldCount

LEMMA InfoType ==
  ASSUME FieldInv, purpose = "lend"
  PROVE  /\ FieldInfo(top.node) \in Info
         /\ FieldInfo(top.node).field = top.node
         /\ FieldInfo(top.node).offset = parseOffset
         /\ parseOffset \in 0..(OffsetModulus - 1)
         /\ Items(top.node) \in Nat
<1>1. dataTop.number \in Nat /\ parseOffset \in 0..(OffsetModulus - 1) /\ parseOffset \in Nat
  BY ParseAssumption DEF FieldInv, RestOK, Data
<1>2. FieldSize(top.node, parseOffset) \in Nat
  BY <1>1, FieldAtHand, SizeType
<1> QED BY <1>1, <1>2, FieldAtHand DEF FieldInfo, Info, Items

LEMMA NewestIs ==
  ASSUME backtrace \in Seq(Info), NEW d
  PROVE  /\ \A k : NewestAt(backtrace, d, k) => Newest(d) = backtrace[k] /\ Traced(d)
         /\ Traced(d) => \E k : NewestAt(backtrace, d, k) /\ Newest(d) = backtrace[k]
                                /\ Newest(d) \in Info
<1>1. DOMAIN backtrace = 1..Len(backtrace) /\ Len(backtrace) \in Nat
  OBVIOUS
<1>2. ASSUME NEW k, NewestAt(backtrace, d, k)
      PROVE  Newest(d) = backtrace[k] /\ Traced(d)
  <2>1. \A l : NewestAt(backtrace, d, l) => l = k
    <3>1. SUFFICES ASSUME NEW l, NewestAt(backtrace, d, l), l # k  PROVE FALSE
      OBVIOUS
    <3>2. k \in 1..Len(backtrace) /\ l \in 1..Len(backtrace)
      BY <1>1, <1>2, <3>1 DEF NewestAt
    <3>3. k \in 1..(l - 1) \/ l \in 1..(k - 1)
      BY <1>1, <3>1, <3>2
    <3> QED BY <1>2, <3>1, <3>3 DEF NewestAt
  <2>2. Newest(d) = backtrace[CHOOSE l \in DOMAIN backtrace :
                               /\ backtrace[l].field = d
                               /\ \A j \in 1..(l - 1) : backtrace[j].field # d]
    BY DEF Newest
  <2>3. (CHOOSE l \in DOMAIN backtrace :
                               /\ backtrace[l].field = d
                               /\ \A j \in 1..(l - 1) : backtrace[j].field # d) = k
    BY <1>2, <2>1 DEF NewestAt
  <2> QED BY <1>2, <2>2, <2>3 DEF Traced, NewestAt
<1>3. ASSUME Traced(d)
      PROVE  \E k : NewestAt(backtrace, d, k)
  <2> DEFINE S == {k \in DOMAIN backtrace : backtrace[k].field = d}
  <2>1. S \in SUBSET Nat /\ S # {}
    BY <1>1, <1>3 DEF Traced
  <2>2. PICK k \in S : \A l \in S : k <= l
    BY <2>1, Smallest
  <2>3. \A j \in 1..(k - 1) : j \in DOMAIN backtrace /\ ~(k <= j)
    BY <1>1, <2>2
  <2> QED BY <2>2, <2>3 DEF NewestAt
<1>4. ASSUME NEW k, NewestAt(backtrace, d, k)  PROVE backtrace[k] \in Info
  BY <1>4 DEF NewestAt
<1> QED BY <1>2, <1>3, <1>4

LEMMA EmitType ==
  ASSUME FieldInv, purpose = "lend", ~BadDependent(top.node), Emit(top.node)
  PROVE  emitted' \in Seq(Entry)
<1> DEFINE f == top.node
           deps == [d \in DependentsOf(f) |-> Newest(d)]
           e == [info |-> FieldInfo(f), items |-> Items(f), deps |-> deps]
<1>1. DependentsOf(f) \in SUBSET Node
  BY DEF DependentsOf
<1>2. \A d \in DependentsOf(f) : Newest(d) \in Info
  BY NewestIs DEF BadDependent, FieldInv, RestOK
<1>3. deps \in [DependentsOf(f) -> Info]
  BY <1>2
<1> HIDE DEF deps
<1>4. deps \in UNION {[S -> Info] : S \in SUBSET Node}
  BY <1>1, <1>3
<1>5. e \in Entry
  BY <1>4, InfoType DEF Entry
<1>6. emitted' = Append(emitted, e)
  BY DEF Emit, deps
<1> HIDE DEF e
<1> QED BY <1>5, <1>6, Appended DEF FieldInv, RestOK

LEMMA CallbackTypes ==
  ASSUME FieldInv, purpose = "lend", NEW r, InvokeCallback(top.node, r)
  PROVE  /\ parseOffset' \in 0..(OffsetModulus - 1)
         /\ backtrace' \in Seq(Info)
         /\ \A k \in DOMAIN backtrace' : IsDependent(backtrace'[k].field) /\ IsValid(backtrace'[k])
         /\ pool' \in Nat
         /\ emitted' \in Seq(Entry)
         /\ r = "negative" => backtrace' = <<>>
         /\ r \in {"zero", "positive", "negative", "throw"}
         /\ r = "zero" => Present(top.node)
<1> DEFINE f == top.node
           info == FieldInfo(f)
<1>1. /\ parseOffset \in 0..(OffsetModulus - 1)
      /\ backtrace \in Seq(Info) /\ pool \in Nat /\ emitted \in Seq(Entry)
      /\ \A k \in DOMAIN backtrace : IsDependent(backtrace[k].field) /\ IsValid(backtrace[k])
  BY DEF FieldInv, RestOK
<1>2. CASE DependentMissing(f, r)
  BY <1>1, <1>2 DEF DependentMissing
<1>3. CASE Absent(f, r)
  BY <1>1, <1>3 DEF Absent
<1>4. CASE Accept(f, r) /\ ~BadDependent(f)
  <2>1. emitted' \in Seq(Entry)
    BY <1>4, EmitType DEF Accept
  <2>2. parseOffset' \in 0..(OffsetModulus - 1)
    <3> DEFINE e == [info |-> info, items |-> Items(f), deps |-> 0]
    <3>1. e.items \in Nat /\ e.info.field \in Node /\ e.info.offset \in 0..(OffsetModulus - 1)
          /\ e.info.field = f /\ e.info.offset = parseOffset /\ e.items = Items(f)
      BY FieldAtHand, InfoType
    <3> HIDE DEF e
    <3>2. ItemOffset(e.info.field, e.info.offset, e.items)[e.items + 1] \in 0..(OffsetModulus - 1)
      BY <3>1, ItemsEnd
    <3> QED BY <1>1, <1>4, <3>1, <3>2 DEF Accept
  <2>3. /\ backtrace' \in Seq(Info) /\ pool' \in Nat
        /\ \A k \in DOMAIN backtrace' : IsDependent(backtrace'[k].field) /\ IsValid(backtrace'[k])
    <3>1. CASE IsDependent(f) /\ IsValid(info)
      <4>1. backtrace' = <<info>> \o backtrace /\ pool' \in Nat
        BY <1>1, <1>4, <3>1 DEF Accept, PushBacktraceItem
      <4>2. info \in Info /\ info.field = f
        BY InfoType
      <4> HIDE DEF info
      <4>3. /\ backtrace' \in Seq(Info) /\ DOMAIN backtrace' = 1..(Len(backtrace) + 1)
            /\ backtrace'[1] = info /\ Len(backtrace) \in Nat /\ DOMAIN backtrace = 1..Len(backtrace)
            /\ \A k \in 2..(Len(backtrace) + 1) : backtrace'[k] = backtrace[k - 1]
                                                  /\ k - 1 \in 1..Len(backtrace)
        BY <1>1, <4>1, <4>2, Prepended
      <4>4. ASSUME NEW k \in DOMAIN backtrace'
            PROVE  IsDependent(backtrace'[k].field) /\ IsValid(backtrace'[k])
        <5>1. k = 1 \/ k \in 2..(Len(backtrace) + 1)
          BY <4>3
        <5> QED BY <1>1, <3>1, <4>2, <4>3, <5>1
      <4> QED BY <4>1, <4>3, <4>4
    <3>2. CASE ~(IsDependent(f) /\ IsValid(info))
      BY <1>1, <1>4, <3>2 DEF Accept, PushBacktraceItem
    <3> QED BY <3>1, <3>2
  <2> QED BY <1>4, <2>1, <2>2, <2>3 DEF Accept
<1>5. CASE Break(f, r) /\ ~BadDependent(f)
  <2>1. emitted' \in Seq(Entry)
    BY <1>5, EmitType DEF Break
  <2>2. backtrace' = <<>> /\ pool' \in Nat /\ DOMAIN backtrace' = {}
    BY <1>1, <1>5 DEF Break, Reset
  <2> QED BY <1>1, <1>5, <2>1, <2>2 DEF Break
<1>6. CASE CallbackThrows(f, r) /\ ~BadDependent(f)
  BY <1>1, <1>6, EmitType DEF CallbackThrows
<1> QED BY <1>2, <1>3, <1>4, <1>5, <1>6 DEF InvokeCallback

-----------------------------------------------------------------------------
(***************************************************************************)
(* The steps of a parse keep FieldInv.                                     *)
(***************************************************************************)
LEMMA ParseInit_Inv == ParseInit => FieldInv
<1> SUFFICES ASSUME ParseInit  PROVE FieldInv
  OBVIOUS
<1> USE DEF ParseInit, Item, NewData
<1>1. content \in Contents
  BY ContentsAssumption
<1>2. sub \in [Node -> Seq(NodeOrNil)]
  BY ParseAssumption DEF NodeOrNil
<1>3. TypeOK
  BY <1>2 DEF TypeOK, NodeOrNil, StackItem
<1>4. RestOK
  BY <1>1, ParseAssumption DEF RestOK, Data
<1>5. ControlOK /\ PathOK /\ DataOK /\ Cleared
  BY DEF ControlOK, PathOK, DataOK, Cleared
<1> QED BY <1>3, <1>4, <1>5 DEF FieldInv

(* A parse that ends, with an exception or without.                        *)
LEMMA EndKeeps ==
  ASSUME FieldInv, purpose = "lend", RestOK',
         pc' = "idle", purpose' = "each", order' = 0, top' = Item(Nil, 0), i' = 0, stale' = 0,
         visited' \in Seq(Node), ignored' \in SUBSET NodeOrNil, stack' \in Seq(StackItem),
         UNCHANGED <<alive, sub>>,
         \/ root' = Nil /\ backtrace' = <<>>
         \/ root' = root
  PROVE  FieldInv'
<1>1. root = Parser /\ Parser # Nil /\ Parser \in Node
  BY ParseAssumption, TreeAssumption DEF FieldInv, ControlOK
<1>2. TypeOK'
  BY <1>1 DEF FieldInv, TypeOK, NodeOrNil, StackItem, Item
<1>3. ControlOK' /\ Cleared'
  BY <1>1 DEF FieldInv, ControlOK, Cleared
<1> QED BY <1>2, <1>3 DEF FieldInv, PathOK, DataOK

(* The parent comes back, at its first sub-field or behind the one parsed. *)
Resumes ==
  /\ stack # <<>>
  /\ \E from \in {0, Last(stack).next} : top' = Item(Last(stack).node, from) /\ i' = from
  /\ stack' = Front(stack)
  /\ pc' = "at"
  /\ UNCHANGED <<root, order, purpose, stale>>

LEMMA PopResumes ==
  ASSUME TypeOK, stack # <<>>, NEW reenter, PopStack(reenter)
  PROVE  Resumes
<1>1. Front(stack) = SubSeq(stack, 1, Len(stack) - 1) /\ Last(stack) = stack[Len(stack)]
  BY DEF Front, Last
<1> DEFINE back == stack[Len(stack)]
           from == IF reenter THEN 0 ELSE back.next
<1>2. /\ stack' = SubSeq(stack, 1, Len(stack) - 1)
      /\ top' = Item(back.node, from)
      /\ i' = from
      /\ pc' = "at"
      /\ UNCHANGED <<root, order, purpose, stale>>
  BY Zenon DEF PopStack
<1>3. from \in {0, back.next}
  OBVIOUS
<1> HIDE DEF back, from
<1> QED BY <1>1, <1>2, <1>3 DEF Resumes, back

LEMMA ResumeKeeps ==
  ASSUME FieldInv, purpose = "lend", RestOK', Resumes, PopData,
         visited' \in Seq(Node), ignored' \in SUBSET NodeOrNil,
         UNCHANGED <<alive, sub, content>>
  PROVE  FieldInv'
<1> DEFINE n == Len(stack)
           p == stack[n].node
<1>1. PICK from \in {0, Last(stack).next} : top' = Item(Last(stack).node, from) /\ i' = from
  BY DEF Resumes
<1>2. /\ stack \in Seq(StackItem) /\ data \in Seq(Data)
      /\ n \in Nat \ {0} /\ Len(data) = n /\ DOMAIN stack = 1..n /\ DOMAIN data = 1..n
      /\ stack # <<>> /\ data # <<>>
      /\ stack' = Front(stack) /\ data' = Front(data) /\ pc' = "at"
      /\ UNCHANGED <<root, order, purpose, stale>>
      /\ stack[n] \in StackItem
  <2>1. stack \in Seq(StackItem) /\ data \in Seq(Data) /\ Len(data) = n /\ stack # <<>>
    BY DEF FieldInv, TypeOK, RestOK, DataOK, Resumes
  <2>2. n \in Nat \ {0} /\ DOMAIN stack = 1..n
    BY <2>1
  <2>3. data # <<>> /\ DOMAIN data = 1..n
    BY <2>1, <2>2
  <2>4. stack[n] \in StackItem
    BY <2>1, <2>2
  <2> QED BY <2>1, <2>2, <2>3, <2>4 DEF Resumes, PopData
<1>3. /\ Last(stack) = stack[n] /\ Last(data) = data[n]
      /\ stack' \in Seq(StackItem) /\ Len(stack') = n - 1 /\ DOMAIN stack' = 1..(n - 1)
      /\ Len(data') = n - 1
      /\ \A k \in 1..(n - 1) : stack'[k] = stack[k] /\ k \in DOMAIN stack
      /\ \A k \in 1..(n - 1) : data'[k] = data[k]
  BY <1>2, Shortened
<1>4. /\ top' = Item(p, from) /\ top'.node = p /\ i' = from
      /\ p \in Node /\ stack[n].next \in Nat /\ stack[n].next # 0
      /\ sub = SubFields
  <2>1. n \in DOMAIN stack
    BY <1>2
  <2>2. p \in Node /\ stack[n].next \in DOMAIN SubFields[p] /\ SubFields[p] \in Seq(Node)
    BY <2>1, ParseAssumption DEF FieldInv, PathOK
  <2> QED BY <1>1, <1>3, <2>2 DEF Item, FieldInv, ControlOK
<1>5. TypeOK'
  <2>1. top' \in StackItem /\ i' \in Nat
    BY <1>1, <1>3, <1>4 DEF Item, StackItem, NodeOrNil
  <2>2. TypeOK
    BY DEF FieldInv
  <2> QED BY <1>2, <1>3, <2>1, <2>2 DEF TypeOK
<1>6. ControlOK' /\ Cleared'
  BY <1>2 DEF FieldInv, ControlOK, Cleared
<1>7. PathOK'
  <2>1. /\ stack' = <<>> => n = 1
        /\ stack' # <<>> => n # 1
    BY <1>2, <1>3
  <2>2. stack[1].node = Parser
    BY <1>2 DEF FieldInv, PathOK
  <2>3. /\ stack' = <<>> => top'.node = Parser
        /\ stack' # <<>> => stack'[1].node = Parser
    <3>1. CASE n = 1
      BY <1>4, <2>1, <2>2, <3>1
    <3>2. CASE n # 1
      <4>1. 1 \in 1..(n - 1)
        BY <1>2, <3>2
      <4> QED BY <1>3, <2>1, <2>2, <3>2, <4>1
    <3> QED BY <3>1, <3>2
  <2>4. ASSUME NEW k \in DOMAIN stack'
        PROVE  /\ stack'[k].node \in Node
               /\ stack'[k].next \in DOMAIN SubFields[stack'[k].node]
               /\ SubFields[stack'[k].node][stack'[k].next] = FieldAt(k)'
    <3>1. k \in DOMAIN stack /\ stack'[k] = stack[k] /\ k # n
      BY <1>2, <1>3
    <3>2. FieldAt(k)' = FieldAt(k)
      <4>1. FieldAt(k) = stack[k + 1].node
        BY <3>1 DEF FieldAt
      <4>2. CASE k = n - 1
        <5>1. FieldAt(k)' = top'.node /\ k + 1 = n
          BY <1>2, <1>3, <4>2 DEF FieldAt
        <5> QED BY <1>4, <4>1, <5>1
      <4>3. CASE k # n - 1
        <5>1. k + 1 \in 1..(n - 1) /\ FieldAt(k)' = stack'[k + 1].node
          BY <1>2, <1>3, <4>3 DEF FieldAt
        <5> QED BY <1>3, <4>1, <5>1
      <4> QED BY <4>2, <4>3
    <3> QED BY <3>1, <3>2 DEF FieldInv, PathOK
  <2> QED BY <1>2, <1>4, <2>3, <2>4 DEF PathOK
<1>8. DataOK'
  <2>1. \A k \in 1..n : RepetitionAt(k)' = RepetitionAt(k)
    <3>1. SUFFICES ASSUME NEW k \in 1..n  PROVE RepetitionAt(k)' = RepetitionAt(k)
      OBVIOUS
    <3>2. k # 1 => k - 1 \in 1..(n - 1)
      BY <1>2
    <3> QED BY <1>3, <3>2 DEF RepetitionAt
  <2>2. ASSUME NEW k \in DOMAIN stack'
        PROVE  Going(stack[k].node, data[k], RepetitionAt(k))'
    <3>1. k \in 1..(n - 1) /\ k \in 1..n /\ k \in DOMAIN stack
      BY <1>2, <1>3
    <3>2. Going(stack[k].node, data[k], RepetitionAt(k))
      BY <3>1 DEF FieldInv, DataOK
    <3> QED BY <1>3, <2>1, <3>1, <3>2 DEF Going
  <2>3. ASSUME i' # 0, i' < SubNodeCount(top.node)'
        PROVE  Going(top.node, dataTop, Repetition)'
    <3>1. i' = stack[n].next
      BY <1>1, <1>3, <2>3
    <3>2. ~RepetitionDone
      BY <1>3, <1>4, <2>3, <3>1 DEF RepetitionDone, SubNodeCount
    <3>3. dataTop' = data[n]
      BY <1>3, <3>2 DEF PopData
    <3>4. Repetition' = RepetitionAt(n)
      <4>1. data' = <<>> <=> n = 1
        BY <1>2, <1>3
      <4>2. Repetition' = IF n = 1 THEN 1 ELSE data'[n - 1].number + 1
        BY <1>2, <1>3, <4>1 DEF Repetition
      <4>3. n # 1 => n - 1 \in 1..(n - 1)
        BY <1>2
      <4> QED BY <1>3, <4>2, <4>3 DEF RepetitionAt
    <3>5. Going(p, data[n], RepetitionAt(n))
      <4>1. n \in DOMAIN stack
        BY <1>2
      <4> QED BY <4>1 DEF FieldInv, DataOK
    <3> QED BY <1>4, <3>3, <3>4, <3>5 DEF Going
  <2> QED BY <1>2, <1>3, <2>2, <2>3 DEF DataOK
<1> QED BY <1>5, <1>6, <1>7, <1>8 DEF FieldInv

(* What invokeCallback leaves, whatever is done with mData. *)
LEMMA RestKept ==
  ASSUME FieldInv, purpose = "lend", NEW r, InvokeCallback(top.node, r),
         dataTop' \in Data, data' \in Seq(Data), UNCHANGED content
  PROVE  RestOK'
BY CallbackTypes DEF FieldInv, RestOK

LEMMA Dropped == ASSUME DropData  PROVE dataTop' \in Data /\ data' \in Seq(Data)
BY DEF DropData, NewData, Data

LEMMA Popped ==
  ASSUME FieldInv, purpose = "lend", stack # <<>>, PopData
  PROVE  dataTop' \in Data /\ data' \in Seq(Data)
<1>1. data \in Seq(Data) /\ data # <<>>
  <2>1. stack \in Seq(StackItem) /\ data \in Seq(Data) /\ Len(data) = Len(stack)
    BY DEF FieldInv, TypeOK, RestOK, DataOK
  <2> QED BY <2>1
<1>2. Last(data) \in Data /\ Front(data) \in Seq(Data)
  BY <1>1, Shortened
<1> HIDE DEF Data
<1>3. dataTop' = Last(data) \/ dataTop' = [Last(data) EXCEPT !.number = @ + 1]
  BY DEF PopData
<1>4. dataTop' \in Data
  BY <1>2, <1>3 DEF Data
<1> QED BY <1>2, <1>4 DEF PopData

(* onTraversal only calls, if the walk is not Clear()'s.                   *)
LEMMA Visited ==
  ASSUME FieldInv, purpose = "lend", OnTraversal
  PROVE  UNCHANGED <<alive, sub>> /\ visited' \in Seq(Node)
BY FieldAtHand, Appended DEF FieldInv, TypeOK, OnTraversal

LEMMA ParseCombinedKeeps ==
  ASSUME FieldInv, purpose = "lend", NEW r, ParseCombined(r)
  PROVE  FieldInv'
<1> DEFINE f == top.node
<1>1. /\ pc = "at" /\ i < SubNodeCount(f) /\ i = order
      /\ OnTraversal /\ InvokeCallback(f, r) /\ UNCHANGED content
  BY DEF ParseCombined, VisitAt
<1>2. UNCHANGED <<alive, sub>> /\ visited' \in Seq(Node)
  BY <1>1, Visited
<1>3. ignored' \in SUBSET NodeOrNil /\ stack \in Seq(StackItem)
  <2>1. ignored' = ignored \/ ignored' = ignored \cup {f}
    BY DEF ParseCombined, VisitAt
  <2> QED BY <2>1, FieldAtHand DEF FieldInv, TypeOK, NodeOrNil
<1>4. CASE r \in {"zero", "positive"}
  <2>1. /\ UNCHANGED <<root, stack, top, order, purpose, stale, data, content>>
        /\ dataTop' = Counted(f)
        /\ \/ r = "zero" /\ pc' = "past" /\ i' = i
           \/ r = "positive" /\ pc' = pc /\ i' = SubNodeCount(f)
    BY <1>4 DEF ParseCombined, VisitAt
  <2>2. /\ f \in Node /\ sub = SubFields /\ SubNodeCount(f) \in Nat
        /\ FieldCount(f) \in Nat /\ FieldCount(f) = content[f][Repetition]
        /\ Repetition \in DOMAIN content[f]
        /\ SubNodeCount(f)' = SubNodeCount(f)
    BY <1>2, <2>1, FieldAtHand DEF SubNodeCount
  <2>3. dataTop \in Data /\ data \in Seq(Data)
    BY DEF FieldInv, RestOK
  <2>4. /\ dataTop' \in Data
        /\ Present(f) => dataTop'.number = dataTop.number /\ dataTop'.max = FieldCount(f)
    <3>1. CASE Present(f)
      BY <2>1, <2>2, <2>3, <3>1 DEF Counted, Data
    <3>2. CASE ~Present(f)
      BY <2>1, <2>3, <3>2 DEF Counted
    <3> QED BY <3>1, <3>2
  <2>5. RestOK'
    BY <1>1, <2>1, <2>3, <2>4, RestKept
  <2>6. TypeOK'
    BY <1>2, <1>3, <2>1, <2>2 DEF FieldInv, TypeOK
  <2>7. ControlOK' /\ Cleared'
    BY <1>1, <1>2, <2>1, <2>2 DEF FieldInv, ControlOK, Cleared
  <2>8. PathOK'
    BY <2>1 DEF FieldInv, PathOK, FieldAt
  <2>9. DataOK'
    <3>1. \A k : RepetitionAt(k)' = RepetitionAt(k)
      BY <2>1 DEF RepetitionAt
    <3>2. ASSUME NEW k \in DOMAIN stack
          PROVE  Going(stack[k].node, data[k], RepetitionAt(k))'
      <4>1. Going(stack[k].node, data[k], RepetitionAt(k))
        BY DEF FieldInv, DataOK
      <4> QED BY <2>1, <3>1, <4>1 DEF Going
    <3>3. ASSUME pc' = "past" \/ (i' # 0 /\ i' < SubNodeCount(top.node)')
          PROVE  Going(top.node, dataTop, Repetition)'
      <4>1. r = "zero"
        <5>1. r = "positive" => pc' = "at" /\ i' = SubNodeCount(f)
          BY <1>1, <2>1
        <5> QED BY <1>4, <2>2, <3>3, <5>1
      <4>2. Present(f)
        BY <1>1, <4>1, CallbackTypes
      <4>3. Repetition' = Repetition
        BY <2>1 DEF Repetition
      <4> QED BY <2>1, <2>2, <2>4, <4>2, <4>3 DEF Going, Present
    <3>4. Len(data)' = Len(stack)'
      BY <2>1 DEF FieldInv, DataOK
    <3> QED BY <2>1, <3>2, <3>3, <3>4 DEF DataOK
  <2> QED BY <2>5, <2>6, <2>7, <2>8, <2>9 DEF FieldInv
<1>5. CASE r \in {"negative", "throw"}
  <2>1. DropData /\ RestOK'
    BY <1>1, <1>5, RestKept, Dropped DEF ParseCombined
  <2>2. CASE r = "negative"
    <3>1. Finish /\ backtrace' = <<>>
      BY <1>1, <2>2, CallbackTypes DEF ParseCombined, VisitAt
    <3>2. root' = Nil
      BY <3>1 DEF Finish
    <3> QED BY <1>2, <1>3, <2>1, <3>1, <3>2, EndKeeps DEF Finish
  <2>3. CASE r = "throw"
    <3>1. Unwind
      BY <2>3 DEF ParseCombined, VisitAt
    <3> QED BY <1>2, <1>3, <2>1, <3>1, EndKeeps DEF Unwind
  <2> QED BY <1>5, <2>2, <2>3
<1> QED BY <1>1, <1>4, <1>5, CallbackTypes

(* The field ParseField is called on has sub-fields, a leaf none. *)
LEMMA LeafBelow ==
  ASSUME FieldInv, purpose = "lend", AtEnd, PostOrder
  PROVE  stack # <<>> /\ IsLeaf(top.node)
<1>1. order = 0 /\ SubNodeCount(top.node) = Len(SubFields[top.node])
      /\ SubFields[top.node] \in Seq(Node)
  BY FieldAtHand, ParseAssumption DEF FieldInv, ControlOK
<1>2. Len(SubFields[top.node]) = 0
  BY <1>1 DEF PostOrder
<1>3. SubFields[top.node] = <<>>
  BY <1>1, <1>2
<1> QED BY <1>3, ParseAssumption DEF FieldInv, PathOK, IsLeaf, IsCombined

LEMMA ParseLeafKeeps ==
  ASSUME FieldInv, purpose = "lend", NEW r, ParseLeaf(r)
  PROVE  FieldInv'
<1>1. /\ AtEnd /\ PostOrder /\ OnTraversal /\ InvokeCallback(top.node, r)
      /\ UNCHANGED content /\ (ignored' = ignored \/ ignored' = ignored \cup {Nil})
  BY DEF ParseLeaf, VisitAndLeave
<1>2. UNCHANGED <<alive, sub>> /\ visited' \in Seq(Node) /\ stack # <<>>
  BY <1>1, Visited, LeafBelow
<1>3. ignored' \in SUBSET NodeOrNil /\ stack \in Seq(StackItem) /\ TypeOK
  BY <1>1 DEF FieldInv, TypeOK, NodeOrNil
<1>4. CASE r \in {"zero", "positive"}
  <2>1. PopStack(r = "positive" \/ Again) /\ PopData
    BY <1>4 DEF ParseLeaf, VisitAndLeave
  <2>2. Resumes
    BY <1>2, <1>3, <2>1, PopResumes
  <2>3. RestOK'
    BY <1>1, <1>2, <2>1, RestKept, Popped
  <2> QED BY <1>1, <1>2, <1>3, <2>1, <2>2, <2>3, ResumeKeeps
<1>5. CASE r \in {"negative", "throw"}
  <2>1. DropData /\ RestOK'
    BY <1>1, <1>5, RestKept, Dropped DEF ParseLeaf
  <2>2. CASE r = "negative"
    <3>1. Finish /\ backtrace' = <<>>
      BY <1>1, <2>2, CallbackTypes DEF ParseLeaf, VisitAndLeave
    <3>2. root' = Nil
      BY <3>1 DEF Finish
    <3> QED BY <1>2, <1>3, <2>1, <3>1, <3>2, EndKeeps DEF Finish
  <2>3. CASE r = "throw"
    <3>1. Unwind
      BY <2>3 DEF ParseLeaf, VisitAndLeave
    <3> QED BY <1>2, <1>3, <2>1, <3>1, EndKeeps DEF Unwind
  <2> QED BY <1>5, <2>2, <2>3
<1> QED BY <1>1, <1>4, <1>5, CallbackTypes

LEMMA NextSubFieldKeeps ==
  ASSUME FieldInv, purpose = "lend", NextSubField
  PROVE  FieldInv'
<1>1. /\ pc = "at" /\ i < SubNodeCount(top.node) /\ i # order /\ pc' = "past"
      /\ UNCHANGED <<alive, sub, root, stack, top, i, order, purpose, visited, ignored, stale>>
      /\ UNCHANGED <<dataTop, data, parseOffset, backtrace, pool, content, emitted>>
  BY DEF NextSubField, PassOrder, nodeVars, parseOnly
<1>2. TypeOK' /\ RestOK'
  BY <1>1 DEF FieldInv, TypeOK, RestOK
<1>3. ControlOK' /\ PathOK' /\ Cleared'
  BY <1>1 DEF FieldInv, ControlOK, PathOK, Cleared, FieldAt, SubNodeCount
<1>4. i # 0
  BY <1>1 DEF FieldInv, ControlOK
<1>5. DataOK'
  BY <1>1, <1>4 DEF FieldInv, DataOK, Going, RepetitionAt, Repetition, SubNodeCount
<1> QED BY <1>2, <1>3, <1>5 DEF FieldInv

LEMMA EnterSubFieldKeeps ==
  ASSUME FieldInv, purpose = "lend", EnterSubField
  PROVE  FieldInv'
<1> DEFINE n == Len(stack)
           f == top.node
           item == Item(f, i + 1)
<1>1. /\ pc = "past" /\ pc' = "at" /\ i' = 0
      /\ stack' = Append(stack, item)
      /\ top' = Item(sub[f][i + 1], 0)
      /\ data' = Append(data, dataTop) /\ dataTop' = NewData
      /\ UNCHANGED <<alive, sub, root, order, purpose, visited, ignored, stale>>
      /\ UNCHANGED <<parseOffset, backtrace, pool, content, emitted>>
  BY DEF EnterSubField, PushStack, nodeVars
<1>2. /\ f \in Node /\ sub = SubFields /\ SubFields[f] \in Seq(Node)
      /\ stack \in Seq(StackItem) /\ data \in Seq(Data) /\ dataTop \in Data
      /\ Len(data) = n /\ n \in Nat /\ i \in Nat /\ i < Len(SubFields[f])
  <2>1. stack \in Seq(StackItem) /\ data \in Seq(Data) /\ dataTop \in Data /\ i \in Nat
    BY DEF FieldInv, TypeOK, RestOK
  <2>2. f \in Node /\ sub = SubFields /\ SubNodeCount(f) = Len(SubFields[f])
    BY FieldAtHand
  <2>3. Len(data) = n /\ i < SubNodeCount(f)
    BY <1>1 DEF FieldInv, DataOK, ControlOK
  <2> QED BY <2>1, <2>2, <2>3, ParseAssumption
<1>3. /\ i + 1 \in DOMAIN SubFields[f] /\ SubFields[f][i + 1] \in Node
      /\ item \in StackItem /\ item.node = f /\ item.next = i + 1
      /\ top'.node = SubFields[f][i + 1]
  <2>1. i + 1 \in DOMAIN SubFields[f]
    BY <1>2
  <2>2. SubFields[f][i + 1] \in Node
    BY <1>2, <2>1
  <2> QED BY <1>1, <1>2, <2>1, <2>2 DEF Item, StackItem, NodeOrNil
<1> HIDE DEF item
<1>4. /\ stack' \in Seq(StackItem) /\ Len(stack') = n + 1 /\ DOMAIN stack' = 1..(n + 1)
      /\ DOMAIN stack = 1..n
      /\ \A k \in 1..n : stack'[k] = stack[k]
      /\ stack'[n + 1] = item
      /\ data' \in Seq(Data) /\ Len(data') = n + 1
      /\ \A k \in 1..n : data'[k] = data[k]
      /\ data'[n + 1] = dataTop
  BY <1>1, <1>2, <1>3, Appended
<1>5. TypeOK'
  BY <1>1, <1>2, <1>3, <1>4 DEF FieldInv, TypeOK, Item, StackItem, NodeOrNil
<1>6. RestOK'
  BY <1>1, <1>4 DEF FieldInv, RestOK, Data, NewData
<1>7. ControlOK' /\ Cleared'
  BY <1>1 DEF FieldInv, ControlOK, Cleared
<1>8. PathOK'
  <2>1. stack' # <<>> /\ stack'[1].node = Parser
    <3>0. stack' # <<>>
      BY <1>2, <1>4
    <3>1. CASE n = 0
      <4>1. stack = <<>> /\ stack'[1] = item
        BY <1>2, <1>4, <3>1
      <4>2. f = Parser
        BY <4>1 DEF FieldInv, PathOK
      <4> QED BY <1>3, <3>0, <4>1, <4>2
    <3>2. CASE n # 0
      <4>1. stack # <<>> /\ 1 \in 1..n
        BY <1>2, <3>2
      <4>2. stack[1].node = Parser
        BY <4>1 DEF FieldInv, PathOK
      <4> QED BY <1>4, <3>0, <4>1, <4>2
    <3> QED BY <3>1, <3>2
  <2>2. ASSUME NEW k \in DOMAIN stack'
        PROVE  /\ stack'[k].node \in Node
               /\ stack'[k].next \in DOMAIN SubFields[stack'[k].node]
               /\ SubFields[stack'[k].node][stack'[k].next] = FieldAt(k)'
    <3>1. CASE k = n + 1
      <4>1. FieldAt(k)' = top'.node /\ stack'[k] = item
        BY <1>4, <3>1 DEF FieldAt
      <4> QED BY <1>2, <1>3, <4>1
    <3>2. CASE k # n + 1
      <4>1. k \in DOMAIN stack /\ stack'[k] = stack[k] /\ k \in 1..n
        BY <1>2, <1>4, <3>2
      <4>2. FieldAt(k)' = FieldAt(k)
        <5>1. CASE k = n
          <6>1. FieldAt(k)' = item.node /\ FieldAt(k) = f
            BY <1>2, <1>4, <5>1 DEF FieldAt
          <6> QED BY <1>3, <6>1
        <5>2. CASE k # n
          <6>1. k + 1 \in 1..n
            BY <1>2, <4>1, <5>2
          <6> QED BY <1>2, <1>4, <5>2, <6>1 DEF FieldAt
        <5> QED BY <5>1, <5>2
      <4> QED BY <4>1, <4>2 DEF FieldInv, PathOK
    <3> QED BY <3>1, <3>2
  <2> QED BY <1>3, <2>1, <2>2 DEF PathOK
<1>9. DataOK'
  <2>1. ASSUME NEW k \in 1..(n + 1)  PROVE RepetitionAt(k)' = RepetitionAt(k)
    <3>1. k # 1 => k - 1 \in 1..n
      BY <1>2
    <3> QED BY <1>4, <3>1 DEF RepetitionAt
  <2>2. ASSUME NEW k \in DOMAIN stack'
        PROVE  Going(stack[k].node, data[k], RepetitionAt(k))'
    <3>1. RepetitionAt(k)' = RepetitionAt(k)
      BY <1>4, <2>1
    <3>2. CASE k = n + 1
      <4>1. Going(f, dataTop, Repetition)
        BY <1>1 DEF FieldInv, DataOK
      <4>2. Repetition = RepetitionAt(n + 1)
        BY FieldAtHand
      <4> QED BY <1>1, <1>3, <1>4, <3>1, <3>2, <4>1, <4>2 DEF Going
    <3>3. CASE k # n + 1
      <4>1. k \in DOMAIN stack /\ k \in 1..n
        BY <1>2, <1>4, <3>3
      <4>2. Going(stack[k].node, data[k], RepetitionAt(k))
        BY <4>1 DEF FieldInv, DataOK
      <4> QED BY <1>1, <1>4, <3>1, <4>1, <4>2 DEF Going
    <3> QED BY <3>2, <3>3
  <2> QED BY <1>1, <1>4, <2>2 DEF DataOK
<1> QED BY <1>5, <1>6, <1>7, <1>8, <1>9 DEF FieldInv

LEMMA LeaveCombinedKeeps ==
  ASSUME FieldInv, purpose = "lend", LeaveCombined
  PROVE  FieldInv'
<1>1. /\ UNCHANGED <<alive, sub, visited, ignored, parseOffset, content, emitted>>
      /\ visited' \in Seq(Node) /\ ignored' \in SUBSET NodeOrNil
      /\ PopStack(Again)
      /\ TypeOK /\ RestOK
  BY DEF LeaveCombined, Leave, FieldInv, TypeOK
<1>2. CASE stack = <<>>
  <2>1. Finish /\ DropData /\ Reset
    BY <1>1, <1>2 DEF LeaveCombined, PopStack
  <2>2. RestOK' /\ backtrace' = <<>>
    BY <1>1, <2>1, Dropped DEF RestOK, Reset
  <2>3. root' = Nil /\ stack' \in Seq(StackItem)
    BY <2>1 DEF Finish
  <2> QED BY <1>1, <2>1, <2>2, <2>3, EndKeeps DEF Finish
<1>3. CASE stack # <<>>
  <2>1. Resumes
    BY <1>1, <1>3, PopResumes
  <2>2. PopData /\ UNCHANGED <<backtrace, pool>>
    BY <1>3 DEF LeaveCombined
  <2>3. RestOK'
    BY <1>1, <1>3, <2>2, Popped DEF RestOK
  <2> QED BY <1>1, <2>1, <2>2, <2>3, ResumeKeeps
<1> QED BY <1>2, <1>3

LEMMA ParseFieldKeeps ==
  ASSUME FieldInv, NEW c \in Contents, ParseField(c)
  PROVE  FieldInv'
<1>1. /\ pc = "idle" /\ root = Nil /\ alive = Node /\ pc' = "at" /\ purpose' = "lend"
      /\ root' = Parser /\ stack' = <<>> /\ top' = Item(Parser, 0)
      /\ visited' = <<>> /\ ignored' = {}
      /\ content' = c /\ parseOffset' = 0 /\ emitted' = <<>> /\ DropData
      /\ UNCHANGED <<alive, sub, i, order, stale, backtrace, pool>>
      /\ TypeOK /\ RestOK /\ ControlOK
  BY DEF ParseField, FieldInv
<1>2. purpose = "each" /\ i = 0 /\ order = 0 /\ sub = SubFields /\ Parser \in Node
  BY <1>1, ParseAssumption DEF ControlOK
<1>3. TypeOK'
  BY <1>1, <1>2 DEF TypeOK, NodeOrNil, StackItem, Item
<1>4. RestOK'
  BY <1>1, Dropped, ParseAssumption DEF RestOK
<1>5. ControlOK' /\ Cleared'
  BY <1>1, <1>2 DEF ControlOK, Cleared
<1>6. PathOK' /\ DataOK'
  BY <1>1, <1>2 DEF PathOK, DataOK, Item, DropData
<1> QED BY <1>3, <1>4, <1>5, <1>6 DEF FieldInv

(* Clear(), as the destructor of the local tree calls it. *)
LEMMA DestructKeeps ==
  ASSUME FieldInv, Destruct
  PROVE  FieldInv'
<1>1. /\ pc = "idle" /\ pc' = "at" /\ purpose' = "clear" /\ order' = -1
      /\ top' = Item(root, 0) /\ i' = 0 /\ visited' = <<>> /\ ignored' = {} /\ stale' = Len(stack)
      /\ UNCHANGED <<alive, sub, root, stack>>
      /\ UNCHANGED <<dataTop, data, parseOffset, backtrace, pool, content, emitted>>
      /\ TypeOK /\ RestOK /\ ControlOK
  BY DEF Destruct, Clear, StartWalk, nodeVars, parseOnly, FieldInv
<1>2. TypeOK'
  BY <1>1 DEF TypeOK, NodeOrNil, StackItem, Item
<1>3. RestOK' /\ ControlOK' /\ PathOK' /\ DataOK' /\ Cleared'
  BY <1>1 DEF RestOK, ControlOK, PathOK, DataOK, Cleared
<1> QED BY <1>2, <1>3 DEF FieldInv

LEMMA DestructStepKeeps ==
  ASSUME FieldInv, DestructStep
  PROVE  FieldInv'
<1> DEFINE f == top.node
<1>1. /\ purpose = "clear" /\ pc # "idle" /\ f \in alive /\ f \in Node
      /\ order = -1 /\ i \in Nat
      /\ UNCHANGED <<dataTop, data, parseOffset, backtrace, pool, content, emitted>>
      /\ TypeOK /\ RestOK /\ ControlOK
      /\ sub[f] \in Seq(NodeOrNil) /\ stack \in Seq(StackItem)
  BY DEF DestructStep, Walk, FieldInv, TypeOK, ControlOK, parseOnly
<1>2. RestOK'
  BY <1>1 DEF RestOK
<1>3. CASE PassOrder
  <2>1. /\ pc' = "past" /\ i < SubNodeCount(f)
        /\ UNCHANGED <<alive, sub, root, stack, top, i, order, purpose, visited, ignored, stale>>
    BY <1>3 DEF PassOrder, nodeVars
  <2>2. TypeOK'
    BY <1>1, <2>1 DEF TypeOK
  <2> QED BY <1>1, <1>2, <2>1, <2>2
          DEF FieldInv, ControlOK, PathOK, DataOK, Cleared, SubNodeCount
<1>4. CASE SkipNull
  <2>1. /\ pc' = "at" /\ i' = i + 1
        /\ UNCHANGED <<alive, sub, root, stack, top, order, purpose, visited, ignored, stale>>
    BY <1>4 DEF SkipNull, nodeVars
  <2>2. TypeOK'
    BY <1>1, <2>1 DEF TypeOK
  <2> QED BY <1>1, <1>2, <2>1, <2>2 DEF FieldInv, ControlOK, PathOK, DataOK, Cleared
<1>5. CASE PushStack
  <2>1. /\ pc = "past" /\ pc' = "at" /\ i' = 0
        /\ stack' = Append(stack, Item(f, i + 1)) /\ top' = Item(sub[f][i + 1], 0)
        /\ UNCHANGED <<alive, sub, root, order, purpose, visited, ignored, stale>>
    BY <1>5 DEF PushStack, nodeVars
  <2>2. i < Len(sub[f])
    BY <1>1, <2>1 DEF ControlOK, SubNodeCount
  <2>3. sub[f][i + 1] \in NodeOrNil
    <3>1. i + 1 \in 1..Len(sub[f])
      BY <1>1, <2>2
    <3> QED BY <1>1, <3>1
  <2>4. Item(f, i + 1) \in StackItem /\ Item(sub[f][i + 1], 0) \in StackItem
    BY <1>1, <2>3 DEF Item, StackItem, NodeOrNil
  <2>5. stack' \in Seq(StackItem)
    BY <1>1, <2>1, <2>4, Appended
  <2>6. TypeOK'
    BY <1>1, <2>1, <2>4, <2>5 DEF TypeOK
  <2> QED BY <1>1, <1>2, <2>1, <2>6 DEF FieldInv, ControlOK, PathOK, DataOK, Cleared
<1>6. ASSUME VisitAndLeave("zero", FALSE)
      PROVE  FieldInv'
  <2>1. /\ visited' = Append(visited, f)
        /\ alive' = alive \ {f} /\ sub' = [sub EXCEPT ![f] = <<>>]
        /\ UNCHANGED ignored /\ PopStack(FALSE)
    BY <1>1, <1>6 DEF VisitAndLeave, OnTraversal
  <2>2. /\ visited' \in Seq(Node) /\ alive' \in SUBSET Node /\ alive' # Node
        /\ sub' \in [Node -> Seq(NodeOrNil)] /\ ignored' \in SUBSET NodeOrNil
    BY <1>1, <2>1, Appended DEF TypeOK
  <2>3. CASE stack = <<>>
    <3>1. Finish
      BY <2>1, <2>3 DEF PopStack
    <3>2. TypeOK'
      <4>1. /\ root' = Nil /\ stack' = <<>> /\ top' = Item(Nil, 0) /\ i' = 0 /\ order' = 0
            /\ stale' = 0 /\ purpose' = "each" /\ pc' = "idle"
        BY <1>1, <3>1 DEF Finish
      <4> QED BY <2>2, <4>1 DEF TypeOK, NodeOrNil, StackItem, Item
    <3> QED BY <1>1, <1>2, <2>2, <3>1, <3>2
            DEF FieldInv, ControlOK, PathOK, DataOK, Cleared, Finish
  <2>4. CASE stack # <<>>
    <3>1. Resumes
      BY <1>1, <2>1, <2>4, PopResumes
    <3>2. Last(stack) \in StackItem /\ Front(stack) \in Seq(StackItem)
      BY <1>1, <2>4, Shortened
    <3>3. /\ top' \in StackItem /\ i' \in Nat /\ stack' \in Seq(StackItem) /\ pc' = "at"
          /\ UNCHANGED <<root, order, purpose, stale>>
      BY <3>1, <3>2 DEF Resumes, StackItem, Item
    <3>4. TypeOK'
      BY <1>1, <2>2, <3>3 DEF TypeOK
    <3> QED BY <1>1, <1>2, <2>2, <3>3, <3>4 DEF FieldInv, ControlOK, PathOK, DataOK, Cleared
  <2> QED BY <2>3, <2>4
<1>7. ASSUME VisitAt("zero")  PROVE FALSE
  BY <1>1, <1>7 DEF VisitAt
<1>8. ~Leave(FALSE)
  BY <1>1 DEF Leave, PostOrder
<1> QED BY <1>1, <1>3, <1>4, <1>5, <1>6, <1>7, <1>8 DEF DestructStep, Walk, CallbackOutcomes, LeaveOutcomes

LEMMA FieldNext == FieldInv /\ [ParseNext]_parseVars => FieldInv'
<1> SUFFICES ASSUME FieldInv, [ParseNext]_parseVars  PROVE FieldInv'
  OBVIOUS
<1>1. ASSUME NEW c \in Contents, ParseField(c)  PROVE FieldInv'
  BY <1>1, ParseFieldKeeps
<1>2. CASE Parse
  BY <1>2, ParseCombinedKeeps, ParseLeafKeeps, NextSubFieldKeeps, EnterSubFieldKeeps,
     LeaveCombinedKeeps DEF Parse
<1>3. CASE Destruct \/ DestructStep
  BY <1>3, DestructKeeps, DestructStepKeeps
<1>4. CASE UNCHANGED parseVars
  <2>1. /\ UNCHANGED <<alive, sub, root, stack, top, i, order, purpose, pc, visited, ignored, stale>>
        /\ UNCHANGED <<dataTop, data, parseOffset, backtrace, pool, content, emitted>>
    BY <1>4 DEF parseVars, vars, nodeVars, walkVars, parseOnly
  <2>2. TypeOK' /\ RestOK'
    BY <2>1 DEF FieldInv, TypeOK, RestOK
  <2>3. ControlOK' /\ PathOK' /\ Cleared'
    BY <2>1 DEF FieldInv, ControlOK, PathOK, Cleared, FieldAt, SubNodeCount
  <2>4. DataOK'
    BY <2>1 DEF FieldInv, DataOK, Going, RepetitionAt, Repetition, SubNodeCount
  <2> QED BY <2>2, <2>3, <2>4 DEF FieldInv
<1> QED BY <1>1, <1>2, <1>3, <1>4 DEF ParseNext

LEMMA FieldInvariance == ParseSpec => []FieldInv
BY ParseInit_Inv, FieldNext, PTL DEF ParseSpec

(* Whatever the tree of descriptors, the buffer and the answers of the     *)
(* callback: mData runs parallel to the stack of the walk, the offset      *)
(* stays within its width and the backtrace holds valid fields that others *)
(* depend on (field_des.cpp, ParseField; field_des.h, onPushStack,         *)
(* afterPopStack).                                                         *)
THEOREM ParseTypeCorrect == ParseSpec => []ParseTypeOK
<1>1. FieldInv => ParseTypeOK
  BY DEF FieldInv, RestOK, DataOK, ParseTypeOK, Data
<1> QED BY <1>1, FieldInvariance, PTL

-----------------------------------------------------------------------------
(***************************************************************************)
(* The log of the calls, and what the next call is told.                   *)
(***************************************************************************)

(* The log grows by the call at hand.                                      *)
LEMMA LogGrows ==
  ASSUME FieldInv, purpose = "lend", ~BadDependent(top.node), Emit(top.node)
  PROVE  \E e \in Entry :
            /\ e.info = FieldInfo(top.node) /\ e.items = Items(top.node)
            /\ DOMAIN e.deps = DependentsOf(top.node)
            /\ \A d \in DependentsOf(top.node) : e.deps[d] = Newest(d)
            /\ emitted' = Append(emitted, e)
            /\ emitted \in Seq(Entry)
<1> DEFINE f == top.node
           deps == [d \in DependentsOf(f) |-> Newest(d)]
           e == [info |-> FieldInfo(f), items |-> Items(f), deps |-> deps]
<1>1. DependentsOf(f) \in SUBSET Node
  BY DEF DependentsOf
<1>2. \A d \in DependentsOf(f) : Newest(d) \in Info
  BY NewestIs DEF BadDependent, FieldInv, RestOK
<1>3. /\ deps \in [DependentsOf(f) -> Info] /\ DOMAIN deps = DependentsOf(f)
      /\ \A d \in DependentsOf(f) : deps[d] = Newest(d)
  BY <1>2
<1> HIDE DEF deps
<1>4. deps \in UNION {[S -> Info] : S \in SUBSET Node}
  BY <1>1, <1>3
<1>5. e \in Entry /\ e.info = FieldInfo(f) /\ e.items = Items(f) /\ e.deps = deps
  BY <1>4, InfoType DEF Entry
<1>6. emitted' = Append(emitted, e)
  BY DEF Emit, deps
<1>7. emitted \in Seq(Entry)
  BY DEF FieldInv, RestOK
<1> HIDE DEF e
<1> QED BY <1>3, <1>5, <1>6, <1>7

LEMMA DependsGrows ==
  ASSUME FieldInv, TraceOK, DependsOnLatest,
         purpose = "lend", ~BadDependent(top.node), Emit(top.node)
  PROVE  DependsOnLatest'
<1> DEFINE f == top.node
           m == Len(emitted)
<1>1. PICK e \in Entry :
        /\ DOMAIN e.deps = DependentsOf(f)
        /\ \A d \in DependentsOf(f) : e.deps[d] = Newest(d)
        /\ emitted' = Append(emitted, e)
        /\ emitted \in Seq(Entry)
  BY LogGrows
<1>2. /\ m \in Nat /\ DOMAIN emitted = 1..m /\ DOMAIN emitted' = 1..(m + 1)
      /\ \A k \in 1..m : emitted'[k] = emitted[k]
      /\ emitted'[m + 1] = e
  BY <1>1, Appended
<1>3. ASSUME NEW k \in DOMAIN emitted', NEW d \in DOMAIN emitted'[k].deps
      PROVE  \E j \in 1..(k - 1) :
                /\ emitted'[j].info = emitted'[k].deps[d]
                /\ emitted'[j].info.field = d
                /\ emitted'[j].info.size # 0
                /\ \A l \in (j + 1)..(k - 1) :
                     emitted'[l].info.field = d => emitted'[l].info.size = 0
  <2>1. CASE k # m + 1
    <3>1. k \in 1..m /\ emitted'[k] = emitted[k]
      BY <1>2, <2>1
    <3>2. PICK j \in 1..(k - 1) :
                /\ emitted[j].info = emitted[k].deps[d]
                /\ emitted[j].info.field = d
                /\ emitted[j].info.size # 0
                /\ \A l \in (j + 1)..(k - 1) :
                     emitted[l].info.field = d => emitted[l].info.size = 0
      BY <1>2, <1>3, <3>1 DEF DependsOnLatest
    <3>3. j \in 1..m /\ \A l \in (j + 1)..(k - 1) : l \in 1..m
      BY <1>2, <3>1
    <3> QED BY <1>2, <3>1, <3>2, <3>3
  <2>2. CASE k = m + 1
    <3>1. d \in DependentsOf(f) /\ d \in Node /\ e.deps[d] = Newest(d) /\ emitted'[k] = e
      BY <1>1, <1>2, <1>3, <2>2 DEF DependentsOf
    <3>2. Traced(d) /\ backtrace \in Seq(Info)
      BY <3>1 DEF BadDependent, FieldInv, RestOK
    <3>3. PICK t : NewestAt(backtrace, d, t) /\ Newest(d) = backtrace[t]
      BY <3>2, NewestIs
    <3>4. PICK j \in DOMAIN emitted :
                emitted[j].info = backtrace[t] /\ Latest(emitted, d, j, m)
      BY <3>1, <3>3 DEF TraceOK, NewestAt
    <3>5. j \in 1..m /\ k - 1 = m /\ \A l \in (j + 1)..m : l \in 1..m
      BY <1>2, <2>2, <3>4
    <3> QED BY <1>2, <3>1, <3>3, <3>4, <3>5 DEF Latest
  <2> QED BY <2>1, <2>2
<1> QED BY <1>3 DEF DependsOnLatest

(* A call that does not itself serve as a dependency leaves the latest one *)
(* of another field, and of its own field if it has no size.               *)
LEMMA LatestStays ==
  ASSUME NEW log \in Seq(Entry), NEW e \in Entry, NEW d, NEW j \in DOMAIN log,
         Latest(log, d, j, Len(log)), e.info.field = d => e.info.size = 0
  PROVE  /\ j \in DOMAIN Append(log, e)
         /\ Append(log, e)[j] = log[j]
         /\ Latest(Append(log, e), d, j, Len(Append(log, e)))
<1> DEFINE m == Len(log)
           new == Append(log, e)
<1>1. /\ m \in Nat /\ DOMAIN log = 1..m /\ DOMAIN new = 1..(m + 1) /\ Len(new) = m + 1
      /\ \A k \in 1..m : new[k] = log[k]
      /\ new[m + 1] = e
  BY Appended
<1>2. \A l \in (j + 1)..(m + 1) : l = m + 1 \/ (l \in (j + 1)..m /\ l \in 1..m)
  BY <1>1
<1> HIDE DEF new
<1> QED BY <1>1, <1>2 DEF Latest

LEMMA TraceGrows ==
  ASSUME FieldInv, TraceOK, purpose = "lend", NEW r, r # "throw", InvokeCallback(top.node, r)
  PROVE  TraceOK'
<1> DEFINE f == top.node
           info == FieldInfo(f)
           Known(b, log) ==
             \A d \in Node : \A k \in DOMAIN b : NewestAt(b, d, k) =>
                \E j \in DOMAIN log : log[j].info = b[k] /\ Latest(log, d, j, Len(log))
<1>1. Known(backtrace, emitted)
  BY DEF TraceOK
<1>2. SUFFICES Known(backtrace', emitted')
  BY DEF TraceOK
<1>3. CASE DependentMissing(f, r) \/ Absent(f, r)
  BY <1>1, <1>3 DEF DependentMissing, Absent
<1>4. ASSUME ~BadDependent(f), Emit(f), backtrace' = backtrace,
             IsDependent(f) => ~IsValid(info)
      PROVE  Known(backtrace', emitted')
  <2>1. PICK e \in Entry :
          e.info = info /\ emitted' = Append(emitted, e) /\ emitted \in Seq(Entry)
    BY <1>4, LogGrows
  <2>2. SUFFICES ASSUME NEW d \in Node, NEW k \in DOMAIN backtrace, NewestAt(backtrace, d, k)
                 PROVE  \E j \in DOMAIN emitted' :
                           /\ emitted'[j].info = backtrace[k]
                           /\ Latest(emitted', d, j, Len(emitted'))
    BY <1>4
  <2>3. PICK j \in DOMAIN emitted :
          emitted[j].info = backtrace[k] /\ Latest(emitted, d, j, Len(emitted))
    BY <1>1, <2>2
  <2>4. IsDependent(d)
    BY <2>2 DEF FieldInv, RestOK, NewestAt
  <2>5. e.info.field = d => e.info.size = 0
    BY <1>4, <2>1, <2>4, InfoType DEF IsValid
  <2> QED BY <2>1, <2>3, <2>5, LatestStays
<1>5. ASSUME ~BadDependent(f), Emit(f), IsValid(info), backtrace' = <<info>> \o backtrace
      PROVE  Known(backtrace', emitted')
  <2>1. PICK e \in Entry :
          e.info = info /\ emitted' = Append(emitted, e) /\ emitted \in Seq(Entry)
    BY <1>5, LogGrows
  <2>2. info \in Info /\ info.field = f /\ backtrace \in Seq(Info)
    BY InfoType DEF FieldInv, RestOK
  <2> HIDE DEF info
  <2> DEFINE n == Len(backtrace)
             m == Len(emitted)
  <2>3. /\ DOMAIN backtrace' = 1..(n + 1) /\ DOMAIN backtrace = 1..n /\ n \in Nat
        /\ backtrace'[1] = info
        /\ \A k \in 1..n : backtrace'[k + 1] = backtrace[k]
        /\ \A k \in 2..(n + 1) : backtrace'[k] = backtrace[k - 1] /\ k - 1 \in 1..n
    BY <1>5, <2>2, Prepended
  <2>4. /\ m \in Nat /\ DOMAIN emitted' = 1..(m + 1) /\ Len(emitted') = m + 1
        /\ emitted'[m + 1] = e
    BY <2>1, Appended
  <2>5. SUFFICES ASSUME NEW d \in Node, NEW k \in DOMAIN backtrace', NewestAt(backtrace', d, k)
                 PROVE  \E j \in DOMAIN emitted' :
                           /\ emitted'[j].info = backtrace'[k]
                           /\ Latest(emitted', d, j, Len(emitted'))
    OBVIOUS
  <2>6. CASE k = 1
    <3>1. backtrace'[k] = info /\ d = f
      BY <2>2, <2>3, <2>5, <2>6 DEF NewestAt
    <3>2. m + 1 \in DOMAIN emitted' /\ emitted'[m + 1].info = info
      BY <2>1, <2>4
    <3>3. \A l \in (m + 1 + 1)..(m + 1) : FALSE
      BY <2>4
    <3>4. Latest(emitted', d, m + 1, m + 1)
      BY <1>5, <2>2, <3>1, <3>2, <3>3 DEF Latest, IsValid
    <3> QED BY <2>4, <3>1, <3>2, <3>4
  <2>7. CASE k # 1
    <3>1. k \in 2..(n + 1)
      BY <2>3, <2>5, <2>7
    <3>2. backtrace'[k] = backtrace[k - 1] /\ k - 1 \in DOMAIN backtrace
      BY <2>3, <3>1
    <3>3. f # d
      <4>1. 1 \in 1..(k - 1)
        BY <3>1
      <4> QED BY <2>2, <2>3, <2>5, <4>1 DEF NewestAt
    <3>4. ASSUME NEW l \in 1..(k - 1 - 1)  PROVE backtrace[l].field # d
      <4>1. l \in 1..n /\ l + 1 \in 1..(k - 1)
        BY <2>3, <3>1
      <4> QED BY <2>3, <2>5, <4>1 DEF NewestAt
    <3>5. NewestAt(backtrace, d, k - 1)
      BY <2>5, <3>2, <3>4 DEF NewestAt
    <3>6. PICK j \in DOMAIN emitted :
            emitted[j].info = backtrace[k - 1] /\ Latest(emitted, d, j, Len(emitted))
      BY <1>1, <3>2, <3>5
    <3> QED BY <2>1, <2>2, <3>2, <3>3, <3>6, LatestStays
  <2> QED BY <2>6, <2>7
<1>6. CASE ~BadDependent(f) /\ Accept(f, r)
  BY <1>4, <1>5, <1>6 DEF Accept, PushBacktraceItem
<1>7. CASE ~BadDependent(f) /\ Break(f, r)
  <2>1. backtrace' = <<>>
    BY <1>7 DEF Break, Reset
  <2> QED BY <2>1
<1> QED BY <1>3, <1>6, <1>7 DEF InvokeCallback, CallbackThrows

(* The calls of the callback are all that the log is made of.              *)
LEMMA CallbackLogs ==
  ASSUME FieldInv, purpose = "lend", NEW r, InvokeCallback(top.node, r)
  PROVE  UNCHANGED emitted \/ (~BadDependent(top.node) /\ Emit(top.node))
BY DEF InvokeCallback, DependentMissing, Absent, Accept, Break, CallbackThrows

(* No step of the walk that ends a parse leaves it going on.               *)
LEMMA ParseOver ==
  ASSUME FieldInv, DestructStep
  PROVE  purpose' # "lend"
<1>1. purpose = "clear" /\ Walk
  BY DEF DestructStep
<1>2. Finish \/ Unwind => purpose' = "each"
  BY DEF Finish, Unwind
<1>3. ASSUME NEW reenter, PopStack(reenter)  PROVE purpose' # "lend"
  <2>1. CASE stack = <<>>
    BY <1>2, <1>3, <2>1 DEF PopStack
  <2>2. CASE stack # <<>>
    <3>1. Resumes
      BY <1>3, <2>2, PopResumes DEF FieldInv
    <3> QED BY <1>1, <3>1 DEF Resumes
  <2> QED BY <2>1, <2>2
<1> QED BY <1>1, <1>2, <1>3
        DEF Walk, VisitAt, VisitAndLeave, Leave, PassOrder, SkipNull, PushStack

(* What a step of ParseField does to the log and to what goes with it.     *)
LEMMA ParseStep ==
  ASSUME FieldInv, [ParseNext]_parseVars
  PROVE  \/ /\ emitted' = <<>> /\ backtrace' = <<>> /\ parseOffset' = 0
         \/ /\ purpose = "lend"
            /\ \E r : /\ InvokeCallback(top.node, r)
                      /\ r \in {"negative", "throw"} => purpose' # "lend"
         \/ /\ UNCHANGED <<emitted, parseOffset>>
            /\ purpose' = "lend" => purpose = "lend" /\ UNCHANGED backtrace
<1>1. ASSUME NEW c \in Contents, ParseField(c)
      PROVE  emitted' = <<>> /\ backtrace' = <<>> /\ parseOffset' = 0
  BY <1>1 DEF ParseField, FieldInv, Cleared
<1>2. ASSUME purpose = "lend", NEW r, ParseCombined(r) \/ ParseLeaf(r)
      PROVE  InvokeCallback(top.node, r) /\ (r \in {"negative", "throw"} => purpose' # "lend")
  BY <1>2 DEF ParseCombined, ParseLeaf, VisitAt, VisitAndLeave, Finish, Unwind
<1>3. ASSUME purpose = "lend", NextSubField \/ EnterSubField
      PROVE  UNCHANGED <<emitted, parseOffset, backtrace>>
  BY <1>3 DEF NextSubField, EnterSubField, parseOnly
<1>4. ASSUME purpose = "lend", LeaveCombined
      PROVE  /\ UNCHANGED <<emitted, parseOffset>>
             /\ purpose' = "lend" => UNCHANGED backtrace
  <2>1. CASE stack = <<>>
    BY <1>4, <2>1 DEF LeaveCombined, Leave, PopStack, Finish
  <2>2. CASE stack # <<>>
    BY <1>4, <2>2 DEF LeaveCombined
  <2> QED BY <2>1, <2>2
<1>5. ASSUME Destruct \/ DestructStep
      PROVE  UNCHANGED <<emitted, parseOffset>> /\ purpose' # "lend"
  <2>1. UNCHANGED <<emitted, parseOffset>>
    BY <1>5 DEF Destruct, DestructStep, parseOnly
  <2>2. CASE Destruct
    BY <2>1, <2>2 DEF Destruct, Clear, StartWalk
  <2> QED BY <1>5, <2>1, <2>2, ParseOver
<1>6. CASE UNCHANGED parseVars
  BY <1>6 DEF parseVars, parseOnly, vars, nodeVars, walkVars
<1>7. CASE Parse
  BY <1>2, <1>3, <1>4, <1>7 DEF Parse
<1> QED BY <1>1, <1>5, <1>6, <1>7 DEF ParseNext

DependInv == FieldInv /\ TraceOK /\ DependsOnLatest

LEMMA DependNext == DependInv /\ [ParseNext]_parseVars => DependInv'
<1> SUFFICES ASSUME DependInv, [ParseNext]_parseVars  PROVE TraceOK' /\ DependsOnLatest'
  BY FieldNext DEF DependInv
<1>1. FieldInv /\ TraceOK /\ DependsOnLatest
  BY DEF DependInv
<1>2. CASE emitted' = <<>> /\ backtrace' = <<>>
  BY <1>2 DEF TraceOK, DependsOnLatest
<1>3. ASSUME purpose = "lend", NEW r, InvokeCallback(top.node, r),
             r \in {"negative", "throw"} => purpose' # "lend"
      PROVE  TraceOK' /\ DependsOnLatest'
  <2>1. DependsOnLatest'
    <3>1. CASE UNCHANGED emitted
      BY <1>1, <3>1 DEF DependsOnLatest
    <3> QED BY <1>1, <1>3, <3>1, CallbackLogs, DependsGrows
  <2>2. r = "throw" => purpose' # "lend"
    BY <1>3
  <2>3. CASE r # "throw"
    BY <1>1, <1>3, <2>1, <2>3, TraceGrows
  <2> QED BY <2>1, <2>2, <2>3 DEF TraceOK
<1>4. CASE /\ UNCHANGED emitted
           /\ purpose' = "lend" => purpose = "lend" /\ UNCHANGED backtrace
  BY <1>1, <1>4 DEF TraceOK, DependsOnLatest
<1>5. CASE /\ purpose = "lend"
           /\ \E r : /\ InvokeCallback(top.node, r)
                     /\ r \in {"negative", "throw"} => purpose' # "lend"
  BY <1>3, <1>5
<1> QED BY <1>1, <1>2, <1>4, <1>5, ParseStep

(* Whatever the tree of descriptors, the dependencies among its fields,    *)
(* the buffer and the answers of the callback: what FieldCount() and       *)
(* FieldSize() of a field are told of a field it depends on is what the    *)
(* callback was told last of that field in this parse (field_des.cpp,      *)
(* findDepFieldInfo, PushBacktraceItem; field_des.h, getDepFieldInfo).     *)
THEOREM LatestServes == ParseSpec => []DependsOnLatest
<1>1. ParseInit => DependInv
  BY ParseInit_Inv DEF ParseInit, DependInv, TraceOK, DependsOnLatest
<1>2. DependInv => DependsOnLatest
  BY DEF DependInv
<1> QED BY <1>1, <1>2, DependNext, PTL DEF ParseSpec

-----------------------------------------------------------------------------
(***************************************************************************)
(* The offsets of the calls.                                               *)
(***************************************************************************)
LEMMA EndGrows ==
  ASSUME NEW log \in Seq(Entry), NEW e \in Entry
  PROVE  /\ \A n \in 0..Len(log) : End(Append(log, e), n) = End(log, n)
         /\ End(Append(log, e), Len(log) + 1)
              = IF IsLeaf(e.info.field) THEN LeafEnd(e) % OffsetModulus ELSE End(log, Len(log))
<1> DEFINE m == Len(log)
           new == Append(log, e)
<1>1. /\ m \in Nat
      /\ \A k \in 1..m : new[k] = log[k]
      /\ new[m + 1] = e
  BY Appended
<1> HIDE DEF new
<1>2. ASSUME NEW n \in 0..m  PROVE End(new, n) = End(log, n)
  <2>1. LeavesOf(new, n) = LeavesOf(log, n)
    BY <1>1 DEF LeavesOf
  <2>2. CASE LeavesOf(log, n) = {}
    BY <2>1, <2>2 DEF End
  <2>3. CASE LeavesOf(log, n) # {}
    <3>1. n \in Nat /\ LeavesOf(log, n) \in SUBSET (1..n)
      BY <1>1 DEF LeavesOf
    <3>2. Max(LeavesOf(log, n)) \in 1..n
      BY <2>3, <3>1, Largest
    <3>3. new[Max(LeavesOf(log, n))] = log[Max(LeavesOf(log, n))]
      BY <1>1, <3>2
    <3> QED BY <2>1, <3>3 DEF End
  <2> QED BY <2>2, <2>3
<1>3. CASE IsLeaf(e.info.field)
  <2>1. m + 1 \in LeavesOf(new, m + 1) /\ LeavesOf(new, m + 1) \in SUBSET (1..(m + 1))
    BY <1>1, <1>3 DEF LeavesOf
  <2> DEFINE S == LeavesOf(new, m + 1)
  <2> HIDE DEF S
  <2>2. m + 1 \in Nat /\ m + 1 \in S /\ S \in SUBSET (1..(m + 1)) /\ S # {}
    BY <1>1, <2>1 DEF S
  <2>3. /\ Max(S) \in 1..(m + 1)
        /\ Max(S) >= m + 1
    BY <2>2, Largest
  <2>4. Max(LeavesOf(new, m + 1)) = m + 1
    BY <1>1, <2>3 DEF S
  <2>5. End(new, m + 1) = LeafEnd(new[m + 1]) % OffsetModulus
    BY <2>1, <2>4 DEF End
  <2> QED BY <1>1, <1>2, <1>3, <2>5 DEF new
<1>4. CASE ~IsLeaf(e.info.field)
  <2>1. LeavesOf(new, m + 1) = LeavesOf(new, m)
    <3>1. \A k \in 1..(m + 1) : k = m + 1 \/ k \in 1..m
      BY <1>1
    <3>2. \A k \in 1..m : k \in 1..(m + 1)
      BY <1>1
    <3>3. \A k \in 1..(m + 1) : IsLeaf(new[k].info.field) => k \in 1..m
      BY <1>1, <1>4, <3>1
    <3> QED BY <3>2, <3>3 DEF LeavesOf
  <2>2. End(new, m + 1) = End(new, m)
    BY <2>1 DEF End
  <2>3. m \in 0..m
    BY <1>1
  <2>4. End(new, m + 1) = End(log, m)
    BY <1>2, <2>2, <2>3
  <2> QED BY <1>2, <1>4, <2>4 DEF new
<1> QED BY <1>3, <1>4

(* The offset a call is told and the end of the leaves told of before.     *)
Tiled(log) == \A k \in DOMAIN log : log[k].info.offset = End(log, k - 1)

LEMMA TiledIs == OffsetsTile <=> Tiled(emitted)
BY DEF OffsetsTile, Tiled, End, LeavesOf

TileInv == FieldInv /\ OffsetOK /\ Tiled(emitted)

LEMMA TilesGrow ==
  ASSUME TileInv, purpose = "lend", ~BadDependent(top.node), Emit(top.node)
  PROVE  /\ Tiled(emitted')
         /\ \E e : /\ e.items = Items(top.node) /\ e.info = FieldInfo(top.node)
                   /\ End(emitted', Len(emitted'))
                        = IF IsLeaf(top.node) THEN LeafEnd(e) % OffsetModulus ELSE parseOffset
<1> DEFINE f == top.node
           m == Len(emitted)
<1>1. PICK e \in Entry :
        /\ e.info = FieldInfo(f) /\ e.items = Items(f)
        /\ emitted' = Append(emitted, e)
        /\ emitted \in Seq(Entry)
  BY LogGrows DEF TileInv
<1>2. /\ m \in Nat /\ DOMAIN emitted = 1..m /\ DOMAIN emitted' = 1..(m + 1)
      /\ Len(emitted') = m + 1
      /\ \A k \in 1..m : emitted'[k] = emitted[k]
      /\ emitted'[m + 1] = e
  BY <1>1, Appended
<1>3. e.info.field = f /\ e.info.offset = parseOffset
  BY <1>1, InfoType DEF TileInv
<1>4. parseOffset = End(emitted, m)
  BY DEF TileInv, OffsetOK
<1>5. /\ \A n \in 0..m : End(emitted', n) = End(emitted, n)
      /\ End(emitted', m + 1)
           = IF IsLeaf(f) THEN LeafEnd(e) % OffsetModulus ELSE End(emitted, m)
  BY <1>1, <1>3, EndGrows
<1>6. ASSUME NEW k \in DOMAIN emitted'
      PROVE  emitted'[k].info.offset = End(emitted', k - 1)
  <2>1. CASE k = m + 1
    <3>1. k - 1 = m /\ m \in 0..m
      BY <1>2, <2>1
    <3> QED BY <1>2, <1>3, <1>4, <1>5, <2>1, <3>1
  <2>2. CASE k # m + 1
    <3>1. k \in DOMAIN emitted /\ k - 1 \in 0..m /\ emitted'[k] = emitted[k]
      BY <1>2, <2>2
    <3>2. emitted[k].info.offset = End(emitted, k - 1)
      BY <3>1 DEF TileInv, Tiled
    <3> QED BY <1>5, <3>1, <3>2
  <2> QED BY <2>1, <2>2
<1> QED BY <1>1, <1>2, <1>4, <1>5, <1>6 DEF Tiled

LEMMA TileNext == TileInv /\ [ParseNext]_parseVars => TileInv'
<1> SUFFICES ASSUME TileInv, [ParseNext]_parseVars  PROVE OffsetOK' /\ Tiled(emitted')
  BY FieldNext DEF TileInv
<1>1. FieldInv /\ OffsetOK /\ Tiled(emitted)
  BY DEF TileInv
<1>2. CASE emitted' = <<>> /\ parseOffset' = 0
  <2>1. LeavesOf(emitted', 0) = {} /\ Len(emitted') = 0
    BY <1>2 DEF LeavesOf
  <2>2. Tiled(emitted')
    BY <1>2 DEF Tiled
  <2> QED BY <1>2, <2>1, <2>2 DEF OffsetOK, End
<1>3. ASSUME purpose = "lend", NEW r, InvokeCallback(top.node, r),
             r \in {"negative", "throw"} => purpose' # "lend"
      PROVE  OffsetOK' /\ Tiled(emitted')
  <2> DEFINE f == top.node
  <2>1. CASE Absent(f, r) \/ DependentMissing(f, r)
    BY <1>1, <1>3, <2>1 DEF Absent, DependentMissing, OffsetOK
  <2>2. ASSUME ~BadDependent(f), Emit(f)
        PROVE  Tiled(emitted')
    BY <1>3, <2>2, TilesGrow
  <2>3. ASSUME ~BadDependent(f), Break(f, r) \/ CallbackThrows(f, r)
        PROVE  OffsetOK' /\ Tiled(emitted')
    <3>1. Emit(f) /\ purpose' # "lend"
      BY <1>3, <2>3 DEF Break, CallbackThrows
    <3> QED BY <2>2, <2>3, <3>1 DEF OffsetOK
  <2>4. ASSUME ~BadDependent(f), Accept(f, r)
        PROVE  OffsetOK' /\ Tiled(emitted')
    <3>1. /\ Emit(f)
          /\ parseOffset' = IF IsLeaf(f)
                            THEN ItemOffset(f, parseOffset, Items(f))[Items(f) + 1]
                            ELSE parseOffset
      BY <2>4 DEF Accept
    <3>2. PICK e :
            /\ e.items = Items(f) /\ e.info = FieldInfo(f)
            /\ End(emitted', Len(emitted'))
                 = IF IsLeaf(f) THEN LeafEnd(e) % OffsetModulus ELSE parseOffset
      BY <1>3, <2>4, <3>1, TilesGrow
    <3>3. /\ e.items \in Nat /\ e.info.field = f /\ f \in Node
          /\ e.info.offset = parseOffset /\ parseOffset \in 0..(OffsetModulus - 1)
      BY <1>1, <1>3, <3>2, FieldAtHand, InfoType
    <3>4. ItemOffset(f, parseOffset, Items(f))[Items(f) + 1] = LeafEnd(e) % OffsetModulus
      BY <3>2, <3>3, ItemsEnd
    <3>5. parseOffset' = End(emitted', Len(emitted'))
      BY <3>1, <3>2, <3>4
    <3> QED BY <2>2, <2>4, <3>1, <3>5 DEF OffsetOK
  <2> QED BY <1>3, <2>1, <2>3, <2>4 DEF InvokeCallback
<1>4. CASE /\ UNCHANGED <<emitted, parseOffset>>
           /\ purpose' = "lend" => purpose = "lend" /\ UNCHANGED backtrace
  BY <1>1, <1>4 DEF OffsetOK
<1>5. CASE /\ purpose = "lend"
           /\ \E r : /\ InvokeCallback(top.node, r)
                     /\ r \in {"negative", "throw"} => purpose' # "lend"
  BY <1>3, <1>5
<1> QED BY <1>1, <1>2, <1>4, <1>5, ParseStep

(* Whatever the tree of descriptors, the sizes of the items and the counts *)
(* in the buffer: every callback is told the offset right behind the last  *)
(* bit of the leaves told of before it, modulo the width of mParseOffset   *)
(* (field_des.cpp, invokeCallback and ParseField).                         *)
THEOREM LeavesTile == ParseSpec => []OffsetsTile
<1>1. ParseInit => TileInv
  <2> SUFFICES ASSUME ParseInit  PROVE TileInv
    OBVIOUS
  <2>1. emitted = <<>> /\ purpose = "each" /\ FieldInv
    BY ParseInit_Inv DEF ParseInit
  <2> QED BY <2>1 DEF TileInv, OffsetOK, Tiled
<1>2. TileInv => OffsetsTile
  BY TiledIs DEF TileInv
<1> QED BY <1>1, <1>2, TileNext, PTL DEF ParseSpec

-----------------------------------------------------------------------------
(***************************************************************************)
(* The expansion of a field: of its sub-fields in one repetition, up to    *)
(* one of them, and of its first repetitions.                              *)
(***************************************************************************)

(* What a Callback call is told, of the three the expansion speaks of. *)
Piece == Node \X Nat \X Nat

(* The first j sub-fields in the n-th repetition, the repetition up to     *)
(* them, and the first m repetitions.                                      *)
Subs(e, f, n, j) == FlattenSeq([k \in 1..j |-> e[SubFields[f][k]][n]])
Round(e, f, c, n, j) == << <<f, n, c>> >> \o Subs(e, f, n, j)
Rounds(e, f, c, m) ==
  FlattenSeq([n \in 1..m |-> << <<f, n, c>> >> \o SubExpansion(e, f, n)])

(* The expansions of the sub-fields are known for the n-th repetition. *)
Known(e, f, n) == \A k \in 1..Len(SubFields[f]) : e[SubFields[f][k]][n] \in Seq(Piece)
KnownTo(e, f, m) == \A n \in 1..m : Known(e, f, n)

(* The expansions of the first sub-fields, one by one. *)
LEMMA SubsSeq ==
  ASSUME NEW f \in Node, NEW e, NEW n, Known(e, f, n), NEW j \in 0..Len(SubFields[f])
  PROVE  /\ [k \in 1..j |-> e[SubFields[f][k]][n]] \in Seq(Seq(Piece))
         /\ Len([k \in 1..j |-> e[SubFields[f][k]][n]]) = j
<1> DEFINE q == [k \in 1..j |-> e[SubFields[f][k]][n]]
<1>1. SubFields[f] \in Seq(Node) /\ Len(SubFields[f]) \in Nat /\ j \in Nat
  BY ParseAssumption
<1>2. \A k \in 1..j : q[k] \in Seq(Piece)
  <2>1. \A k \in 1..j : k \in 1..Len(SubFields[f])
    BY <1>1
  <2> QED BY <2>1 DEF Known
<1>3. q \in [1..j -> Seq(Piece)]
  <2>1. DOMAIN q = 1..j /\ q = [k \in 1..j |-> q[k]]
    OBVIOUS
  <2> HIDE DEF q
  <2> QED BY <1>2, <2>1
<1> HIDE DEF q
<1> QED BY <1>1, <1>3 DEF q

(* Together they are calls, too. *)
LEMMA SubsType ==
  ASSUME NEW f \in Node, NEW e, NEW n, Known(e, f, n), NEW j \in 0..Len(SubFields[f])
  PROVE  Subs(e, f, n, j) \in Seq(Piece)
BY SubsSeq, FlattenType DEF Subs

(* No sub-field, no call. *)
LEMMA SubsNone == ASSUME NEW f, NEW e, NEW n  PROVE Subs(e, f, n, 0) = <<>>
<1>1. [k \in 1..0 |-> e[SubFields[f][k]][n]] = <<>>
  OBVIOUS
<1> QED BY <1>1, FlattenEmpty DEF Subs

(* One sub-field more is one expansion more. *)
LEMMA SubsNext ==
  ASSUME NEW f \in Node, NEW e, NEW n, Known(e, f, n), NEW j \in Nat, j < Len(SubFields[f])
  PROVE  Subs(e, f, n, j + 1) = Subs(e, f, n, j) \o e[SubFields[f][j + 1]][n]
<1> DEFINE q == [k \in 1..j |-> e[SubFields[f][k]][n]]
           l == j + 1
           r == [k \in 1..l |-> e[SubFields[f][k]][n]]
<1>1. j \in 0..Len(SubFields[f]) /\ l \in 0..Len(SubFields[f])
  BY ParseAssumption
<1>2. q \in Seq(Seq(Piece)) /\ Len(q) = j
  BY <1>1, SubsSeq
<1>3. r \in Seq(Seq(Piece)) /\ Len(r) = l
  <2> HIDE DEF l
  <2> QED BY <1>1, SubsSeq
<1>4. \A k \in 1..Len(q) : q[k] = r[k]
  BY <1>2
<1>5. r[Len(r)] = e[SubFields[f][j + 1]][n]
  BY <1>3
<1>6. Len(r) = Len(q) + 1
  BY <1>2, <1>3
<1>7. Subs(e, f, n, j) = FlattenSeq(q) /\ Subs(e, f, n, j + 1) = FlattenSeq(r)
  BY DEF Subs
<1> HIDE DEF q, r, l
<1>8. FlattenSeq(r) = FlattenSeq(q) \o r[Len(r)]
  BY <1>2, <1>3, <1>4, <1>6, FlattenNext
<1> QED BY <1>5, <1>7, <1>8

(* All sub-fields. *)
LEMMA SubsAll ==
  ASSUME NEW f \in Node, NEW e, NEW n
  PROVE  Subs(e, f, n, Len(SubFields[f])) = SubExpansion(e, f, n)
<1>1. DOMAIN SubFields[f] = 1..Len(SubFields[f])
  BY ParseAssumption
<1> QED BY <1>1 DEF Subs, SubExpansion

(* A repetition, up to any of its sub-fields, is a sequence of calls. *)
LEMMA RoundType ==
  ASSUME NEW f \in Node, NEW e, NEW c \in Nat, NEW n \in Nat, Known(e, f, n),
         NEW j \in 0..Len(SubFields[f])
  PROVE  << <<f, n, c>> >> \in Seq(Piece) /\ Round(e, f, c, n, j) \in Seq(Piece)
<1>1. << <<f, n, c>> >> \in Seq(Piece)
  BY DEF Piece
<1> QED BY <1>1, SubsType, ConcatProperties DEF Round

(* It starts with the call of the field itself. *)
LEMMA RoundFirst ==
  ASSUME NEW f \in Node, NEW e, NEW c \in Nat, NEW n \in Nat
  PROVE  Round(e, f, c, n, 0) = << <<f, n, c>> >>
<1>1. << <<f, n, c>> >> \in Seq(Piece)
  BY DEF Piece
<1> QED BY <1>1, SubsNone, ConcatEmptySeq DEF Round

(* Every sub-field adds its expansion to it. *)
LEMMA RoundNext ==
  ASSUME NEW f \in Node, NEW e, NEW c \in Nat, NEW n \in Nat, Known(e, f, n),
         NEW j \in Nat, j < Len(SubFields[f])
  PROVE  Round(e, f, c, n, j + 1) = Round(e, f, c, n, j) \o e[SubFields[f][j + 1]][n]
<1> DEFINE h == << <<f, n, c>> >>
           u == Subs(e, f, n, j)
           v == e[SubFields[f][j + 1]][n]
<1>0. Len(SubFields[f]) \in Nat /\ j \in 0..Len(SubFields[f]) /\ j + 1 \in 1..Len(SubFields[f])
  <2>1. SubFields[f] \in Seq(Node)
    BY ParseAssumption
  <2>2. Len(SubFields[f]) \in Nat
    BY <2>1
  <2> QED BY <2>2
<1>1. h \in Seq(Piece) /\ u \in Seq(Piece) /\ v \in Seq(Piece)
  <2>1. v \in Seq(Piece)
    BY <1>0 DEF Known
  <2> QED BY <1>0, <2>1, SubsType, RoundType
<1>2. Subs(e, f, n, j + 1) = u \o v
  BY SubsNext
<1>3. Round(e, f, c, n, j + 1) = h \o (u \o v) /\ Round(e, f, c, n, j) = h \o u
  BY <1>2 DEF Round
<1> HIDE DEF h, u, v
<1>4. (h \o u) \o v = h \o (u \o v)
  BY ONLY <1>1, ConcatAssociative
<1> QED BY <1>3, <1>4 DEF v

(* The repetitions of a field, one by one. *)
LEMMA RoundsSeq ==
  ASSUME NEW f \in Node, NEW e, NEW c \in Nat, NEW m \in Nat, KnownTo(e, f, m)
  PROVE  /\ [n \in 1..m |-> << <<f, n, c>> >> \o SubExpansion(e, f, n)] \in Seq(Seq(Piece))
         /\ Len([n \in 1..m |-> << <<f, n, c>> >> \o SubExpansion(e, f, n)]) = m
<1> DEFINE q == [n \in 1..m |-> << <<f, n, c>> >> \o SubExpansion(e, f, n)]
<1>1. ASSUME NEW n \in 1..m  PROVE q[n] \in Seq(Piece)
  <2>1. n \in Nat /\ Known(e, f, n) /\ Len(SubFields[f]) \in 0..Len(SubFields[f])
    BY ParseAssumption DEF KnownTo
  <2>2. Round(e, f, c, n, Len(SubFields[f])) \in Seq(Piece)
    BY <2>1, RoundType
  <2> QED BY <2>2, SubsAll DEF Round
<1>2. q \in [1..m -> Seq(Piece)]
  <2>1. DOMAIN q = 1..m /\ q = [k \in 1..m |-> q[k]]
    OBVIOUS
  <2> HIDE DEF q
  <2> QED BY <1>1, <2>1
<1> HIDE DEF q
<1> QED BY <1>2 DEF q

(* Together they are calls, too. *)
LEMMA RoundsType ==
  ASSUME NEW f \in Node, NEW e, NEW c \in Nat, NEW m \in Nat, KnownTo(e, f, m)
  PROVE  Rounds(e, f, c, m) \in Seq(Piece)
BY RoundsSeq, FlattenType DEF Rounds

(* No repetition, no call. *)
LEMMA RoundsNone == ASSUME NEW f, NEW e, NEW c  PROVE Rounds(e, f, c, 0) = <<>>
<1>1. [n \in 1..0 |-> << <<f, n, c>> >> \o SubExpansion(e, f, n)] = <<>>
  OBVIOUS
<1> QED BY <1>1, FlattenEmpty DEF Rounds

(* A repetition with all its sub-fields is one more. *)
LEMMA RoundsNext ==
  ASSUME NEW f \in Node, NEW e, NEW c \in Nat, NEW m \in Nat, KnownTo(e, f, m + 1)
  PROVE  Rounds(e, f, c, m + 1) = Rounds(e, f, c, m) \o Round(e, f, c, m + 1, Len(SubFields[f]))
<1> DEFINE q == [n \in 1..m |-> << <<f, n, c>> >> \o SubExpansion(e, f, n)]
           l == m + 1
           r == [n \in 1..l |-> << <<f, n, c>> >> \o SubExpansion(e, f, n)]
<1>1. l \in Nat /\ KnownTo(e, f, l) /\ KnownTo(e, f, m)
  BY DEF KnownTo
<1>2. q \in Seq(Seq(Piece)) /\ Len(q) = m
  BY <1>1, RoundsSeq
<1>3. r \in Seq(Seq(Piece)) /\ Len(r) = l
  <2> HIDE DEF l
  <2> QED BY <1>1, RoundsSeq
<1>4. \A k \in 1..Len(q) : q[k] = r[k]
  BY <1>2
<1>5. r[Len(r)] = Round(e, f, c, m + 1, Len(SubFields[f]))
  <2>1. r[Len(r)] = << <<f, l, c>> >> \o SubExpansion(e, f, l)
    BY <1>1, <1>3
  <2>2. SubExpansion(e, f, l) = Subs(e, f, l, Len(SubFields[f]))
    BY SubsAll
  <2> QED BY <2>1, <2>2 DEF Round
<1>6. Len(r) = Len(q) + 1
  BY <1>2, <1>3
<1>7. Rounds(e, f, c, m) = FlattenSeq(q) /\ Rounds(e, f, c, m + 1) = FlattenSeq(r)
  BY DEF Rounds
<1> HIDE DEF q, r, l
<1>8. FlattenSeq(r) = FlattenSeq(q) \o r[Len(r)]
  BY <1>2, <1>3, <1>4, <1>6, FlattenNext
<1> QED BY <1>5, <1>7, <1>8

-----------------------------------------------------------------------------
(***************************************************************************)
(* The recursive definition has one solution on every description without  *)
(* a circle, and it is made of sequences of calls.                         *)
(***************************************************************************)

(* x gives what the recursive definition does for the fields of S, in the  *)
(* buffer b, and these are sequences of calls.                             *)
Expands(b, x, S) ==
  \A g \in S : x[g] = [n \in DOMAIN b[g] |-> Expansion(x, g, b[g][n])]
Calling(b, x, S) == \A g \in S : \A n \in DOMAIN b[g] : x[g][n] \in Seq(Piece)

(* No field leads out of S. *)
Inside(S) == \A g \in S : \A k \in 1..Len(SubFields[g]) : SubFields[g][k] \in S

(* x and y agree on the sub-fields of f. *)
SameBelow(x, y, f) == \A k \in 1..Len(SubFields[f]) : x[SubFields[f][k]] = y[SubFields[f][k]]

(* The sub-fields of a field are fields. *)
LEMMA SubFieldsType ==
  ASSUME NEW f \in Node
  PROVE  /\ SubFields[f] \in Seq(Node) /\ Len(SubFields[f]) \in Nat
         /\ DOMAIN SubFields[f] = 1..Len(SubFields[f])
         /\ \A k \in 1..Len(SubFields[f]) : SubFields[f][k] \in Node
<1>1. SubFields[f] \in Seq(Node)
  BY ParseAssumption
<1> QED BY <1>1

(* Only the sub-fields matter. *)
LEMMA ExpansionEq ==
  ASSUME NEW f \in Node, NEW x, NEW y, SameBelow(x, y, f), NEW c
  PROVE  Expansion(x, f, c) = Expansion(y, f, c)
<1>1. \A k \in DOMAIN SubFields[f] : x[SubFields[f][k]] = y[SubFields[f][k]]
  BY SubFieldsType DEF SameBelow
<1>2. \A n : SubExpansion(x, f, n) = SubExpansion(y, f, n)
  <2> TAKE n
  <2>1. [k \in DOMAIN SubFields[f] |-> x[SubFields[f][k]][n]]
          = [k \in DOMAIN SubFields[f] |-> y[SubFields[f][k]][n]]
    BY <1>1
  <2> QED BY <2>1 DEF SubExpansion
<1>3. [n \in 1..c |-> << <<f, n, c>> >> \o SubExpansion(x, f, n)]
        = [n \in 1..c |-> << <<f, n, c>> >> \o SubExpansion(y, f, n)]
  BY <1>2
<1> QED BY <1>3 DEF Expansion

(* An expansion is a sequence of calls, if those of the sub-fields are. *)
LEMMA ExpansionType ==
  ASSUME NEW f \in Node, NEW x, NEW c \in Nat, KnownTo(x, f, c)
  PROVE  Expansion(x, f, c) \in Seq(Piece)
<1>1. Rounds(x, f, c, c) \in Seq(Piece)
  BY RoundsType
<1>2. << <<f, 1, c>> >> \in Seq(Piece) /\ <<>> \in Seq(Piece)
  BY DEF Piece
<1> QED BY <1>1, <1>2 DEF Expansion, Rounds

(* A buffer tells of the sub-fields for every repetition of a field. *)
LEMMA BufferTells ==
  ASSUME NEW b \in Contents, NEW f \in Node, NEW r \in DOMAIN b[f]
  PROVE  /\ b[f][r] \in Nat
         /\ \A n \in 1..b[f][r] : \A k \in 1..Len(SubFields[f]) : n \in DOMAIN b[SubFields[f][k]]
<1>1. \A g \in Node : b[g] \in Seq(Nat)
  BY ContentsAssumption
<1>2. b[f][r] \in Nat
  BY <1>1
<1>3. \A k \in 1..Len(SubFields[f]) : b[f][r] <= Len(b[SubFields[f][k]])
  BY SubFieldsType, ContentsAssumption
<1>4. ASSUME NEW n \in 1..b[f][r], NEW k \in 1..Len(SubFields[f])
      PROVE  n \in DOMAIN b[SubFields[f][k]]
  <2>1. b[SubFields[f][k]] \in Seq(Nat)
    BY <1>1, SubFieldsType
  <2>2. b[f][r] <= Len(b[SubFields[f][k]])
    BY <1>3
  <2> HIDE DEF Inside
  <2> DEFINE s == b[SubFields[f][k]]
             t == b[f][r]
  <2>3. s \in Seq(Nat) /\ t \in Nat /\ t <= Len(s) /\ n \in 1..t
    BY <1>2, <2>1, <2>2
  <2> HIDE DEF s, t
  <2>4. n \in DOMAIN s
    BY <2>3
  <2> QED BY <2>4 DEF s
<1> QED BY <1>2, <1>4

(* So their expansions are known for every repetition of the field. *)
LEMMA CallingKnown ==
  ASSUME NEW b \in Contents, NEW f \in Node, NEW r \in DOMAIN b[f], NEW x, NEW S,
         Calling(b, x, S), \A k \in 1..Len(SubFields[f]) : SubFields[f][k] \in S
  PROVE  KnownTo(x, f, b[f][r])
BY BufferTells DEF Calling, KnownTo, Known

(* There is at most one solution. *)
LEMMA ExpandsUnique ==
  ASSUME Founded(SubFields), NEW b, NEW S \in SUBSET Node, Inside(S), NEW x, NEW y,
         Expands(b, x, S), Expands(b, y, S)
  PROVE  \A g \in S : x[g] = y[g]
<1> DEFINE D == {g \in S : x[g] # y[g]}
<1>1. SUFFICES ASSUME D # {}  PROVE FALSE
  OBVIOUS
<1>2. PICK g \in D : \A k \in 1..Len(SubFields[g]) : SubFields[g][k] \notin D
  <2>1. D \in SUBSET Node
    OBVIOUS
  <2> HIDE DEF D
  <2> QED BY <1>1, <2>1 DEF Founded
<1>3. g \in Node /\ g \in S /\ x[g] # y[g]
  OBVIOUS
<1>4. SameBelow(x, y, g)
  BY <1>2, <1>3 DEF Inside, SameBelow
<1>5. \A c : Expansion(x, g, c) = Expansion(y, g, c)
  <2> HIDE DEF D
  <2> QED BY <1>3, <1>4, ExpansionEq
<1>6. [n \in DOMAIN b[g] |-> Expansion(x, g, b[g][n])]
        = [n \in DOMAIN b[g] |-> Expansion(y, g, b[g][n])]
  BY <1>5
<1>7. /\ x[g] = [n \in DOMAIN b[g] |-> Expansion(x, g, b[g][n])]
      /\ y[g] = [n \in DOMAIN b[g] |-> Expansion(y, g, b[g][n])]
  BY <1>3 DEF Expands
<1> QED BY <1>3, <1>6, <1>7

(* The expansion of f in every repetition the buffer b tells of.           *)
ExpansionsOf(b, x, f) == [n \in DOMAIN b[f] |-> Expansion(x, f, b[f][n])]

(* Only the sub-fields matter, in whatever repetition. *)
LEMMA ExpansionsEq ==
  ASSUME NEW b, NEW f \in Node, NEW x, NEW y, SameBelow(x, y, f)
  PROVE  ExpansionsOf(b, x, f) = ExpansionsOf(b, y, f)
<1>1. \A c : Expansion(x, f, c) = Expansion(y, f, c)
  BY ExpansionEq
<1> QED BY <1>1 DEF ExpansionsOf

(* On descriptions without a circle the recursion can be solved: if the    *)
(* fields for which it can left one out, there were one whose sub-fields   *)
(* are all among them, and it could be added.                              *)
LEMMA ExpandsExists ==
  ASSUME Founded(SubFields), NEW b \in Contents
  PROVE  \E x : DOMAIN x = Node /\ Expands(b, x, Node) /\ Calling(b, x, Node)
<1> DEFINE Sound(S, x) == Inside(S) /\ Expands(b, x, S) /\ Calling(b, x, S)
           Has(g) == \E S \in SUBSET Node : g \in S /\ \E x : Sound(S, x)
           C == {g \in Node : Has(g)}
           Of(g) == CHOOSE v : \E S \in SUBSET Node : g \in S /\ \E x : Sound(S, x) /\ v = x[g]
           h == [g \in Node |-> IF g \in C THEN Of(g) ELSE ExpansionsOf(b, [m \in C |-> Of(m)], g)]
(* The solutions agree, so that there is a common one. *)
<1>1. ASSUME NEW S \in SUBSET Node, NEW x, Sound(S, x), NEW g \in S
      PROVE  g \in C /\ h[g] = x[g]
  <2>1. g \in Node /\ g \in C
    BY <1>1
  <2>2. \E v : \E R \in SUBSET Node : g \in R /\ \E y : Sound(R, y) /\ v = y[g]
    BY <1>1
  <2>3. PICK R, y : R \in SUBSET Node /\ g \in R /\ Sound(R, y) /\ Of(g) = y[g]
    <3> HIDE DEF Sound
    <3> QED BY <2>2
  <2>4. Inside(R \cap S)
    BY <1>1, <2>3 DEF Inside
  <2>5. Expands(b, y, R \cap S) /\ Expands(b, x, R \cap S)
    BY <1>1, <2>3 DEF Expands
  <2> DEFINE Q == R \cap S
  <2>6. Q \in SUBSET Node /\ g \in Q
    BY <2>3
  <2>7. y[g] = x[g]
    <3> HIDE DEF Q
    <3>1. Inside(Q) /\ Expands(b, y, Q) /\ Expands(b, x, Q)
      BY <2>4, <2>5 DEF Q
    <3> QED BY <2>6, <3>1, ExpandsUnique
  <2>8. h[g] = Of(g)
    <3> HIDE DEF C, Of
    <3> QED BY <2>1
  <2> QED BY <2>1, <2>3, <2>7, <2>8
<1>2. Inside(C)
  <2> SUFFICES ASSUME NEW g \in C, NEW k \in 1..Len(SubFields[g])
               PROVE  SubFields[g][k] \in C
    <3> HIDE DEF C
    <3> QED BY DEF Inside
  <2>1. PICK S, x : S \in SUBSET Node /\ g \in S /\ Sound(S, x)
    <3> HIDE DEF Sound
    <3> QED OBVIOUS
  <2>2. SubFields[g][k] \in S
    BY <2>1 DEF Inside
  <2> HIDE DEF Sound, C
  <2> QED BY <2>1, <2>2, <1>1
<1>3. \A g \in C : /\ h[g] = ExpansionsOf(b, h, g)
                   /\ \A n \in DOMAIN b[g] : h[g][n] \in Seq(Piece)
  <2> TAKE g \in C
  <2>1. PICK S, x : S \in SUBSET Node /\ g \in S /\ Sound(S, x)
    <3> HIDE DEF Sound
    <3> QED OBVIOUS
  <2>2. \A m \in S : h[m] = x[m]
    <3> HIDE DEF Sound, C, h
    <3> QED BY <1>1, <2>1
  <2>3. x[g] = ExpansionsOf(b, x, g) /\ g \in Node /\ \A n \in DOMAIN b[g] : x[g][n] \in Seq(Piece)
    BY <2>1 DEF Expands, Calling, ExpansionsOf
  <2>4. SameBelow(x, h, g)
    <3> HIDE DEF h
    <3> QED BY <2>1, <2>2 DEF Inside, SameBelow
  <2>5. ExpansionsOf(b, x, g) = ExpansionsOf(b, h, g)
    <3> HIDE DEF h
    <3> QED BY <2>3, <2>4, ExpansionsEq
  <2> HIDE DEF h
  <2> QED BY <2>1, <2>2, <2>3, <2>5
(* It covers every field. *)
<1>4. C = Node
  <2> DEFINE D == Node \ C
  <2>1. SUFFICES ASSUME D # {}  PROVE FALSE
    OBVIOUS
  <2>2. PICK g \in D : \A k \in 1..Len(SubFields[g]) : SubFields[g][k] \notin D
    <3>1. D \in SUBSET Node
      OBVIOUS
    <3> HIDE DEF D
    <3> QED BY <2>1, <3>1 DEF Founded
  <2>3. g \in Node /\ g \notin C
    OBVIOUS
  <2>4. \A k \in 1..Len(SubFields[g]) : SubFields[g][k] \in C
    <3> HIDE DEF C
    <3> QED BY <2>2, <2>3, SubFieldsType
  <2> DEFINE S == C \cup {g}
             e == [m \in S |-> IF m = g THEN ExpansionsOf(b, h, g) ELSE h[m]]
  <2>5. Inside(S)
    <3> HIDE DEF C
    <3> QED BY <1>2, <2>4 DEF Inside
  <2>6. \A n \in DOMAIN b[g] : ExpansionsOf(b, h, g)[n] \in Seq(Piece)
    <3> HIDE DEF C, h
    <3> TAKE n \in DOMAIN b[g]
    <3>1. Calling(b, h, C)
      BY <1>3 DEF Calling
    <3>2. KnownTo(h, g, b[g][n]) /\ b[g][n] \in Nat
      BY <2>3, <2>4, <3>1, CallingKnown, BufferTells
    <3>3. Expansion(h, g, b[g][n]) \in Seq(Piece)
      BY <2>3, <3>2, ExpansionType
    <3> QED BY <3>3 DEF ExpansionsOf
  <2>7. e[g] = ExpansionsOf(b, h, g)
    <3> HIDE DEF C, h
    <3> QED OBVIOUS
  <2>8. \A m \in C : e[m] = h[m]
    <3> HIDE DEF C, h
    <3> QED BY <2>3
  <2>9. ASSUME NEW m \in S  PROVE e[m] = ExpansionsOf(b, e, m)
    <3>1. e[m] = ExpansionsOf(b, h, m)
      <4> HIDE DEF C, h, e
      <4>1. CASE m = g
        BY <2>7, <4>1
      <4>2. CASE m # g
        BY <4>2, <1>3, <2>8
      <4> QED BY <4>1, <4>2
    <3>2. SameBelow(h, e, m)
      <4> HIDE DEF C, h, e
      <4>1. \A k \in 1..Len(SubFields[m]) : SubFields[m][k] \in C
        BY <1>2, <2>4 DEF Inside
      <4> QED BY <4>1, <2>8 DEF SameBelow
    <3>3. m \in Node
      BY <2>3
    <3> HIDE DEF C, h, e, S
    <3>4. ExpansionsOf(b, h, m) = ExpansionsOf(b, e, m)
      BY <3>2, <3>3, ExpansionsEq
    <3> QED BY <3>1, <3>4
  <2>10. Calling(b, e, S)
    <3> HIDE DEF C, h, e
    <3> QED BY <1>3, <2>6, <2>7, <2>8 DEF Calling
  <2>11. Sound(S, e)
    <3> HIDE DEF e, S
    <3> QED BY <2>5, <2>9, <2>10 DEF Expands, ExpansionsOf
  <2>12. S \in SUBSET Node /\ g \in S
    BY <2>3
  <2> HIDE DEF S, e, Sound
  <2>13. g \in C
    BY <2>3, <2>11, <2>12
  <2> QED BY <2>3, <2>13
<1>5. DOMAIN h = Node
  <2> HIDE DEF C, Of
  <2> QED OBVIOUS
<1>6. Expands(b, h, Node) /\ Calling(b, h, Node)
  <2> HIDE DEF h, C
  <2> QED BY <1>3, <1>4 DEF Expands, Calling, ExpansionsOf
<1> HIDE DEF h
<1> QED BY <1>5, <1>6

(* The recursive function of the definition. *)
Expansions(b) ==
  CHOOSE x : x = [g \in Node |-> [n \in DOMAIN b[g] |-> Expansion(x, g, b[g][n])]]

(* It solves the recursion. *)
LEMMA ExpansionsAre ==
  ASSUME Founded(SubFields), NEW b \in Contents
  PROVE  Expands(b, Expansions(b), Node) /\ Calling(b, Expansions(b), Node)
<1> DEFINE IsIt(x) == x = [g \in Node |-> [n \in DOMAIN b[g] |-> Expansion(x, g, b[g][n])]]
           v == CHOOSE x : IsIt(x)
<1>1. PICK h : DOMAIN h = Node /\ Expands(b, h, Node) /\ Calling(b, h, Node)
              /\ h = [g \in Node |-> h[g]]
  <2>1. PICK x : DOMAIN x = Node /\ Expands(b, x, Node) /\ Calling(b, x, Node)
    BY ExpandsExists
  <2> DEFINE y == [g \in Node |-> x[g]]
  <2>2. \A g \in Node : y[g] = x[g]
    OBVIOUS
  <2>3. DOMAIN y = Node /\ y = [g \in Node |-> y[g]]
    OBVIOUS
  <2> HIDE DEF y
  <2>4. ASSUME NEW g \in Node  PROVE y[g] = [n \in DOMAIN b[g] |-> Expansion(y, g, b[g][n])]
    <3>1. SameBelow(x, y, g)
      BY <2>2, SubFieldsType DEF SameBelow
    <3>2. ExpansionsOf(b, x, g) = ExpansionsOf(b, y, g)
      BY <3>1, ExpansionsEq
    <3>3. x[g] = ExpansionsOf(b, x, g)
      BY <2>1 DEF Expands, ExpansionsOf
    <3> QED BY <2>2, <3>2, <3>3 DEF ExpansionsOf
  <2>5. Expands(b, y, Node) /\ Calling(b, y, Node)
    BY <2>1, <2>2, <2>4 DEF Expands, Calling
  <2> QED BY <2>3, <2>5
<1>2. IsIt(h)
  BY <1>1 DEF Expands
<1>3. IsIt(v)
  <2> HIDE DEF IsIt
  <2> QED BY <1>2
<1>4. v = Expansions(b)
  BY DEF Expansions
<1> HIDE DEF v
<1>5. Expands(b, v, Node)
  BY <1>3 DEF Expands
<1>6. Inside(Node)
  BY SubFieldsType DEF Inside
<1>7. \A g \in Node : v[g] = h[g]
  <2> DEFINE S == Node
  <2>1. S \in SUBSET Node /\ Inside(S) /\ Expands(b, v, S) /\ Expands(b, h, S)
    BY <1>1, <1>5, <1>6
  <2> HIDE DEF S
  <2>2. \A g \in S : v[g] = h[g]
    BY <2>1, ExpandsUnique
  <2> QED BY <2>2 DEF S
<1>8. Calling(b, v, Node)
  BY <1>1, <1>7 DEF Calling
<1> QED BY <1>4, <1>5, <1>8

(* The reference is its value at the field. *)
LEMMA ExpandIs ==
  ASSUME NEW f, NEW r
  PROVE  Expand(f, r) = Expansions(content)[f][r]
BY DEF Expand, Expansions

-----------------------------------------------------------------------------
(***************************************************************************)
(* Beginnings of expansions.                                               *)
(***************************************************************************)

(* A sequence of calls goes on from p to w. *)
Begins(p, w) == \E r \in Seq(Piece) : w = p \o r

(* Every sequence begins with itself, *)
LEMMA BeginsSame ==
  ASSUME NEW p \in Seq(Piece)
  PROVE  Begins(p, p)
<1>1. <<>> \in Seq(Piece) /\ p = p \o <<>>
  BY ConcatEmptySeq
<1> QED BY <1>1 DEF Begins

(* goes on beginning with what it began with, *)
LEMMA BeginsMore ==
  ASSUME NEW p \in Seq(Piece), NEW w \in Seq(Piece), NEW v \in Seq(Piece), Begins(p, w)
  PROVE  Begins(p, w \o v)
<1>1. PICK r \in Seq(Piece) : w = p \o r
  BY DEF Begins
<1>2. r \o v \in Seq(Piece) /\ w \o v = p \o (r \o v)
  BY <1>1, ConcatProperties, ConcatAssociative
<1> QED BY <1>2 DEF Begins

(* and both can follow the same. *)
LEMMA BeginsAfter ==
  ASSUME NEW p \in Seq(Piece), NEW w \in Seq(Piece), NEW v \in Seq(Piece), Begins(p, w)
  PROVE  Begins(v \o p, v \o w)
<1>1. PICK r \in Seq(Piece) : w = p \o r
  BY DEF Begins
<1>2. v \o w = (v \o p) \o r
  BY <1>1, ConcatAssociative
<1> QED BY <1>1, <1>2 DEF Begins

(* The beginning of a beginning is one. *)
LEMMA BeginsTrans ==
  ASSUME NEW p \in Seq(Piece), NEW w \in Seq(Piece), NEW v \in Seq(Piece),
         Begins(p, w), Begins(w, v)
  PROVE  Begins(p, v)
<1>1. PICK r \in Seq(Piece) : v = w \o r
  BY DEF Begins
<1> QED BY <1>1, BeginsMore

(* It is a prefix in the sense of the community modules. *)
LEMMA BeginsPrefix ==
  ASSUME NEW p \in Seq(Piece), NEW w, Begins(p, w)
  PROVE  IsPrefix(p, w)
<1>1. PICK r \in Seq(Piece) : w = p \o r
  BY DEF Begins
<1>2. w \in Seq(Piece) /\ Len(w) = Len(p) + Len(r) /\ Len(p) \in Nat /\ Len(r) \in Nat
  BY <1>1, ConcatProperties
<1>3. \A k \in 1..Len(p) : w[k] = p[k]
  <2> TAKE k \in 1..Len(p)
  <2>1. k \in 1..(Len(p) + Len(r)) /\ k <= Len(p)
    BY <1>2
  <2>2. (p \o r)[k] = IF k <= Len(p) THEN p[k] ELSE r[k - Len(p)]
    BY <2>1, ConcatProperties
  <2> QED BY <1>1, <2>1, <2>2
<1> DEFINE l == Len(p)
<1>4. l \in Nat /\ l <= Len(w) /\ l <= Len(p)
  BY <1>2
<1>5. SubSeq(w, 1, l) = SubSeq(p, 1, l)
  <2> HIDE DEF l
  <2>1. \A k \in 1..l : 1 + k - 1 = k
    BY <1>4
  <2>2. \A k \in 1..l : w[k] = p[k]
    BY <1>3 DEF l
  <2>3. SubSeq(w, 1, l) = [k \in 1..l |-> w[k]] /\ SubSeq(p, 1, l) = [k \in 1..l |-> p[k]]
    BY <1>2, <1>4
  <2> QED BY <2>2, <2>3
<1> QED BY <1>4, <1>5 DEF IsPrefix

-----------------------------------------------------------------------------
(* The expansion of a buffer. *)
Grammar(b, e) == b \in Contents /\ Expands(b, e, Node) /\ Calling(b, e, Node)

(* In the buffer at hand every expansion is what the definition says. *)
LEMMA GrammarKnown ==
  ASSUME NEW b, NEW e, Grammar(b, e), NEW f \in Node, NEW r \in DOMAIN b[f]
  PROVE  /\ b[f][r] \in Nat /\ KnownTo(e, f, b[f][r])
         /\ e[f][r] \in Seq(Piece) /\ e[f][r] = Expansion(e, f, b[f][r])
<1>1. b \in Contents /\ Expands(b, e, Node) /\ Calling(b, e, Node)
  BY DEF Grammar
<1>2. \A k \in 1..Len(SubFields[f]) : SubFields[f][k] \in Node
  BY SubFieldsType
<1>3. b[f][r] \in Nat
  BY <1>1, BufferTells
<1>4. KnownTo(e, f, b[f][r])
  BY <1>1, <1>2, CallingKnown
<1> QED BY <1>1, <1>3, <1>4 DEF Expands, Calling

(* Of a leaf all is told at once, of a combined field round by round. *)
LEMMA WholeLeaf ==
  ASSUME NEW b, NEW e, Grammar(b, e), NEW f \in Node, NEW r \in DOMAIN b[f], IsLeaf(f)
  PROVE  e[f][r] = IF b[f][r] = 0 THEN <<>> ELSE << <<f, 1, b[f][r]>> >>
BY GrammarKnown DEF Expansion

(* Of a combined field it is all its repetitions. *)
LEMMA WholeCombined ==
  ASSUME NEW b, NEW e, Grammar(b, e), NEW f \in Node, NEW r \in DOMAIN b[f], ~IsLeaf(f)
  PROVE  e[f][r] = Rounds(e, f, b[f][r], b[f][r])
<1>1. b[f][r] = 0 => Rounds(e, f, b[f][r], b[f][r]) = <<>>
  BY RoundsNone
<1> QED BY <1>1, GrammarKnown DEF Expansion, Rounds

(* The field f is amid its repetition number d.number + 1. *)
Amid(b, f, d, r) ==
  /\ r \in DOMAIN b[f] /\ d \in Data
  /\ d.number + 1 <= d.max /\ d.max = b[f][r]
Doing(e, f, d, j) == Rounds(e, f, d.max, d.number) \o Round(e, f, d.max, d.number + 1, j)

(* The repetitions up to the one at hand are known. *)
LEMMA AmidKnown ==
  ASSUME NEW b, NEW e, Grammar(b, e), NEW f \in Node, NEW d, NEW r, Amid(b, f, d, r)
  PROVE  /\ d.max \in Nat /\ d.number \in Nat /\ d.number + 1 \in Nat
         /\ KnownTo(e, f, d.number) /\ KnownTo(e, f, d.number + 1) /\ Known(e, f, d.number + 1)
<1>1. d.max \in Nat /\ d.number \in Nat /\ d.number + 1 <= d.max /\ d.max = b[f][r]
  BY DEF Amid, Data
<1>2. KnownTo(e, f, d.max)
  BY <1>1, GrammarKnown DEF Amid
<1> QED BY <1>1, <1>2 DEF KnownTo

(* What is told of it so far is a sequence of calls. *)
LEMMA DoingParts ==
  ASSUME NEW b, NEW e, Grammar(b, e), NEW f \in Node, NEW d, NEW r, Amid(b, f, d, r),
         NEW j \in 0..Len(SubFields[f])
  PROVE  /\ Rounds(e, f, d.max, d.number) \in Seq(Piece)
         /\ Round(e, f, d.max, d.number + 1, j) \in Seq(Piece)
         /\ Doing(e, f, d, j) \in Seq(Piece)
<1>1. Rounds(e, f, d.max, d.number) \in Seq(Piece)
  BY AmidKnown, RoundsType
<1>2. Round(e, f, d.max, d.number + 1, j) \in Seq(Piece)
  BY AmidKnown, RoundType
<1> QED BY <1>1, <1>2, ConcatProperties DEF Doing

(* The call of the field itself starts the repetition, *)
LEMMA DoingFirst ==
  ASSUME NEW b, NEW e, Grammar(b, e), NEW f \in Node, NEW d, NEW r, Amid(b, f, d, r)
  PROVE  Doing(e, f, d, 0) = Rounds(e, f, d.max, d.number) \o << <<f, d.number + 1, d.max>> >>
BY AmidKnown, RoundFirst DEF Doing

(* a sub-field goes on with it, *)
LEMMA DoingNext ==
  ASSUME NEW b, NEW e, Grammar(b, e), NEW f \in Node, NEW d, NEW r, Amid(b, f, d, r),
         NEW j \in Nat, j < Len(SubFields[f])
  PROVE  /\ e[SubFields[f][j + 1]][d.number + 1] \in Seq(Piece)
         /\ Doing(e, f, d, j + 1) = Doing(e, f, d, j) \o e[SubFields[f][j + 1]][d.number + 1]
<1> DEFINE u == Rounds(e, f, d.max, d.number)
           v == Round(e, f, d.max, d.number + 1, j)
           w == e[SubFields[f][j + 1]][d.number + 1]
<1>1. j \in 0..Len(SubFields[f]) /\ j + 1 \in 1..Len(SubFields[f])
  BY SubFieldsType
<1>2. u \in Seq(Piece) /\ v \in Seq(Piece)
  BY <1>1, DoingParts
<1>3. w \in Seq(Piece)
  BY <1>1, AmidKnown DEF Known
<1>4. Round(e, f, d.max, d.number + 1, j + 1) = v \o w
  <2> DEFINE n == d.number + 1
             c == d.max
  <2>1. c \in Nat /\ n \in Nat /\ Known(e, f, n)
    BY AmidKnown
  <2> HIDE DEF n, c
  <2>2. Round(e, f, c, n, j + 1) = Round(e, f, c, n, j) \o e[SubFields[f][j + 1]][n]
    BY <2>1, RoundNext
  <2> QED BY <2>2 DEF n, c
<1>5. Doing(e, f, d, j + 1) = u \o (v \o w) /\ Doing(e, f, d, j) = u \o v
  BY <1>4 DEF Doing
<1> HIDE DEF u, v, w
<1>6. (u \o v) \o w = u \o (v \o w)
  BY ONLY <1>2, <1>3, ConcatAssociative
<1> QED BY <1>3, <1>5, <1>6 DEF w

(* and with the last one it is complete. *)
LEMMA DoingAll ==
  ASSUME NEW b, NEW e, Grammar(b, e), NEW f \in Node, NEW d, NEW r, Amid(b, f, d, r)
  PROVE  Doing(e, f, d, Len(SubFields[f])) = Rounds(e, f, d.max, d.number + 1)
BY AmidKnown, RoundsNext DEF Doing

(* The first repetitions come first in the expansion. *)
LEMMA RoundsRest ==
  ASSUME NEW f \in Node, NEW e, NEW c \in Nat, KnownTo(e, f, c), NEW m \in Nat
  PROVE  \A n \in Nat : m <= n /\ n <= c => Begins(Rounds(e, f, c, m), Rounds(e, f, c, n))
<1> DEFINE S == {n \in Nat : m <= n /\ n <= c => Begins(Rounds(e, f, c, m), Rounds(e, f, c, n))}
<1>1. \A n \in Nat : n <= c => KnownTo(e, f, n) /\ Rounds(e, f, c, n) \in Seq(Piece)
  <2> SUFFICES ASSUME NEW n \in Nat, n <= c
               PROVE  KnownTo(e, f, n) /\ Rounds(e, f, c, n) \in Seq(Piece)
    OBVIOUS
  <2>1. KnownTo(e, f, n)
    BY DEF KnownTo
  <2> QED BY <2>1, RoundsType
<1>2. ASSUME m <= c  PROVE Begins(Rounds(e, f, c, m), Rounds(e, f, c, m))
  BY <1>1, <1>2, BeginsSame
<1>3. 0 \in S
  <2> SUFFICES ASSUME m <= 0, 0 <= c  PROVE Begins(Rounds(e, f, c, m), Rounds(e, f, c, 0))
    OBVIOUS
  <2>1. m = 0
    OBVIOUS
  <2> QED BY <2>1, <1>2
<1>4. ASSUME NEW n \in S  PROVE n + 1 \in S
  <2> SUFFICES ASSUME m <= n + 1, n + 1 <= c
               PROVE  Begins(Rounds(e, f, c, m), Rounds(e, f, c, n + 1))
    OBVIOUS
  <2>1. CASE m = n + 1
    BY <2>1, <1>2
  <2>2. CASE m # n + 1
    <3>1. n \in Nat /\ m <= n /\ n <= c /\ m <= c /\ n + 1 \in Nat
      BY <2>2
    <3>2. Begins(Rounds(e, f, c, m), Rounds(e, f, c, n))
      BY <1>4, <3>1
    <3> HIDE DEF S
    <3> DEFINE u == Round(e, f, c, n + 1, Len(SubFields[f]))
               p == Rounds(e, f, c, m)
               w == Rounds(e, f, c, n)
    <3>3. KnownTo(e, f, n + 1)
      BY <1>1, <3>1
    <3>4. Rounds(e, f, c, n + 1) = w \o u
      BY <3>1, <3>3, RoundsNext
    <3>5. u \in Seq(Piece)
      <4>1. Known(e, f, n + 1) /\ Len(SubFields[f]) \in 0..Len(SubFields[f])
        BY <3>1, <3>3, SubFieldsType DEF KnownTo
      <4> QED BY <3>1, <4>1, RoundType
    <3>6. p \in Seq(Piece) /\ w \in Seq(Piece) /\ Begins(p, w)
      BY <3>1, <3>2, <1>1
    <3> HIDE DEF u, p, w
    <3>7. Begins(p, w \o u)
      BY <3>5, <3>6, BeginsMore
    <3> QED BY <3>4, <3>7 DEF p
  <2> QED BY <2>1, <2>2
<1>5. S = Nat
  <2> HIDE DEF S
  <2>1. S \in SUBSET Nat
    BY DEF S
  <2> QED BY <1>3, <1>4, <2>1, AllNumbers
<1> QED BY <1>5

(* The first sub-fields come first in those of a repetition. *)
LEMMA DoingSome ==
  ASSUME NEW b, NEW e, Grammar(b, e), NEW f \in Node, NEW d, NEW r, Amid(b, f, d, r),
         NEW j \in Nat
  PROVE  \A l \in Nat : j <= l /\ l <= Len(SubFields[f])
                         => Begins(Doing(e, f, d, j), Doing(e, f, d, l))
<1> DEFINE S == {l \in Nat : j <= l /\ l <= Len(SubFields[f])
                               => Begins(Doing(e, f, d, j), Doing(e, f, d, l))}
<1>1. \A l \in Nat : l <= Len(SubFields[f]) => Doing(e, f, d, l) \in Seq(Piece)
  <2> SUFFICES ASSUME NEW l \in Nat, l <= Len(SubFields[f])  PROVE Doing(e, f, d, l) \in Seq(Piece)
    OBVIOUS
  <2>1. l \in 0..Len(SubFields[f])
    BY SubFieldsType
  <2> QED BY <2>1, DoingParts
<1>2. ASSUME j <= Len(SubFields[f])  PROVE Begins(Doing(e, f, d, j), Doing(e, f, d, j))
  BY <1>1, <1>2, BeginsSame
<1>3. 0 \in S
  <2> SUFFICES ASSUME j <= 0, 0 <= Len(SubFields[f])
               PROVE  Begins(Doing(e, f, d, j), Doing(e, f, d, 0))
    OBVIOUS
  <2>1. j = 0
    OBVIOUS
  <2> QED BY <2>1, <1>2
<1>4. ASSUME NEW l \in S  PROVE l + 1 \in S
  <2> SUFFICES ASSUME j <= l + 1, l + 1 <= Len(SubFields[f])
               PROVE  Begins(Doing(e, f, d, j), Doing(e, f, d, l + 1))
    OBVIOUS
  <2>1. CASE j = l + 1
    BY <2>1, <1>2
  <2>2. CASE j # l + 1
    <3>1. l \in Nat /\ j <= l /\ l < Len(SubFields[f]) /\ l <= Len(SubFields[f])
          /\ j <= Len(SubFields[f])
      BY <2>2, SubFieldsType
    <3>2. Begins(Doing(e, f, d, j), Doing(e, f, d, l))
      BY <1>4, <3>1
    <3> HIDE DEF S
    <3> DEFINE u == e[SubFields[f][l + 1]][d.number + 1]
               p == Doing(e, f, d, j)
               w == Doing(e, f, d, l)
    <3>3. u \in Seq(Piece) /\ Doing(e, f, d, l + 1) = w \o u
      BY <3>1, DoingNext
    <3>4. p \in Seq(Piece) /\ w \in Seq(Piece) /\ Begins(p, w)
      BY <3>1, <3>2, <1>1
    <3> HIDE DEF u, p, w
    <3>5. Begins(p, w \o u)
      BY <3>3, <3>4, BeginsMore
    <3> QED BY <3>3, <3>5 DEF p
  <2> QED BY <2>1, <2>2
<1>5. S = Nat
  <2> HIDE DEF S
  <2>1. S \in SUBSET Nat
    BY DEF S
  <2> QED BY <1>3, <1>4, <2>1, AllNumbers
<1> QED BY <1>5

(* What is told of a combined field comes first in its expansion. *)
LEMMA DoingRest ==
  ASSUME NEW b, NEW e, Grammar(b, e), NEW f \in Node, NEW d, NEW r, Amid(b, f, d, r),
         ~IsLeaf(f), NEW j \in 0..Len(SubFields[f])
  PROVE  Begins(Doing(e, f, d, j), e[f][r])
<1> DEFINE l == Len(SubFields[f])
           p == Doing(e, f, d, j)
           w == Doing(e, f, d, l)
           v == Rounds(e, f, d.max, d.max)
<1>1. l \in Nat /\ j \in Nat /\ j <= l /\ l <= Len(SubFields[f]) /\ l \in 0..Len(SubFields[f])
  BY SubFieldsType
<1>2. Begins(p, w)
  <2> HIDE DEF l
  <2> QED BY <1>1, DoingSome
<1>3. w = Rounds(e, f, d.max, d.number + 1)
  BY DoingAll
<1>4. d.max \in Nat /\ d.number + 1 \in Nat /\ d.number + 1 <= d.max /\ KnownTo(e, f, d.max)
      /\ e[f][r] = v
  <2>1. d.max \in Nat /\ d.number + 1 \in Nat
    BY AmidKnown
  <2>2. r \in DOMAIN b[f] /\ d.max = b[f][r] /\ d.number + 1 <= d.max
    BY DEF Amid
  <2>3. KnownTo(e, f, d.max)
    BY <2>2, GrammarKnown
  <2>4. e[f][r] = v
    BY <2>2, WholeCombined
  <2> QED BY <2>1, <2>2, <2>3, <2>4
<1>5. Begins(w, v)
  <2> HIDE DEF w, p
  <2>1. \A n \in Nat : d.number + 1 <= n /\ n <= d.max
          => Begins(Rounds(e, f, d.max, d.number + 1), Rounds(e, f, d.max, n))
    BY <1>4, RoundsRest
  <2>2. Begins(Rounds(e, f, d.max, d.number + 1), Rounds(e, f, d.max, d.max))
    BY <1>4, <2>1
  <2> QED BY <1>3, <2>2
<1>6. p \in Seq(Piece) /\ w \in Seq(Piece) /\ v \in Seq(Piece)
  BY <1>1, <1>4, DoingParts, RoundsType
<1> HIDE DEF p, w, v
<1>7. Begins(p, v)
  BY <1>2, <1>5, <1>6, BeginsTrans
<1> QED BY <1>4, <1>7 DEF p

-----------------------------------------------------------------------------
(***************************************************************************)
(* What the calls made so far have told, as far as the walk has come.      *)
(***************************************************************************)

(* The suspended fields: V[k] is what was told before the k-th of them, on *)
(* the way down, came to be asked.                                         *)
ParseChain(e, q, d, V) ==
  /\ V \in [1..(Len(q) + 1) -> Seq(Piece)]
  /\ V[1] = <<>>
  /\ \A k \in 1..Len(q) : V[k + 1] = V[k] \o Doing(e, q[k].node, d[k], q[k].next - 1)

(* What was told of the field at hand, in this repetition of its parent.   *)
Midway == pc = "past" \/ (i # 0 /\ i < SubNodeCount(top.node))
TopTold(e) ==
  IF Midway THEN Doing(e, top.node, dataTop, i)
  ELSE Rounds(e, top.node, FieldCount(top.node), dataTop.number)

ToldSoFar(e) ==
  \E V : /\ ParseChain(e, stack, data, V)
         /\ Delivered(emitted) = V[Len(stack) + 1] \o TopTold(e)

(* Between its repetitions a field has not been counted too far, and it is *)
(* left for good when all of them are there.                               *)
CountOK ==
  /\ i <= SubNodeCount(top.node)
  /\ pc = "at" /\ i = 0 => /\ dataTop.number <= FieldCount(top.node)
                           /\ IsLeaf(top.node) => dataTop.number = 0
  /\ pc = "at" /\ i # 0 /\ i = SubNodeCount(top.node) => dataTop.number = FieldCount(top.node)

ExpandInv ==
  /\ FieldInv
  /\ purpose = "lend" => ToldSoFar(Expansions(content)) /\ CountOK
  /\ ParseExpands

(* No descriptor is its own ancestor. *)
NoCircle == Founded(SubFields)

(* The callback passes over no sub-fields. *)
NoneIgnored == "positive" \notin Answers

(* No leaf field is absent but the last of its parent. *)
OptionalLast ==
  \A c \in Contents, f \in Node : \A k \in 1..(Len(SubFields[f]) - 1) :
     IsLeaf(SubFields[f][k]) => \A r \in DOMAIN c[SubFields[f][k]] : c[SubFields[f][k]][r] # 0

-----------------------------------------------------------------------------
(* The expansions of the buffer under the parser are such. *)
LEMMA GrammarIs ==
  ASSUME NoCircle, FieldInv
  PROVE  Grammar(content, Expansions(content))
<1>1. content \in Contents
  BY DEF FieldInv, RestOK
<1> QED BY <1>1, ExpansionsAre DEF Grammar, NoCircle

(* The calls as the expansion has them. *)
PieceOf(e) == <<e.info.field, e.info.number, e.info.max>>

(* What the log tells is a sequence of calls, *)
LEMMA DeliveredType ==
  ASSUME NEW log \in Seq(Entry)
  PROVE  Delivered(log) \in Seq(Piece) /\ Len(Delivered(log)) = Len(log)
<1>1. DOMAIN log = 1..Len(log) /\ Len(log) \in Nat
  OBVIOUS
<1>2. ASSUME NEW k \in 1..Len(log)  PROVE PieceOf(log[k]) \in Piece
  <2>1. log[k] \in Entry
    OBVIOUS
  <2>2. log[k].info \in Info
    BY <2>1 DEF Entry
  <2> QED BY <2>2 DEF Info, PieceOf, Piece
<1>3. Delivered(log) = [k \in 1..Len(log) |-> PieceOf(log[k])]
  BY <1>1 DEF Delivered, PieceOf
<1>4. Delivered(log) \in [1..Len(log) -> Piece]
  BY <1>2, <1>3
<1> HIDE DEF Delivered
<1> QED BY <1>1, <1>4

(* and a new entry of the log is one call more. *)
LEMMA DeliveredNext ==
  ASSUME NEW log \in Seq(Entry), NEW e \in Entry
  PROVE  /\ << PieceOf(e) >> \in Seq(Piece)
         /\ Delivered(Append(log, e)) = Delivered(log) \o << PieceOf(e) >>
<1> DEFINE m == Len(log)
           new == Append(log, e)
           p == Delivered(log)
           w == Delivered(new)
           u == << PieceOf(e) >>
<1>1. /\ m \in Nat /\ DOMAIN log = 1..m /\ DOMAIN new = 1..(m + 1) /\ Len(new) = m + 1
      /\ \A k \in 1..m : new[k] = log[k]
      /\ new[m + 1] = e /\ new \in Seq(Entry)
  BY Appended
<1>2. u \in Seq(Piece) /\ Len(u) = 1 /\ u[1] = PieceOf(e)
  <2>1. e.info \in Info
    BY DEF Entry
  <2>2. PieceOf(e) \in Piece
    BY <2>1 DEF Info, PieceOf, Piece
  <2> QED BY <2>2
<1>3. p \in Seq(Piece) /\ w \in Seq(Piece) /\ Len(p) = m /\ Len(w) = m + 1
  <2> HIDE DEF new
  <2> QED BY <1>1, DeliveredType
<1>4. \A k \in 1..m : w[k] = p[k]
  <2> HIDE DEF new
  <2> QED BY <1>1 DEF Delivered
<1>5. w[m + 1] = PieceOf(e)
  <2> HIDE DEF new
  <2> QED BY <1>1 DEF Delivered, PieceOf
<1> HIDE DEF p, w, u, new, m
<1>6. /\ p \o u \in Seq(Piece) /\ Len(p \o u) = m + 1
      /\ \A k \in 1..(m + 1) : (p \o u)[k] = IF k <= Len(p) THEN p[k] ELSE u[k - Len(p)]
  <2>1. /\ p \o u \in Seq(Piece) /\ Len(p \o u) = Len(p) + Len(u)
        /\ \A k \in 1..(Len(p) + Len(u)) : (p \o u)[k] = IF k <= Len(p) THEN p[k] ELSE u[k - Len(p)]
    BY <1>2, <1>3, ConcatProperties
  <2> QED BY <1>2, <1>3, <2>1
<1>7. ASSUME NEW k \in 1..(m + 1)  PROVE w[k] = (p \o u)[k]
  <2>1. (p \o u)[k] = IF k <= Len(p) THEN p[k] ELSE u[k - Len(p)]
    BY <1>6
  <2>2. CASE k = m + 1
    <3>1. ~(k <= Len(p)) /\ k - Len(p) = 1
      BY <1>1, <1>3, <2>2
    <3> QED BY <1>2, <1>5, <2>1, <2>2, <3>1
  <2>3. CASE k # m + 1
    <3>1. k <= Len(p) /\ k \in 1..m
      BY <1>1, <1>3, <2>3
    <3> QED BY <1>4, <2>1, <3>1
  <2> QED BY <2>2, <2>3
<1> DEFINE v == p \o u
<1>8. w = v
  <2> HIDE DEF v
  <2>1. v \in Seq(Piece) /\ Len(v) = m + 1 /\ \A k \in 1..(m + 1) : w[k] = v[k]
    BY <1>6, <1>7 DEF v
  <2> QED BY <1>1, <1>3, <2>1
<1> QED BY <1>2, <1>8 DEF w, v, p, u, new

(* A suspended field waits amid a repetition for the field below it. *)
LEMMA SuspendedAt ==
  ASSUME FieldInv, purpose = "lend", NEW k \in 1..Len(stack)
  PROVE  /\ Len(stack) \in Nat /\ k \in Nat
         /\ stack[k].node \in Node /\ ~IsLeaf(stack[k].node)
         /\ stack[k].next \in 1..Len(SubFields[stack[k].node])
         /\ FieldAt(k - 1) = stack[k].node
         /\ FieldAt(k) = SubFields[stack[k].node][stack[k].next]
         /\ RepetitionAt(k + 1) = data[k].number + 1
         /\ Amid(content, stack[k].node, data[k], RepetitionAt(k))
<1>1. /\ stack \in Seq(StackItem) /\ data \in Seq(Data) /\ Len(data) = Len(stack)
  BY DEF FieldInv, TypeOK, RestOK, DataOK
<1>2. Len(stack) \in Nat /\ k \in DOMAIN stack /\ k \in DOMAIN data /\ k \in Nat
  BY <1>1
<1>3. /\ stack[k].node \in Node
      /\ stack[k].next \in DOMAIN SubFields[stack[k].node]
      /\ SubFields[stack[k].node][stack[k].next] = FieldAt(k)
  BY <1>2 DEF FieldInv, PathOK
<1>4. stack[k].next \in 1..Len(SubFields[stack[k].node])
  BY <1>3, SubFieldsType
<1>5. ~IsLeaf(stack[k].node)
  BY <1>3, <1>4 DEF IsLeaf, IsCombined
<1>6. k - 1 # Len(stack) /\ k - 1 + 1 = k /\ k + 1 # 1 /\ k + 1 - 1 = k
  BY <1>2
<1>7. FieldAt(k - 1) = stack[k].node
  BY <1>6 DEF FieldAt
<1>8. RepetitionAt(k + 1) = data[k].number + 1
  BY <1>6 DEF RepetitionAt
<1>9. Going(stack[k].node, data[k], RepetitionAt(k))
  BY <1>2 DEF FieldInv, DataOK
<1>10. data[k] \in Data
  BY <1>1, <1>2
<1> HIDE DEF Data
<1> QED BY <1>2, <1>3, <1>4, <1>5, <1>7, <1>8, <1>9, <1>10 DEF Going, Amid

(* What is expected of the field below a suspended one goes on with what   *)
(* was told of the suspended one.                                          *)
LEMMA FrameNext ==
  ASSUME FieldInv, purpose = "lend", NEW e, Grammar(content, e),
         NEW V, ParseChain(e, stack, data, V), NEW k \in 1..Len(stack)
  PROVE  /\ V[k] \in Seq(Piece) /\ V[k + 1] \in Seq(Piece)
         /\ e[FieldAt(k)][RepetitionAt(k + 1)] \in Seq(Piece)
         /\ Doing(e, stack[k].node, data[k], stack[k].next) \in Seq(Piece)
         /\ V[k + 1] \o e[FieldAt(k)][RepetitionAt(k + 1)]
              = V[k] \o Doing(e, stack[k].node, data[k], stack[k].next)
<1> DEFINE p == stack[k].node
           d == data[k]
           j == stack[k].next
           u == V[k]
           v == Doing(e, p, d, j - 1)
           w == e[FieldAt(k)][RepetitionAt(k + 1)]
<1>1. /\ Len(stack) \in Nat /\ k \in Nat /\ p \in Node /\ j \in 1..Len(SubFields[p])
      /\ FieldAt(k) = SubFields[p][j] /\ RepetitionAt(k + 1) = d.number + 1
      /\ Amid(content, p, d, RepetitionAt(k))
  BY SuspendedAt
<1>2. V[k] \in Seq(Piece) /\ V[k + 1] \in Seq(Piece)
  <2>1. k \in 1..(Len(stack) + 1) /\ k + 1 \in 1..(Len(stack) + 1)
    BY <1>1
  <2> QED BY <2>1 DEF ParseChain
<1>3. V[k + 1] = u \o v
  BY DEF ParseChain
<1> DEFINE l == j - 1
<1>4. /\ l \in Nat /\ l < Len(SubFields[p]) /\ l + 1 = j
      /\ l \in 0..Len(SubFields[p]) /\ j \in 0..Len(SubFields[p])
  BY <1>1, SubFieldsType
<1>5. v \in Seq(Piece) /\ w \in Seq(Piece) /\ Doing(e, p, d, j) = v \o w
  <2>1. v = Doing(e, p, d, l)
    OBVIOUS
  <2> HIDE DEF p, d, l, v
  <2>2. /\ e[SubFields[p][l + 1]][d.number + 1] \in Seq(Piece)
        /\ Doing(e, p, d, l + 1) = Doing(e, p, d, l) \o e[SubFields[p][l + 1]][d.number + 1]
    <3>1. p \in Node /\ Amid(content, p, d, RepetitionAt(k))
      BY <1>1
    <3>2. l \in Nat /\ l < Len(SubFields[p])
      BY <1>4
    <3> QED BY <3>1, <3>2, DoingNext
  <2>3. Doing(e, p, d, l) \in Seq(Piece)
    BY <1>1, <1>4, DoingParts
  <2> QED BY <1>1, <1>4, <2>1, <2>2, <2>3
<1>6. Doing(e, p, d, j) \in Seq(Piece)
  <2> HIDE DEF p, d, j
  <2> QED BY <1>1, <1>4, DoingParts
<1>7. u \in Seq(Piece)
  BY <1>2
<1> HIDE DEF u, v, w
<1>8. (u \o v) \o w = u \o (v \o w)
  BY ONLY <1>5, <1>7, ConcatAssociative
<1> QED BY <1>2, <1>3, <1>5, <1>6, <1>8 DEF u, w

(* The first frame tells of the parser, whose repetition is the only one. *)
LEMMA FrameFirst ==
  ASSUME FieldInv, purpose = "lend", NEW e, Grammar(content, e),
         NEW V, ParseChain(e, stack, data, V)
  PROVE  /\ FieldAt(0) = Parser /\ RepetitionAt(0 + 1) = 1
         /\ e[Parser][1] \in Seq(Piece)
         /\ V[0 + 1] \o e[FieldAt(0)][RepetitionAt(0 + 1)] = e[Parser][1]
<1>1. stack \in Seq(StackItem) /\ Len(stack) \in Nat
  BY DEF FieldInv, TypeOK
<1>2. FieldAt(0) = Parser
  <2>1. CASE Len(stack) = 0
    <3>1. stack = <<>>
      BY <1>1, <2>1
    <3> QED BY <2>1, <3>1 DEF FieldAt, FieldInv, PathOK
  <2>2. CASE Len(stack) # 0
    <3>1. stack # <<>> /\ 0 + 1 = 1
      BY <1>1, <2>2
    <3> QED BY <2>2, <3>1 DEF FieldAt, FieldInv, PathOK
  <2> QED BY <2>1, <2>2
<1>3. RepetitionAt(0 + 1) = 1
  BY DEF RepetitionAt
<1>4. e[Parser][1] \in Seq(Piece)
  <2>1. content \in Contents /\ Parser \in Node
    BY ParseAssumption DEF Grammar
  <2>2. content[Parser] \in Seq(Nat) /\ content[Parser] # <<>>
    BY <2>1, ContentsAssumption
  <2>3. 1 \in DOMAIN content[Parser]
    BY <2>2
  <2> QED BY <2>1, <2>3, GrammarKnown
<1>5. V[0 + 1] = <<>>
  BY DEF ParseChain
<1> QED BY <1>2, <1>3, <1>4, <1>5, ConcatEmptySeq

(* At every depth what is told so far is the beginning of all there is to  *)
(* be told, if the field at hand is complete.                              *)
LEMMA FrameRest ==
  ASSUME FieldInv, purpose = "lend", NEW e, Grammar(content, e),
         NEW V, ParseChain(e, stack, data, V)
  PROVE  \A k \in 0..Len(stack) :
            Begins(V[k + 1] \o e[FieldAt(k)][RepetitionAt(k + 1)], e[Parser][1])
<1> DEFINE R(k) == Begins(V[k + 1] \o e[FieldAt(k)][RepetitionAt(k + 1)], e[Parser][1])
           S == {k \in Nat : k <= Len(stack) => R(k)}
<1>1. Len(stack) \in Nat
  BY DEF FieldInv, TypeOK
<1>2. R(0)
  <2>1. e[Parser][1] \in Seq(Piece)
        /\ V[0 + 1] \o e[FieldAt(0)][RepetitionAt(0 + 1)] = e[Parser][1]
    BY FrameFirst
  <2>2. Begins(e[Parser][1], e[Parser][1])
    BY <2>1, BeginsSame
  <2> QED BY <2>1, <2>2
<1>3. ASSUME NEW k \in Nat, R(k), k + 1 <= Len(stack)
      PROVE  R(k + 1)
  <2> DEFINE m == k + 1
  <2>1. m \in 1..Len(stack) /\ m - 1 = k
    BY <1>1, <1>3
  <2> HIDE DEF R
  <2> DEFINE p == stack[m].node
             v == Doing(e, p, data[m], stack[m].next)
             w == e[p][RepetitionAt(m)]
             u == V[m]
  <2>2. /\ FieldAt(k) = p /\ p \in Node /\ ~IsLeaf(p)
        /\ stack[m].next \in 1..Len(SubFields[p])
        /\ Amid(content, p, data[m], RepetitionAt(m))
    <3> HIDE DEF m
    <3> QED BY <2>1, SuspendedAt
  <2>3. /\ u \in Seq(Piece) /\ v \in Seq(Piece)
        /\ V[m + 1] \o e[FieldAt(m)][RepetitionAt(m + 1)] = u \o v
    <3> HIDE DEF m
    <3> QED BY <2>1, FrameNext
  <2>4. Begins(v, w)
    <3>1. stack[m].next \in 0..Len(SubFields[p])
      BY <2>2, SubFieldsType
    <3> HIDE DEF m, p
    <3> QED BY <2>2, <3>1, DoingRest
  <2>5. w \in Seq(Piece)
    <3>1. RepetitionAt(m) \in DOMAIN content[p]
      BY <2>2 DEF Amid
    <3> HIDE DEF m, p
    <3> QED BY <2>2, <3>1, GrammarKnown
  <2>6. Begins(u \o w, e[Parser][1])
    <3>1. R(k)
      BY <1>3
    <3> QED BY <2>2, <3>1 DEF R
  <2>7. u \o v \in Seq(Piece) /\ u \o w \in Seq(Piece) /\ e[Parser][1] \in Seq(Piece)
    <3> HIDE DEF u, v, w
    <3> QED BY <2>3, <2>5, FrameFirst, ConcatProperties
  <2> DEFINE a == u \o v
             b == u \o w
             c == e[Parser][1]
  <2>8. Begins(a, b)
    <3> HIDE DEF u, v, w
    <3> QED BY <2>3, <2>4, <2>5, BeginsAfter
  <2>9. Begins(a, c)
    <3>1. a \in Seq(Piece) /\ b \in Seq(Piece) /\ c \in Seq(Piece) /\ Begins(b, c)
      BY <2>6, <2>7
    <3> HIDE DEF a, b, c
    <3> QED BY <2>8, <3>1, BeginsTrans
  <2>10. V[m + 1] \o e[FieldAt(m)][RepetitionAt(m + 1)] = a
    BY <2>3
  <2>11. R(m)
    <3> HIDE DEF a, m
    <3> QED BY <2>9, <2>10 DEF R
  <2> QED BY <2>11
<1> HIDE DEF R
<1>4. S = Nat
  <2>1. 0 \in S
    BY <1>2
  <2>2. ASSUME NEW k \in S  PROVE k + 1 \in S
    <3>1. k \in Nat /\ (k + 1 <= Len(stack) => k <= Len(stack))
      BY <1>1
    <3>2. k + 1 <= Len(stack) => R(k + 1)
      BY <1>3, <3>1
    <3> QED BY <3>1, <3>2
  <2>3. S \in SUBSET Nat
    OBVIOUS
  <2> HIDE DEF S
  <2> QED BY <2>1, <2>2, <2>3, AllNumbers
<1>5. \A k \in 0..Len(stack) : R(k)
  <2> SUFFICES ASSUME NEW k \in 0..Len(stack)  PROVE R(k)
    OBVIOUS
  <2>1. k \in S /\ k <= Len(stack)
    BY <1>1, <1>4
  <2> QED BY <2>1
<1> QED BY <1>5 DEF R

-----------------------------------------------------------------------------
(***************************************************************************)
(* The steps of a parse go on with it.                                     *)
(***************************************************************************)

(* The call at hand is told; e is the expansion, V what the suspended      *)
(* fields were told before.                                                *)
LEMMA CallTold ==
  ASSUME FieldInv, purpose = "lend", NEW e, Grammar(content, e), CountOK, pc = "at", i = 0,
         ~BadDependent(top.node), Emit(top.node)
  PROVE  /\ TopTold(e) \in Seq(Piece)
         /\ << <<top.node, dataTop.number + 1, FieldCount(top.node)>> >> \in Seq(Piece)
         /\ TopTold(e) = Rounds(e, top.node, FieldCount(top.node), dataTop.number)
         /\ Delivered(emitted) \in Seq(Piece)
         /\ Delivered(emitted')
              = Delivered(emitted) \o << <<top.node, dataTop.number + 1, FieldCount(top.node)>> >>
<1> DEFINE f == top.node
           c == FieldCount(f)
           m == dataTop.number
<1>1. /\ f \in Node /\ c \in Nat /\ c = content[f][Repetition] /\ Repetition \in DOMAIN content[f]
  BY FieldAtHand
<1>2. m \in Nat /\ m <= c
  BY DEF FieldInv, RestOK, Data, CountOK
<1>3. TopTold(e) = Rounds(e, f, c, m)
  BY DEF TopTold, Midway
<1>4. KnownTo(e, f, c)
  <2> HIDE DEF f, c
  <2> QED BY <1>1, GrammarKnown
<1>5. KnownTo(e, f, m)
  <2> HIDE DEF f, c, m
  <2> QED BY <1>1, <1>2, <1>4 DEF KnownTo
<1>6. Rounds(e, f, c, m) \in Seq(Piece)
  <2> HIDE DEF f, c, m
  <2> QED BY <1>1, <1>2, <1>5, RoundsType
<1>7. PICK x \in Entry : /\ x.info = FieldInfo(f)
                         /\ emitted' = Append(emitted, x)
                         /\ emitted \in Seq(Entry)
  BY LogGrows
<1>8. PieceOf(x) = <<f, m + 1, c>>
  BY <1>7 DEF FieldInfo, PieceOf
<1>9. /\ << PieceOf(x) >> \in Seq(Piece)
      /\ Delivered(emitted') = Delivered(emitted) \o << PieceOf(x) >>
  BY <1>7, DeliveredNext
<1>10. Delivered(emitted) \in Seq(Piece)
  BY <1>7, DeliveredType
<1> HIDE DEF f, c, m
<1>11. /\ << <<f, m + 1, c>> >> \in Seq(Piece)
       /\ Delivered(emitted') = Delivered(emitted) \o << <<f, m + 1, c>> >>
  BY <1>8, <1>9
<1> QED BY <1>3, <1>6, <1>10, <1>11 DEF f, c, m

(* For a combined field this starts a repetition, *)
LEMMA CombinedTold ==
  ASSUME FieldInv, purpose = "lend", NEW e, Grammar(content, e), CountOK, pc = "at", i = 0,
         ~BadDependent(top.node), Emit(top.node), Present(top.node)
  PROVE  /\ Amid(content, top.node, Counted(top.node), Repetition)
         /\ Doing(e, top.node, Counted(top.node), 0)
              = TopTold(e) \o << <<top.node, dataTop.number + 1, FieldCount(top.node)>> >>
<1> DEFINE f == top.node
           d == Counted(f)
<1>1. f \in Node /\ FieldCount(f) \in Nat /\ Repetition \in DOMAIN content[f]
      /\ FieldCount(f) = content[f][Repetition]
  BY FieldAtHand
<1>2. dataTop \in Data
  BY DEF FieldInv, RestOK
<1>3. d \in Data /\ d.number = dataTop.number /\ d.max = FieldCount(f)
  BY <1>1, <1>2 DEF Counted, Data
<1> HIDE DEF d
<1>4. Amid(content, f, d, Repetition)
  BY <1>1, <1>3 DEF Present, Amid
<1>5. TopTold(e) = Rounds(e, f, d.max, d.number)
  BY <1>3, CallTold
<1>6. Doing(e, f, d, 0) = Rounds(e, f, d.max, d.number) \o << <<f, d.number + 1, d.max>> >>
  <2> HIDE DEF f
  <2> DEFINE c == d.max
             n == d.number + 1
  <2>1. f \in Node /\ c \in Nat /\ n \in Nat
    BY <1>1, <1>2, <1>3 DEF Data
  <2> HIDE DEF c, n
  <2>2. Round(e, f, c, n, 0) = << <<f, n, c>> >>
    BY <2>1, RoundFirst
  <2> QED BY <2>2 DEF Doing, c, n
<1> QED BY <1>3, <1>4, <1>5, <1>6 DEF d

(* for a leaf it is all. *)
LEMMA LeafTold ==
  ASSUME FieldInv, purpose = "lend", NEW e, Grammar(content, e), CountOK, pc = "at", i = 0,
         IsLeaf(top.node)
  PROVE  /\ TopTold(e) = <<>> /\ dataTop.number = 0
         /\ Present(top.node) => e[top.node][Repetition]
                                   = << <<top.node, dataTop.number + 1, FieldCount(top.node)>> >>
         /\ ~Present(top.node) => e[top.node][Repetition] = <<>> /\ FieldCount(top.node) = 0
<1> DEFINE f == top.node
           c == FieldCount(f)
<1>1. f \in Node /\ c \in Nat /\ Repetition \in DOMAIN content[f]
      /\ c = content[f][Repetition]
  BY FieldAtHand
<1>2. dataTop.number = 0
  BY DEF CountOK
<1>3. TopTold(e) = Rounds(e, f, c, 0)
  BY <1>2 DEF TopTold, Midway
<1>4. Rounds(e, f, c, 0) = <<>>
  BY RoundsNone
<1>5. e[f][Repetition] = IF c = 0 THEN <<>> ELSE << <<f, 1, c>> >>
  <2> HIDE DEF f
  <2> QED BY <1>1, WholeLeaf DEF f
<1>6. Present(f) <=> c # 0
  BY <1>1, <1>2 DEF Present
<1>7. dataTop.number + 1 = 1
  BY <1>2
<1> HIDE DEF f, c
<1> QED BY <1>2, <1>3, <1>4, <1>5, <1>6, <1>7 DEF f, c

-----------------------------------------------------------------------------
(* The field at hand is complete, and left for its parent. *)
Complete(e) ==
  \E V : /\ ParseChain(e, stack, data, V)
         /\ Delivered(emitted') = V[Len(stack) + 1] \o e[top.node][Repetition]
Returns(re) ==
  /\ stack # <<>> /\ PopStack(re) /\ PopData
  /\ UNCHANGED <<sub, content>>
  /\ re => RepetitionDone
  /\ ~re => ~Again

(* The parent as it is resumed. *)
LEMMA ReturnsTo ==
  ASSUME FieldInv, purpose = "lend", NEW re \in BOOLEAN, Returns(re)
  PROVE  /\ Len(stack) \in 1..Len(stack)
         /\ stack' \in Seq(StackItem) /\ Len(stack') = Len(stack) - 1
         /\ \A k \in 1..(Len(stack) - 1) : stack'[k] = stack[k] /\ data'[k] = data[k]
         /\ pc' = "at" /\ top'.node = stack[Len(stack)].node
         /\ i' = IF re THEN 0 ELSE stack[Len(stack)].next
         /\ RepetitionDone <=> stack[Len(stack)].next = Len(SubFields[stack[Len(stack)].node])
         /\ Again <=> RepetitionDone /\ data[Len(stack)].number + 1 < data[Len(stack)].max
         /\ dataTop' = IF RepetitionDone THEN [data[Len(stack)] EXCEPT !.number = @ + 1]
                       ELSE data[Len(stack)]
         /\ SubNodeCount(top.node)' = Len(SubFields[stack[Len(stack)].node])
         /\ FieldCount(top.node)' = data[Len(stack)].max
<1> DEFINE n == Len(stack)
<1>1. /\ stack \in Seq(StackItem) /\ data \in Seq(Data) /\ Len(data) = n /\ stack # <<>>
      /\ sub = SubFields /\ TypeOK
  BY FieldAtHand DEF FieldInv, TypeOK, RestOK, DataOK, Returns
<1>2. n \in Nat \ {0} /\ n \in 1..n /\ data # <<>>
  BY <1>1
<1>3. Front(stack) = SubSeq(stack, 1, n - 1) /\ Last(stack) = stack[n] /\ Last(data) = data[n]
  BY <1>1, <1>2 DEF Front, Last
<1>4. /\ stack' = Front(stack) /\ data' = Front(data)
      /\ top' = Item(stack[n].node, IF re THEN 0 ELSE stack[n].next)
      /\ i' = IF re THEN 0 ELSE stack[n].next
      /\ pc' = "at"
  BY <1>1, <1>3 DEF Returns, PopStack, PopData
<1>5. /\ stack' \in Seq(StackItem) /\ Len(stack') = n - 1
      /\ \A k \in 1..(n - 1) : stack'[k] = stack[k] /\ data'[k] = data[k]
      /\ Len(data') = n - 1 /\ data' \in Seq(Data)
  <2>1. /\ stack' \in Seq(StackItem) /\ Len(stack') = n - 1
        /\ \A k \in 1..(n - 1) : stack'[k] = stack[k]
    BY <1>1, <1>4, Shortened
  <2>2. /\ data' \in Seq(Data) /\ Len(data') = n - 1
        /\ \A k \in 1..(n - 1) : data'[k] = data[k]
    BY <1>1, <1>2, <1>4, Shortened
  <2> QED BY <2>1, <2>2
<1>6. top'.node = stack[n].node
  BY <1>4 DEF Item
<1>7. RepetitionDone <=> stack[n].next = Len(SubFields[stack[n].node])
  BY <1>1, <1>3 DEF RepetitionDone, SubNodeCount
<1>8. Again <=> RepetitionDone /\ data[n].number + 1 < data[n].max
  BY <1>1, <1>3 DEF Again
<1>9. dataTop' = IF RepetitionDone THEN [data[n] EXCEPT !.number = @ + 1] ELSE data[n]
  BY <1>3 DEF Returns, PopData
<1>10. SubNodeCount(top.node)' = Len(SubFields[stack[n].node])
  BY <1>1, <1>6 DEF Returns, SubNodeCount
<1>11. FieldCount(top.node)' = data[n].max
  <2>1. Repetition' = RepetitionAt(n)
    <3>1. data' = <<>> <=> n = 1
      BY <1>2, <1>5
    <3>2. Repetition' = IF n = 1 THEN 1 ELSE data'[n - 1].number + 1
      BY <1>5, <3>1 DEF Repetition
    <3>3. n # 1 => n - 1 \in 1..(n - 1)
      <4> HIDE DEF n
      <4> QED BY <1>2
    <3> QED BY <1>5, <3>2, <3>3 DEF RepetitionAt
  <2>2. Amid(content, stack[n].node, data[n], RepetitionAt(n))
    <3> HIDE DEF n
    <3> QED BY <1>2, SuspendedAt DEF n
  <2> QED BY <1>6, <2>1, <2>2 DEF FieldCount, Returns, Amid
<1> QED BY <1>2, <1>4, <1>5, <1>6, <1>7, <1>8, <1>9, <1>10, <1>11

(* What is told is then told of the parent. *)
LEMMA PopTold ==
  ASSUME FieldInv, purpose = "lend", NEW e, Grammar(content, e),
         NEW re \in BOOLEAN, Returns(re), Complete(e)
  PROVE  ToldSoFar(e)' /\ CountOK'
<1> DEFINE n == Len(stack)
           p == stack[n].node
           d == data[n]
           j == stack[n].next
           l == Len(SubFields[p])
<1>1. /\ n \in Nat /\ p \in Node /\ ~IsLeaf(p) /\ j \in 1..l
      /\ FieldAt(n) = top.node /\ RepetitionAt(n + 1) = Repetition
      /\ Amid(content, p, d, RepetitionAt(n))
  <2>1. n \in 1..n
    BY ReturnsTo
  <2>2. FieldAt(n) = top.node
    BY DEF FieldAt
  <2>3. RepetitionAt(n + 1) = Repetition
    BY FieldAtHand
  <2>4. /\ n \in Nat /\ p \in Node /\ ~IsLeaf(p) /\ j \in 1..l
        /\ Amid(content, p, d, RepetitionAt(n))
    BY <2>1, SuspendedAt
  <2> QED BY <2>2, <2>3, <2>4
<1>2. /\ n \in 1..n /\ stack' \in Seq(StackItem) /\ Len(stack') = n - 1
      /\ \A k \in 1..(n - 1) : stack'[k] = stack[k] /\ data'[k] = data[k]
      /\ pc' = "at" /\ top'.node = p
      /\ i' = IF re THEN 0 ELSE j
      /\ RepetitionDone <=> j = l
      /\ Again <=> RepetitionDone /\ d.number + 1 < d.max
      /\ dataTop' = IF RepetitionDone THEN [d EXCEPT !.number = @ + 1] ELSE d
      /\ SubNodeCount(top.node)' = l
      /\ FieldCount(top.node)' = d.max
  BY ReturnsTo
<1>3. /\ d \in Data /\ d.number \in Nat /\ d.max \in Nat /\ d.number + 1 <= d.max
      /\ l \in Nat
  <2>1. d \in Data /\ d.number + 1 <= d.max
    BY <1>1 DEF Amid
  <2>2. l \in Nat
    BY <1>1, SubFieldsType
  <2> HIDE DEF d
  <2> QED BY <2>1, <2>2 DEF Data
<1>4. PICK V : /\ ParseChain(e, stack, data, V)
               /\ Delivered(emitted') = V[n + 1] \o e[top.node][Repetition]
  BY DEF Complete
<1>5. Delivered(emitted') = V[n] \o Doing(e, p, d, j)
  <2>1. V[n + 1] \o e[FieldAt(n)][RepetitionAt(n + 1)] = V[n] \o Doing(e, p, d, j)
    <3>1. n \in 1..n
      BY <1>2
    <3> QED BY <1>4, <3>1, FrameNext
  <2> QED BY <1>1, <1>4, <2>1
<1>6. (re => j = l) /\ (~re => j # l \/ ~(d.number + 1 < d.max))
  BY <1>2 DEF Returns
<1> DEFINE W == [k \in 1..n |-> V[k]]
<1>7. ParseChain(e, stack', data', W) /\ W[Len(stack') + 1] = V[n]
  <2>1. \A k \in 1..n : W[k] = V[k]
    OBVIOUS
  <2>2. W \in [1..n -> Seq(Piece)]
    <3>1. \A k \in 1..n : V[k] \in Seq(Piece)
      <4>1. V \in [1..(n + 1) -> Seq(Piece)]
        BY <1>4 DEF ParseChain
      <4>2. \A k \in 1..n : k \in 1..(n + 1)
        BY <1>1
      <4> HIDE DEF n
      <4> QED BY <4>1, <4>2
    <3> QED BY <3>1
  <2>3. Len(stack') + 1 = n
    BY <1>1, <1>2
  <2> HIDE DEF W, n
  <2>4. W[1] = <<>>
    BY <1>2, <1>4, <2>1 DEF ParseChain
  <2>5. ASSUME NEW k \in 1..Len(stack')
        PROVE  W[k + 1] = W[k] \o Doing(e, stack'[k].node, data'[k], stack'[k].next - 1)
    <3>1. k \in 1..n /\ k + 1 \in 1..n /\ k \in 1..(n - 1)
      BY <1>1, <1>2
    <3>2. V[k + 1] = V[k] \o Doing(e, stack[k].node, data[k], stack[k].next - 1)
      BY <1>4, <3>1 DEF ParseChain, n
    <3>3. stack'[k] = stack[k] /\ data'[k] = data[k] /\ W[k] = V[k] /\ W[k + 1] = V[k + 1]
      BY <1>2, <2>1, <3>1
    <3> QED BY <3>2, <3>3
  <2> QED BY <1>2, <2>1, <2>2, <2>3, <2>4, <2>5 DEF ParseChain
<1>8. TopTold(e)' = Doing(e, p, d, j)
  <2>1. CASE j # l
    <3>1. ~re /\ i' = j /\ dataTop' = d /\ i' # 0 /\ i' < l
      BY <1>1, <1>2, <1>3, <1>6, <2>1
    <3>2. Midway'
      BY <1>2, <3>1 DEF Midway
    <3>3. TopTold(e)' = Doing(e, top'.node, dataTop', i')
      BY <3>2 DEF TopTold
    <3> QED BY <1>2, <3>1, <3>3
  <2>2. CASE j = l
    <3>1. i' = 0 \/ i' = l
      BY <1>2, <2>2
    <3>2. ~Midway'
      BY <1>2, <1>3, <3>1 DEF Midway
    <3>3. TopTold(e)' = Rounds(e, top'.node, FieldCount(top.node)', dataTop'.number)
      BY <3>2 DEF TopTold
    <3>4. dataTop'.number = d.number + 1
      <4>1. dataTop' = [d EXCEPT !.number = @ + 1]
        BY <1>2, <2>2
      <4> HIDE DEF d
      <4> QED BY <1>3, <4>1 DEF Data
    <3>5. TopTold(e)' = Rounds(e, p, d.max, d.number + 1)
      BY <1>2, <3>3, <3>4
    <3>6. Doing(e, p, d, l) = Rounds(e, p, d.max, d.number + 1)
      <4> HIDE DEF p, d
      <4> QED BY <1>1, DoingAll
    <3> QED BY <2>2, <3>5, <3>6
  <2> QED BY <2>1, <2>2
<1>9. ToldSoFar(e)'
  <2>1. Delivered(emitted') = W[Len(stack') + 1] \o TopTold(e)'
    BY <1>5, <1>7, <1>8
  <2> HIDE DEF W
  <2> QED BY <1>7, <2>1 DEF ToldSoFar
<1>10. CountOK'
  <2>1. i' <= l
    BY <1>1, <1>2, <1>3
  <2>2. IsLeaf(top.node)' <=> IsLeaf(p)
    BY <1>2 DEF IsLeaf, IsCombined
  <2>3. ASSUME i' = 0  PROVE dataTop'.number <= d.max
    <3>1. re
      BY <1>1, <1>2, <1>3, <2>3
    <3>2. dataTop' = [d EXCEPT !.number = @ + 1]
      BY <1>2, <1>6, <3>1
    <3> HIDE DEF d
    <3> QED BY <1>3, <3>2 DEF Data
  <2>4. ASSUME i' # 0, i' = l  PROVE dataTop'.number = d.max
    <3>1. ~re /\ j = l /\ ~(d.number + 1 < d.max)
      BY <1>2, <1>6, <2>4
    <3>2. dataTop' = [d EXCEPT !.number = @ + 1]
      BY <1>2, <3>1
    <3> HIDE DEF d
    <3> QED BY <1>3, <3>1, <3>2 DEF Data
  <2> QED BY <1>1, <1>2, <2>1, <2>2, <2>3, <2>4 DEF CountOK
<1> QED BY <1>9, <1>10

(* Nothing but a repetition that a callback passes over or that is not     *)
(* there is answered with more than 0.                                     *)
LEMMA PositiveAbsent ==
  ASSUME NoneIgnored, NEW f, InvokeCallback(f, "positive")
  PROVE  ~Present(f) /\ UNCHANGED emitted
BY DEF NoneIgnored, InvokeCallback, Absent, Accept, Break, CallbackThrows, DependentMissing

(* 0 is answered by a callback only, for a field that is there. *)
LEMMA ZeroCalls ==
  ASSUME NEW f, InvokeCallback(f, "zero")
  PROVE  Present(f) /\ ~BadDependent(f) /\ Emit(f)
BY DEF InvokeCallback, Absent, Accept, Break, CallbackThrows, DependentMissing

(* onTraversal of a combined field starts a repetition or finds them all   *)
(* done.                                                                   *)
LEMMA CombinedOn ==
  ASSUME NoneIgnored, FieldInv, purpose = "lend", NEW e, Grammar(content, e),
         ToldSoFar(e), CountOK, NEW r \in {"zero", "positive"}, ParseCombined(r)
  PROVE  ToldSoFar(e)' /\ CountOK'
<1> DEFINE f == top.node
<1>1. /\ pc = "at" /\ i = 0 /\ i < SubNodeCount(f) /\ i \in Nat
      /\ InvokeCallback(f, r) /\ UNCHANGED <<content, sub, stack, top, data>>
      /\ dataTop' = Counted(f)
      /\ \/ r = "zero" /\ pc' = "past" /\ i' = i
         \/ r = "positive" /\ pc' = pc /\ i' = SubNodeCount(f)
  <2>1. OnTraversal /\ pc = "at" /\ i < SubNodeCount(f) /\ i = order
    BY DEF ParseCombined, VisitAt
  <2>2. UNCHANGED sub /\ order = 0 /\ i \in Nat
    BY <2>1 DEF OnTraversal, FieldInv, ControlOK, TypeOK
  <2> QED BY <2>1, <2>2 DEF ParseCombined, VisitAt
<1>2. PICK V : /\ ParseChain(e, stack, data, V)
               /\ Delivered(emitted) = V[Len(stack) + 1] \o TopTold(e)
  BY DEF ToldSoFar
<1>3. /\ f \in Node /\ FieldCount(f) \in Nat /\ SubNodeCount(f) \in Nat
      /\ dataTop.number \in Nat /\ dataTop.number <= FieldCount(f)
  BY <1>1, FieldAtHand DEF CountOK, FieldInv, RestOK, Data
<1>4. /\ ParseChain(e, stack', data', V) /\ Len(stack') + 1 = Len(stack) + 1
      /\ SubNodeCount(f)' = SubNodeCount(f) /\ FieldCount(f)' = FieldCount(f) /\ top'.node = f
  BY <1>1, <1>2 DEF SubNodeCount, FieldCount, Repetition
<1>5. V[Len(stack) + 1] \in Seq(Piece)
  <2>1. Len(stack) + 1 \in 1..(Len(stack) + 1)
    BY DEF FieldInv, TypeOK
  <2> QED BY <1>2, <2>1 DEF ParseChain
<1>6. CASE r = "zero"
  <2>1. Present(f) /\ ~BadDependent(f) /\ Emit(f)
    BY <1>1, <1>6, ZeroCalls
  <2> DEFINE u == V[Len(stack) + 1]
             v == TopTold(e)
             w == << <<f, dataTop.number + 1, FieldCount(f)>> >>
  <2>2. /\ v \in Seq(Piece) /\ w \in Seq(Piece)
        /\ Delivered(emitted') = Delivered(emitted) \o w
    BY <1>1, <2>1, CallTold
  <2>3. Doing(e, f, Counted(f), 0) = v \o w
    BY <1>1, <2>1, CombinedTold
  <2>4. pc' = "past" /\ i' = 0
    BY <1>1, <1>6
  <2>5. TopTold(e)' = Doing(e, f, Counted(f), 0)
    <3>1. Midway'
      BY <2>4 DEF Midway
    <3>2. TopTold(e)' = Doing(e, top'.node, dataTop', i')
      BY <3>1 DEF TopTold
    <3> QED BY <1>1, <1>4, <2>4, <3>2
  <2>6. u \in Seq(Piece) /\ Delivered(emitted) = u \o v
    BY <1>2, <1>5
  <2>7. Delivered(emitted') = u \o TopTold(e)'
    <3>1. Delivered(emitted') = (u \o v) \o w /\ TopTold(e)' = v \o w
      BY <2>2, <2>3, <2>5, <2>6
    <3> HIDE DEF u, v, w
    <3>2. (u \o v) \o w = u \o (v \o w)
      BY ONLY <2>2, <2>6, ConcatAssociative
    <3> QED BY <3>1, <3>2
  <2>8. ToldSoFar(e)'
    <3>1. Delivered(emitted') = V[Len(stack') + 1] \o TopTold(e)'
      BY <1>4, <2>7
    <3> QED BY <1>4, <3>1 DEF ToldSoFar
  <2>9. CountOK'
    BY <1>1, <1>3, <1>4, <2>4 DEF CountOK
  <2> QED BY <2>8, <2>9
<1>7. CASE r = "positive"
  <2>1. ~Present(f) /\ emitted' = emitted
    BY <1>1, <1>7, PositiveAbsent
  <2>2. dataTop' = dataTop /\ pc' = "at" /\ i' = SubNodeCount(f) /\ dataTop.number = FieldCount(f)
    BY <1>1, <1>3, <1>7, <2>1 DEF Counted, Present
  <2>3. TopTold(e)' = TopTold(e)
    <3>1. ~Midway
      BY <1>1 DEF Midway
    <3>2. ~Midway'
      BY <1>3, <1>4, <2>2 DEF Midway
    <3>3. TopTold(e) = Rounds(e, f, FieldCount(f), dataTop.number)
      BY <3>1 DEF TopTold
    <3>4. TopTold(e)' = Rounds(e, top'.node, FieldCount(top.node)', dataTop'.number)
      BY <3>2 DEF TopTold
    <3> QED BY <1>4, <2>2, <3>3, <3>4
  <2>4. ToldSoFar(e)'
    <3>1. Delivered(emitted') = V[Len(stack') + 1] \o TopTold(e)'
      BY <1>2, <1>4, <2>1, <2>3
    <3> QED BY <1>4, <3>1 DEF ToldSoFar
  <2>5. CountOK'
    BY <1>1, <1>3, <1>4, <2>2 DEF CountOK
  <2> QED BY <2>4, <2>5
<1> QED BY <1>6, <1>7

(* A leaf that is not there is the last one of its parent. *)
LEMMA AbsentLast ==
  ASSUME OptionalLast, FieldInv, purpose = "lend", stack # <<>>, IsLeaf(top.node),
         FieldCount(top.node) = 0
  PROVE  RepetitionDone
<1> DEFINE n == Len(stack)
           p == stack[n].node
           j == stack[n].next
<1>1. /\ n \in 1..n /\ Last(stack) = stack[n] /\ sub = SubFields
  BY FieldAtHand, Shortened DEF FieldInv, TypeOK
<1>2. /\ p \in Node /\ j \in 1..Len(SubFields[p]) /\ FieldAt(n) = SubFields[p][j]
  BY <1>1, SuspendedAt
<1>3. top.node = SubFields[p][j] /\ Repetition \in DOMAIN content[top.node]
      /\ content[top.node][Repetition] = 0 /\ content \in Contents
  BY <1>2, FieldAtHand DEF FieldAt, FieldInv, RestOK
<1>4. j \notin 1..(Len(SubFields[p]) - 1)
  <2> HIDE DEF p, j
  <2> QED BY <1>2, <1>3 DEF OptionalLast
<1>5. j = Len(SubFields[p])
  BY <1>2, <1>4, SubFieldsType
<1> QED BY <1>1, <1>5 DEF RepetitionDone, SubNodeCount

(* onTraversal of a leaf tells all of it, and the parent goes on. *)
LEMMA LeafOn ==
  ASSUME NoneIgnored, OptionalLast, FieldInv, purpose = "lend", NEW e, Grammar(content, e),
         ToldSoFar(e), CountOK, NEW r \in {"zero", "positive"}, ParseLeaf(r)
  PROVE  ToldSoFar(e)' /\ CountOK'
<1> DEFINE f == top.node
<1>1. /\ stack # <<>> /\ IsLeaf(f) /\ pc = "at" /\ i = 0
      /\ InvokeCallback(f, r) /\ UNCHANGED <<content, sub>>
      /\ PopStack(r = "positive" \/ Again) /\ PopData
  <2>1. AtEnd /\ PostOrder /\ OnTraversal
    BY DEF ParseLeaf, VisitAndLeave
  <2>2. stack # <<>> /\ IsLeaf(f) /\ UNCHANGED sub
    BY <2>1, LeafBelow DEF OnTraversal
  <2>3. pc = "at" /\ i <= SubNodeCount(f) /\ i \in Nat
    BY <2>1 DEF AtEnd, CountOK, FieldInv, TypeOK
  <2>4. SubNodeCount(f) = 0
    BY <2>2, FieldAtHand DEF IsLeaf, IsCombined
  <2>5. r # "negative" /\ r # "throw"
    OBVIOUS
  <2> QED BY <2>2, <2>3, <2>4, <2>5 DEF ParseLeaf, VisitAndLeave
<1>2. PICK V : /\ ParseChain(e, stack, data, V)
               /\ Delivered(emitted) = V[Len(stack) + 1] \o TopTold(e)
  BY DEF ToldSoFar
<1>3. V[Len(stack) + 1] \in Seq(Piece)
  <2>1. Len(stack) + 1 \in 1..(Len(stack) + 1)
    BY DEF FieldInv, TypeOK
  <2> QED BY <1>2, <2>1 DEF ParseChain
<1> DEFINE u == V[Len(stack) + 1]
<1>4. Delivered(emitted) = u
  <2>1. TopTold(e) = <<>>
    BY <1>1, LeafTold
  <2> QED BY <1>2, <1>3, <2>1, ConcatEmptySeq
<1>5. Delivered(emitted') = u \o e[f][Repetition]
  <2>1. CASE r = "zero"
    <3>1. Present(f) /\ ~BadDependent(f) /\ Emit(f)
      BY <1>1, <2>1, ZeroCalls
    <3>2. Delivered(emitted') = u \o << <<f, dataTop.number + 1, FieldCount(f)>> >>
      BY <1>1, <1>4, <3>1, CallTold
    <3>3. e[f][Repetition] = << <<f, dataTop.number + 1, FieldCount(f)>> >>
      BY <1>1, <3>1, LeafTold
    <3> QED BY <3>2, <3>3
  <2>2. CASE r = "positive"
    <3>1. ~Present(f) /\ emitted' = emitted
      BY <1>1, <2>2, PositiveAbsent
    <3>2. e[f][Repetition] = <<>>
      BY <1>1, <3>1, LeafTold
    <3>3. u \o <<>> = u
      BY <1>3, ConcatEmptySeq
    <3> QED BY <1>4, <3>1, <3>2, <3>3
  <2> QED BY <2>1, <2>2
<1>6. Complete(e)
  BY <1>2, <1>5 DEF Complete
<1>7. r = "positive" => RepetitionDone
  <2>1. SUFFICES ASSUME r = "positive"  PROVE RepetitionDone
    OBVIOUS
  <2>2. ~Present(f)
    BY <1>1, <2>1, PositiveAbsent
  <2>3. FieldCount(f) = 0
    BY <1>1, <2>2, LeafTold
  <2> QED BY <1>1, <2>3, AbsentLast
<1> DEFINE re == r = "positive" \/ Again
<1>8. re \in BOOLEAN /\ Returns(re)
  <2>1. Again => RepetitionDone
    BY DEF Again
  <2> HIDE DEF Again
  <2> QED BY <1>1, <1>7, <2>1 DEF Returns
<1> HIDE DEF re
<1> QED BY <1>6, <1>8, PopTold

(* Between the sub-fields nothing is told. *)
LEMMA PassOn ==
  ASSUME FieldInv, purpose = "lend", NEW e, ToldSoFar(e), CountOK, NextSubField
  PROVE  ToldSoFar(e)' /\ CountOK'
<1>1. /\ pc = "at" /\ i < SubNodeCount(top.node) /\ i # 0 /\ pc' = "past"
      /\ UNCHANGED <<sub, stack, top, i>>
      /\ UNCHANGED <<dataTop, data, content, emitted>>
  BY DEF NextSubField, PassOrder, nodeVars, parseOnly, FieldInv, ControlOK
<1>2. Midway /\ Midway'
  BY <1>1 DEF Midway
<1>3. TopTold(e)' = TopTold(e)
  BY <1>1, <1>2 DEF TopTold
<1>4. ToldSoFar(e)'
  BY <1>1, <1>3 DEF ToldSoFar
<1>5. CountOK'
  BY <1>1 DEF CountOK, SubNodeCount
<1> QED BY <1>4, <1>5

(* What was told of the parent is kept while a sub-field is parsed. *)
LEMMA EnterOn ==
  ASSUME FieldInv, purpose = "lend", NEW e, Grammar(content, e), ToldSoFar(e), EnterSubField
  PROVE  ToldSoFar(e)' /\ CountOK'
<1> DEFINE n == Len(stack)
           f == top.node
           item == Item(f, i + 1)
           w == Doing(e, f, dataTop, i)
<1>1. /\ pc = "past" /\ pc' = "at" /\ i' = 0 /\ i < SubNodeCount(f) /\ i \in Nat
      /\ stack' = Append(stack, item)
      /\ data' = Append(data, dataTop) /\ dataTop' = NewData
      /\ UNCHANGED <<sub, content, emitted>>
      /\ stack \in Seq(StackItem) /\ data \in Seq(Data) /\ dataTop \in Data /\ Len(data) = n
      /\ item.node = f /\ item.next = i + 1
  <2>1. /\ pc = "past" /\ pc' = "at" /\ i' = 0
        /\ stack' = Append(stack, item)
        /\ data' = Append(data, dataTop) /\ dataTop' = NewData
        /\ UNCHANGED <<sub, content, emitted>>
    BY DEF EnterSubField, PushStack, nodeVars
  <2>2. /\ stack \in Seq(StackItem) /\ data \in Seq(Data) /\ dataTop \in Data /\ Len(data) = n
        /\ i \in Nat
    BY DEF FieldInv, TypeOK, RestOK, DataOK
  <2>3. i < SubNodeCount(f)
    BY <2>1 DEF FieldInv, ControlOK
  <2>4. item.node = f /\ item.next = i + 1
    BY DEF Item
  <2> QED BY <2>1, <2>2, <2>3, <2>4
<1>2. /\ f \in Node /\ SubNodeCount(f) = Len(SubFields[f]) /\ Len(SubFields[f]) \in Nat
      /\ Amid(content, f, dataTop, Repetition)
  <2>1. Going(f, dataTop, Repetition)
    BY <1>1 DEF FieldInv, DataOK
  <2> QED BY <1>1, <2>1, FieldAtHand DEF Going, Amid
<1>3. item \in StackItem
  BY <1>1, <1>2 DEF Item, StackItem, NodeOrNil
<1>4. /\ n \in Nat /\ Len(stack') = n + 1 /\ stack'[n + 1] = item /\ data'[n + 1] = dataTop
      /\ \A k \in 1..n : stack'[k] = stack[k] /\ data'[k] = data[k]
  <2> HIDE DEF item, Data
  <2> QED BY <1>1, <1>3, Appended
<1>5. PICK V : /\ ParseChain(e, stack, data, V)
               /\ Delivered(emitted) = V[n + 1] \o TopTold(e)
  BY DEF ToldSoFar
<1>6. TopTold(e) = w
  BY <1>1 DEF TopTold, Midway
<1>7. w \in Seq(Piece)
  <2>1. i \in 0..Len(SubFields[f])
    BY <1>1, <1>2
  <2> HIDE DEF f
  <2> QED BY <1>2, <2>1, DoingParts
<1>8. /\ V \in [1..(n + 1) -> Seq(Piece)] /\ V[1] = <<>>
      /\ \A k \in 1..n : V[k + 1] = V[k] \o Doing(e, stack[k].node, data[k], stack[k].next - 1)
  BY <1>5 DEF ParseChain
<1> DEFINE W == [k \in 1..(n + 2) |-> IF k = n + 2 THEN V[n + 1] \o w ELSE V[k]]
<1>9. /\ \A k \in 1..(n + 1) : W[k] = V[k]
      /\ W[n + 2] = V[n + 1] \o w
      /\ W \in [1..(n + 2) -> Seq(Piece)]
  <2> HIDE DEF n, w
  <2>1. n + 1 \in 1..(n + 1) /\ \A k \in 1..(n + 2) : k = n + 2 \/ k \in 1..(n + 1)
    BY <1>4
  <2>2. V[n + 1] \in Seq(Piece)
    BY <1>8, <2>1
  <2> DEFINE u == V[n + 1] \o w
  <2>3. u \in Seq(Piece)
    BY <1>7, <2>2, ConcatProperties
  <2> HIDE DEF u
  <2>4. \A k \in 1..(n + 2) : W[k] = IF k = n + 2 THEN u ELSE V[k]
    BY DEF u
  <2>5. DOMAIN W = 1..(n + 2) /\ W = [k \in 1..(n + 2) |-> W[k]]
    OBVIOUS
  <2>6. n + 2 \in 1..(n + 2) /\ \A k \in 1..(n + 1) : k \in 1..(n + 2) /\ k # n + 2
    BY <1>4
  <2> HIDE DEF W
  <2>7. \A k \in 1..(n + 2) : W[k] \in Seq(Piece)
    BY <1>8, <2>1, <2>3, <2>4
  <2> QED BY <2>4, <2>5, <2>6, <2>7 DEF u
<1> HIDE DEF W
<1>10. ParseChain(e, stack', data', W)
  <2>1. Len(stack') + 1 = n + 2 /\ 1 \in 1..(n + 1)
    BY <1>4
  <2>2. ASSUME NEW k \in 1..Len(stack')
        PROVE  W[k + 1] = W[k] \o Doing(e, stack'[k].node, data'[k], stack'[k].next - 1)
    <3>1. CASE k = n + 1
      <4>1. W[k + 1] = V[n + 1] \o w /\ W[k] = V[n + 1]
        <5>1. k + 1 = n + 2 /\ k \in 1..(n + 1)
          BY <1>4, <3>1
        <5> HIDE DEF w, n
        <5> QED BY <1>9, <3>1, <5>1
      <4>2. stack'[k].node = f /\ data'[k] = dataTop /\ stack'[k].next - 1 = i
        <5> HIDE DEF item, n
        <5>1. stack'[k] = item /\ data'[k] = dataTop
          BY <1>4, <3>1
        <5>2. item.node = f /\ item.next - 1 = i
          BY <1>1
        <5> QED BY <5>1, <5>2
      <4> QED BY <4>1, <4>2
    <3>2. CASE k # n + 1
      <4>1. k \in 1..n /\ k \in 1..(n + 1) /\ k + 1 \in 1..(n + 1)
        BY <1>4, <3>2
      <4>2. W[k + 1] = V[k + 1] /\ W[k] = V[k]
        <5> HIDE DEF w, n
        <5> QED BY <1>9, <4>1
      <4>3. stack'[k] = stack[k] /\ data'[k] = data[k]
        BY <1>4, <4>1
      <4> QED BY <1>8, <4>1, <4>2, <4>3
    <3> QED BY <3>1, <3>2
  <2>3. W[1] = <<>>
    <3> HIDE DEF w, n
    <3> QED BY <1>8, <1>9, <2>1
  <2> HIDE DEF w, n
  <2> QED BY <1>9, <2>1, <2>2, <2>3 DEF ParseChain
<1>11. TopTold(e)' = <<>> /\ FieldCount(top.node)' \in Nat /\ SubNodeCount(top.node)' \in Nat
  <2>1. ~Midway'
    BY <1>1 DEF Midway
  <2>2. TopTold(e)' = Rounds(e, top'.node, FieldCount(top.node)', dataTop'.number)
    BY <2>1 DEF TopTold
  <2>3. dataTop'.number = 0
    BY <1>1 DEF NewData
  <2> DEFINE g == SubFields[f][i + 1]
             r == dataTop.number + 1
  <2>4. top'.node = g /\ sub' = SubFields /\ content' = content /\ Repetition' = r
    <3>1. top'.node = g /\ sub' = SubFields
      BY <1>1, FieldAtHand DEF EnterSubField, PushStack, Item
    <3>2. Len(data') = n + 1 /\ data' # <<>>
      <4>1. data' = Append(data, dataTop) /\ data \in Seq(Data) /\ dataTop \in Data
        BY <1>1
      <4> HIDE DEF Data
      <4> QED BY <1>1, <4>1, Appended
    <3>3. data'[n + 1] = dataTop
      BY <1>4
    <3> QED BY <1>1, <3>1, <3>2, <3>3 DEF Repetition
  <2>5. FieldCount(top.node)' \in Nat /\ SubNodeCount(top.node)' \in Nat
    <3>1. i + 1 \in 1..Len(SubFields[f])
      BY <1>1, <1>2
    <3>2. g \in Node /\ Len(SubFields[g]) \in Nat
      BY <1>2, <3>1, SubFieldsType
    <3>3. content \in Contents /\ Repetition \in DOMAIN content[f]
      BY <1>2 DEF Amid, FieldInv, RestOK
    <3>4. r \in 1..content[f][Repetition]
      <4>1. /\ r \in Nat /\ r <= content[f][Repetition] /\ 1 <= r
            /\ content[f][Repetition] \in Nat
        BY <1>1, <1>2, <3>3, BufferTells DEF Amid, Data
      <4> QED BY <4>1
    <3>5. r \in DOMAIN content[g]
      <4> HIDE DEF f, r
      <4> QED BY <1>2, <3>1, <3>3, <3>4, BufferTells
    <3>6. content[g][r] \in Nat
      <4>1. content[g] \in Seq(Nat)
        BY <3>2, <3>3, ContentsAssumption
      <4> HIDE DEF g, r
      <4> QED BY <3>5, <4>1
    <3> QED BY <2>4, <3>2, <3>6 DEF FieldCount, SubNodeCount
  <2>6. Rounds(e, top'.node, FieldCount(top.node)', 0) = <<>>
    BY RoundsNone
  <2> QED BY <2>2, <2>3, <2>5, <2>6
<1>12. ToldSoFar(e)'
  <2>1. V[n + 1] \o w = (V[n + 1] \o w) \o <<>>
    <3>1. V[n + 1] \in Seq(Piece)
      <4>1. n + 1 \in 1..(n + 1)
        BY <1>4
      <4> HIDE DEF n
      <4> QED BY <1>8, <4>1
    <3> HIDE DEF n, w
    <3> DEFINE u == V[n + 1] \o w
    <3>2. u \in Seq(Piece)
      BY <1>7, <3>1, ConcatProperties
    <3> HIDE DEF u
    <3>3. u = u \o <<>>
      BY <3>2, ConcatEmptySeq
    <3> QED BY <3>3 DEF u
  <2>2. Len(stack') + 1 = n + 2
    BY <1>4
  <2>3. Delivered(emitted') = W[Len(stack') + 1] \o TopTold(e)'
    <3>1. Delivered(emitted') = V[n + 1] \o w
      BY <1>1, <1>5, <1>6
    <3> HIDE DEF n, w
    <3> QED BY <1>9, <1>11, <2>1, <2>2, <3>1
  <2> QED BY <1>10, <2>3 DEF ToldSoFar
<1>13. CountOK'
  <2>1. dataTop'.number = 0 /\ i' = 0
    BY <1>1 DEF NewData
  <2> QED BY <1>11, <2>1 DEF CountOK
<1> QED BY <1>12, <1>13

-----------------------------------------------------------------------------
(* A combined field is left when all of it is told. *)
LEMMA LeavesWhole ==
  ASSUME FieldInv, purpose = "lend", NEW e, Grammar(content, e), ToldSoFar(e), CountOK,
         LeaveCombined
  PROVE  Complete(e)
<1> DEFINE f == top.node
<1>1. /\ pc = "at" /\ i = SubNodeCount(f) /\ i # 0 /\ emitted' = emitted
  <2>1. AtEnd /\ ~PostOrder
    BY DEF LeaveCombined, Leave
  <2>2. i \in Nat /\ SubNodeCount(f) \in Nat /\ order = 0 /\ i <= SubNodeCount(f)
    BY FieldAtHand DEF FieldInv, TypeOK, ControlOK, CountOK
  <2>3. emitted' = emitted
    BY DEF LeaveCombined
  <2> QED BY <2>1, <2>2, <2>3 DEF AtEnd, PostOrder
<1>2. PICK V : /\ ParseChain(e, stack, data, V)
               /\ Delivered(emitted) = V[Len(stack) + 1] \o TopTold(e)
  BY DEF ToldSoFar
<1>3. /\ f \in Node /\ ~IsLeaf(f) /\ Repetition \in DOMAIN content[f]
      /\ FieldCount(f) = content[f][Repetition] /\ dataTop.number = FieldCount(f)
  BY <1>1, FieldAtHand DEF CountOK, IsLeaf, IsCombined
<1>4. TopTold(e) = Rounds(e, f, FieldCount(f), FieldCount(f))
  <2>1. ~Midway
    BY <1>1, FieldAtHand DEF Midway
  <2> QED BY <1>3, <2>1 DEF TopTold
<1>5. e[f][Repetition] = Rounds(e, f, FieldCount(f), FieldCount(f))
  <2>1. e[f][Repetition] = Rounds(e, f, content[f][Repetition], content[f][Repetition])
    <3> HIDE DEF f
    <3> QED BY <1>3, WholeCombined
  <2> QED BY <1>3, <2>1
<1> QED BY <1>1, <1>2, <1>4, <1>5 DEF Complete

(* The parent goes on behind a complete field, or starts over. *)
LEMMA LeaveOn ==
  ASSUME FieldInv, purpose = "lend", NEW e, Grammar(content, e), ToldSoFar(e), CountOK,
         LeaveCombined, stack # <<>>
  PROVE  ToldSoFar(e)' /\ CountOK'
<1>1. Complete(e)
  BY LeavesWhole
<1> DEFINE re == Again
<1>2. re \in BOOLEAN /\ Returns(re)
  <2>1. PopStack(Again) /\ PopData /\ UNCHANGED <<sub, content>>
    BY DEF LeaveCombined, Leave
  <2>2. Again => RepetitionDone
    BY DEF Again
  <2>3. Again \in BOOLEAN
    BY DEF Again
  <2> HIDE DEF Again
  <2> QED BY <2>1, <2>2, <2>3 DEF Returns
<1> HIDE DEF re
<1> QED BY <1>1, <1>2, PopTold

-----------------------------------------------------------------------------
(***************************************************************************)
(* No call is ever made that the expansion does not have next.             *)
(***************************************************************************)

(* What is told of the field at hand is the beginning of its expansion,    *)
(* also if the callback breaks the parse off.                              *)
LEMMA CallsThat ==
  ASSUME FieldInv, purpose = "lend", NEW r, InvokeCallback(top.node, r)
  PROVE  UNCHANGED emitted \/ (~BadDependent(top.node) /\ Emit(top.node) /\ Present(top.node))
BY DEF InvokeCallback, DependentMissing, Absent, Accept, Break, CallbackThrows

(* The call at hand continues the expansion of its field. *)
LEMMA CallBegins ==
  ASSUME FieldInv, purpose = "lend", NEW e, Grammar(content, e), CountOK, pc = "at", i = 0,
         ~BadDependent(top.node), Emit(top.node), Present(top.node)
  PROVE  /\ TopTold(e) \o << <<top.node, dataTop.number + 1, FieldCount(top.node)>> >> \in Seq(Piece)
         /\ Begins(TopTold(e) \o << <<top.node, dataTop.number + 1, FieldCount(top.node)>> >>,
                   e[top.node][Repetition])
<1> DEFINE f == top.node
           t == TopTold(e)
           w == << <<f, dataTop.number + 1, FieldCount(f)>> >>
           d == Counted(f)
<1>1. t \in Seq(Piece) /\ w \in Seq(Piece)
  BY CallTold
<1>2. t \o w \in Seq(Piece)
  <2> HIDE DEF t, w
  <2> QED BY <1>1, ConcatProperties
<1>3. f \in Node /\ Repetition \in DOMAIN content[f] /\ Len(SubFields[f]) \in Nat
  BY FieldAtHand
<1>4. CASE IsLeaf(f)
  <2>1. t = <<>> /\ e[f][Repetition] = w
    BY <1>4, LeafTold
  <2> HIDE DEF t, w
  <2>2. t \o w = w
    BY <1>1, <2>1, ConcatEmptySeq
  <2>3. Begins(w, w)
    BY <1>1, BeginsSame
  <2> QED BY <1>2, <2>1, <2>2, <2>3 DEF t, w
<1>5. CASE ~IsLeaf(f)
  <2>1. Amid(content, f, d, Repetition) /\ Doing(e, f, d, 0) = t \o w
    BY CombinedTold
  <2>2. 0 \in 0..Len(SubFields[f])
    BY <1>3
  <2> HIDE DEF f, d, t, w
  <2>3. Begins(Doing(e, f, d, 0), e[f][Repetition])
    BY <1>3, <1>5, <2>1, <2>2, DoingRest
  <2> QED BY <1>2, <2>1, <2>3 DEF f, t, w
<1> QED BY <1>4, <1>5

(* So it continues that of the parser, down all the suspended fields. *)
LEMMA CallExpands ==
  ASSUME FieldInv, purpose = "lend", NEW e, Grammar(content, e), ToldSoFar(e), CountOK,
         pc = "at", i = 0, ~BadDependent(top.node), Emit(top.node), Present(top.node)
  PROVE  IsPrefix(Delivered(emitted'), e[Parser][1])
<1> DEFINE n == Len(stack)
           f == top.node
           t == TopTold(e)
           w == << <<f, dataTop.number + 1, FieldCount(f)>> >>
           x == t \o w
           y == e[f][Repetition]
           z == e[Parser][1]
<1>1. PICK V : /\ ParseChain(e, stack, data, V)
               /\ Delivered(emitted) = V[n + 1] \o t
  BY DEF ToldSoFar
<1> DEFINE u == V[n + 1]
<1>2. u \in Seq(Piece) /\ n \in Nat
  <2>1. n + 1 \in 1..(n + 1) /\ n \in Nat
    BY DEF FieldInv, TypeOK
  <2> QED BY <1>1, <2>1 DEF ParseChain
<1>3. /\ t \in Seq(Piece) /\ w \in Seq(Piece)
      /\ Delivered(emitted') = (u \o t) \o w
  BY <1>1, CallTold
<1>4. x \in Seq(Piece) /\ Begins(x, y)
  BY CallBegins
<1>5. y \in Seq(Piece)
  <2>1. f \in Node /\ Repetition \in DOMAIN content[f]
    BY FieldAtHand
  <2> HIDE DEF f
  <2> QED BY <2>1, GrammarKnown
<1>6. z \in Seq(Piece)
  BY <1>1, FrameFirst
<1>7. Begins(u \o y, z)
  <2>1. FieldAt(n) = f /\ RepetitionAt(n + 1) = Repetition
    BY FieldAtHand DEF FieldAt
  <2>2. n \in 0..n
    BY <1>2
  <2>3. Begins(V[n + 1] \o e[FieldAt(n)][RepetitionAt(n + 1)], e[Parser][1])
    BY <1>1, <2>2, FrameRest
  <2> QED BY <2>1, <2>3
<1>8. Delivered(emitted') = u \o x
  <2> HIDE DEF u, t, w
  <2>1. (u \o t) \o w = u \o (t \o w)
    BY ONLY <1>2, <1>3, ConcatAssociative
  <2> QED BY <1>3, <2>1
<1> HIDE DEF u, x, y, z
<1>9. Begins(u \o x, u \o y)
  BY <1>2, <1>4, <1>5, BeginsAfter
<1> DEFINE a == u \o x
           b == u \o y
<1>10. a \in Seq(Piece) /\ b \in Seq(Piece)
  BY <1>2, <1>4, <1>5, ConcatProperties
<1>11. Begins(a, b) /\ Begins(b, z)
  BY <1>7, <1>9
<1> HIDE DEF a, b
<1>12. Begins(a, z)
  BY <1>6, <1>10, <1>11, BeginsTrans
<1>13. IsPrefix(a, z)
  BY <1>10, <1>12, BeginsPrefix
<1> QED BY <1>8, <1>13 DEF a, z

(* A parse begins with nothing told. *)
LEMMA NothingTold ==
  ASSUME NoCircle, NEW b \in Contents
  PROVE  /\ Grammar(b, Expansions(b))
         /\ IsPrefix(<<>>, Expansions(b)[Parser][1])
         /\ b[Parser][1] \in Nat /\ b[Parser] # <<>>
<1> DEFINE e == Expansions(b)
           z == e[Parser][1]
<1>1. Grammar(b, e)
  BY ExpansionsAre DEF Grammar, NoCircle
<1>2. Parser \in Node /\ b[Parser] \in Seq(Nat) /\ b[Parser] # <<>>
  BY ParseAssumption, ContentsAssumption
<1>3. 1 \in DOMAIN b[Parser] /\ b[Parser][1] \in Nat
  BY <1>2
<1>4. z \in Seq(Piece)
  <2> HIDE DEF e
  <2> QED BY <1>1, <1>2, <1>3, GrammarKnown
<1> HIDE DEF z
<1>5. <<>> \in Seq(Piece) /\ z = <<>> \o z
  BY <1>4, ConcatEmptySeq
<1>6. Begins(<<>>, z)
  BY <1>4, <1>5 DEF Begins
<1>7. IsPrefix(<<>>, z)
  BY <1>5, <1>6, BeginsPrefix
<1> QED BY <1>1, <1>2, <1>3, <1>7 DEF z

(* ParseField starts with nothing told and nothing counted. *)
LEMMA BeginOn ==
  ASSUME FieldInv, NEW c \in Contents, ParseField(c), NEW e
  PROVE  ToldSoFar(e)' /\ CountOK'
<1>1. /\ pc' = "at" /\ stack' = <<>> /\ top' = Item(Parser, 0)
      /\ content' = c /\ emitted' = <<>> /\ DropData /\ i' = 0 /\ sub' = SubFields
      /\ Parser \in Node
  <2>1. pc = "idle" /\ alive = Node /\ i' = i /\ sub' = sub
    BY DEF ParseField
  <2>2. i = 0 /\ sub = SubFields
    BY <2>1 DEF FieldInv, ControlOK
  <2> QED BY <2>1, <2>2, ParseAssumption DEF ParseField
<1>2. /\ top'.node = Parser /\ data' = <<>> /\ dataTop'.number = 0 /\ Repetition' = 1
      /\ FieldCount(top.node)' = c[Parser][1]
      /\ SubNodeCount(top.node)' = Len(SubFields[Parser])
  BY <1>1 DEF Item, DropData, NewData, Repetition, FieldCount, SubNodeCount
<1>3. c[Parser][1] \in Nat /\ Len(SubFields[Parser]) \in Nat
  <2>1. c[Parser] \in Seq(Nat) /\ c[Parser] # <<>>
    BY <1>1, ContentsAssumption
  <2> QED BY <1>1, <2>1, SubFieldsType
<1>4. TopTold(e)' = <<>>
  <2>1. ~Midway'
    BY <1>1 DEF Midway
  <2>2. TopTold(e)' = Rounds(e, top'.node, FieldCount(top.node)', dataTop'.number)
    BY <2>1 DEF TopTold
  <2>3. Rounds(e, top'.node, FieldCount(top.node)', 0) = <<>>
    BY RoundsNone
  <2> QED BY <1>2, <2>2, <2>3
<1> DEFINE V == [k \in 1..1 |-> <<>>]
<1>5. V \in [1..1 -> Seq(Piece)] /\ V[1] = <<>>
  OBVIOUS
<1> HIDE DEF V
<1>6. ParseChain(e, stack', data', V) /\ Len(stack') + 1 = 1
  <2>1. Len(stack') = 0 /\ 1..0 = {}
    BY <1>1
  <2> QED BY <1>5, <2>1 DEF ParseChain
<1>7. Delivered(emitted') = <<>>
  BY <1>1 DEF Delivered
<1>8. <<>> \o <<>> = <<>>
  <2>1. <<>> \in Seq(Piece)
    OBVIOUS
  <2> QED BY <2>1, ConcatEmptySeq
<1>9. ToldSoFar(e)'
  <2>1. Delivered(emitted') = V[Len(stack') + 1] \o TopTold(e)'
    BY <1>4, <1>5, <1>6, <1>7, <1>8
  <2> QED BY <1>6, <2>1 DEF ToldSoFar
<1>10. CountOK'
  BY <1>1, <1>2, <1>3 DEF CountOK
<1> QED BY <1>9, <1>10

(* What a call at hand makes of the invariant. *)
LEMMA CallsExpand ==
  ASSUME NoCircle, ExpandInv, purpose = "lend", NEW r, ParseCombined(r) \/ ParseLeaf(r)
  PROVE  ParseExpands'
<1> DEFINE e == Expansions(content)
<1>1. FieldInv /\ ToldSoFar(e) /\ CountOK /\ ParseExpands /\ Grammar(content, e)
  BY GrammarIs DEF ExpandInv
<1>2. /\ pc = "at" /\ i = 0 /\ InvokeCallback(top.node, r) /\ content' = content
  <2>1. CASE ParseCombined(r)
    BY <1>1, <2>1 DEF ParseCombined, VisitAt, FieldInv, ControlOK
  <2>2. CASE ParseLeaf(r)
    <3>1. AtEnd /\ PostOrder
      BY <2>2 DEF ParseLeaf, VisitAndLeave
    <3>2. IsLeaf(top.node)
      BY <1>1, <3>1, LeafBelow
    <3>3. SubNodeCount(top.node) = 0
      BY <1>1, <3>2, FieldAtHand DEF IsLeaf, IsCombined
    <3>4. i <= SubNodeCount(top.node) /\ i \in Nat
      BY <1>1 DEF CountOK, FieldInv, TypeOK
    <3> QED BY <2>2, <3>1, <3>3, <3>4 DEF ParseLeaf, AtEnd
  <2> QED BY <2>1, <2>2
<1>3. Expand(Parser, 1)' = e[Parser][1] /\ Expand(Parser, 1) = e[Parser][1]
  BY <1>2 DEF Expand, Expansions
<1>4. CASE UNCHANGED emitted
  BY <1>1, <1>3, <1>4 DEF ParseExpands
<1>5. CASE ~BadDependent(top.node) /\ Emit(top.node) /\ Present(top.node)
  <2>1. IsPrefix(Delivered(emitted'), e[Parser][1])
    <3> HIDE DEF e
    <3> QED BY <1>1, <1>2, <1>5, CallExpands
  <2> HIDE DEF e
  <2> QED BY <1>3, <2>1 DEF ParseExpands
<1> QED BY <1>1, <1>2, <1>4, <1>5, CallsThat

(* A step of ParseField keeps what is told in step with the walk. *)
LEMMA ParseTells ==
  ASSUME NoneIgnored, OptionalLast, FieldInv, purpose = "lend", NEW e, Grammar(content, e),
         ToldSoFar(e), CountOK, Parse, purpose' = "lend"
  PROVE  ToldSoFar(e)' /\ CountOK'
<1>1. ASSUME NEW r \in {"zero", "positive", "negative", "throw"}, ParseCombined(r)
      PROVE  ToldSoFar(e)' /\ CountOK'
  <2>1. r \in {"zero", "positive"}
    BY <1>1 DEF ParseCombined, VisitAt, Finish, Unwind
  <2> QED BY <1>1, <2>1, CombinedOn
<1>2. ASSUME NEW r \in {"zero", "positive", "negative", "throw"}, ParseLeaf(r)
      PROVE  ToldSoFar(e)' /\ CountOK'
  <2>1. r \in {"zero", "positive"}
    BY <1>2 DEF ParseLeaf, VisitAndLeave, Finish, Unwind
  <2> QED BY <1>2, <2>1, LeafOn
<1>3. CASE LeaveCombined
  <2>1. stack # <<>>
    BY <1>3 DEF LeaveCombined, Leave, PopStack, Finish
  <2> QED BY <1>3, <2>1, LeaveOn
<1> QED BY <1>1, <1>2, <1>3, PassOn, EnterOn DEF Parse

(* Every step keeps the calls in step with the expansion. *)
LEMMA ExpandNext ==
  ASSUME NoCircle, NoneIgnored, OptionalLast
  PROVE  ExpandInv /\ [ParseNext]_parseVars => ExpandInv'
<1> SUFFICES ASSUME ExpandInv, [ParseNext]_parseVars
             PROVE  /\ purpose' = "lend" => ToldSoFar(Expansions(content))' /\ CountOK'
                    /\ ParseExpands'
  BY FieldNext DEF ExpandInv
<1>1. FieldInv /\ ParseExpands
  BY DEF ExpandInv
<1>2. ASSUME NEW c \in Contents, ParseField(c)
      PROVE  /\ ToldSoFar(Expansions(content))' /\ CountOK'
             /\ ParseExpands'
  <2>1. PICK e : e = Expansions(c)
    OBVIOUS
  <2>2. ToldSoFar(e)' /\ CountOK'
    BY <1>1, <1>2, BeginOn
  <2>3. content' = c /\ emitted' = <<>>
    BY <1>2 DEF ParseField
  <2>4. ToldSoFar(Expansions(content))'
    BY <2>1, <2>2, <2>3 DEF ToldSoFar, TopTold
  <2>5. IsPrefix(<<>>, Expansions(c)[Parser][1])
    BY NothingTold
  <2>6. Expand(Parser, 1)' = Expansions(c)[Parser][1]
    BY <2>3 DEF Expand, Expansions
  <2>7. Delivered(emitted') = <<>>
    BY <2>3 DEF Delivered
  <2>8. ParseExpands'
    BY <2>5, <2>6, <2>7 DEF ParseExpands
  <2> QED BY <2>2, <2>4, <2>8
<1>3. ASSUME UNCHANGED <<emitted, content>>
      PROVE  ParseExpands'
  <2>1. Expand(Parser, 1)' = Expand(Parser, 1)
    BY <1>3 DEF Expand, Expansion, SubExpansion
  <2> QED BY <1>1, <1>3, <2>1 DEF ParseExpands
<1>4. CASE Parse
  <2>1. purpose = "lend"
    BY <1>4 DEF Parse
  <2>2. content' = content
    BY <1>4 DEF Parse, ParseCombined, ParseLeaf, NextSubField, EnterSubField, LeaveCombined, parseOnly
  <2>3. ParseExpands'
    <3>1. CASE NextSubField \/ EnterSubField \/ LeaveCombined
      <4>1. emitted' = emitted
        BY <3>1 DEF NextSubField, EnterSubField, LeaveCombined, parseOnly
      <4> QED BY <1>3, <2>2, <4>1
    <3>2. ASSUME NEW r, ParseCombined(r) \/ ParseLeaf(r)  PROVE ParseExpands'
      BY <2>1, <3>2, CallsExpand
    <3> QED BY <1>4, <3>1, <3>2 DEF Parse
  <2>4. ASSUME purpose' = "lend"
        PROVE  ToldSoFar(Expansions(content))' /\ CountOK'
    <3>1. PICK e : e = Expansions(content)
      OBVIOUS
    <3>2. ToldSoFar(e) /\ CountOK /\ Grammar(content, e)
      <4>1. ToldSoFar(Expansions(content)) /\ CountOK
        BY <2>1 DEF ExpandInv
      <4> QED BY <1>1, <3>1, <4>1, GrammarIs
    <3>3. ToldSoFar(e)' /\ CountOK'
      BY <1>1, <1>4, <2>1, <2>4, <3>2, ParseTells
    <3>4. Expansions(content') = e
      BY <2>2, <3>1
    <3>5. ToldSoFar(Expansions(content))'
      BY <3>3, <3>4 DEF ToldSoFar, TopTold
    <3> QED BY <3>3, <3>5
  <2> QED BY <2>3, <2>4
<1>5. CASE Destruct \/ DestructStep
  <2>1. UNCHANGED <<emitted, content>>
    BY <1>5 DEF Destruct, DestructStep, parseOnly
  <2>2. purpose' # "lend"
    <3>1. CASE Destruct
      BY <3>1 DEF Destruct, Clear, StartWalk
    <3> QED BY <1>1, <1>5, <3>1, ParseOver
  <2> QED BY <1>3, <2>1, <2>2
<1>6. CASE UNCHANGED parseVars
  <2>1. /\ UNCHANGED <<sub, stack, top, i, purpose, pc>>
        /\ UNCHANGED <<dataTop, data, content, emitted>>
    BY <1>6 DEF parseVars, vars, nodeVars, walkVars, parseOnly
  <2>2. ParseExpands'
    BY <1>3, <2>1
  <2>3. ASSUME purpose' = "lend"
        PROVE  ToldSoFar(Expansions(content))' /\ CountOK'
    <3>1. ToldSoFar(Expansions(content)) /\ CountOK
      BY <2>1, <2>3 DEF ExpandInv
    <3>2. CountOK'
      BY <2>1, <3>1 DEF CountOK, SubNodeCount, FieldCount, Repetition
    <3>3. Midway' <=> Midway
      BY <2>1 DEF Midway, SubNodeCount
    <3>4. FieldCount(top.node)' = FieldCount(top.node)
      BY <2>1 DEF FieldCount, Repetition
    <3>5. ToldSoFar(Expansions(content))'
      BY <2>1, <3>1, <3>3, <3>4 DEF ToldSoFar, TopTold
    <3> QED BY <3>2, <3>5
  <2> QED BY <2>2, <2>3
<1> QED BY <1>2, <1>4, <1>5, <1>6 DEF ParseNext

(* ExpandInv is an invariant of the parse. *)
LEMMA ExpandInvariance ==
  ASSUME NoCircle, NoneIgnored, OptionalLast
  PROVE  ParseSpec => []ExpandInv
<1>1. ParseInit => ExpandInv
  <2> SUFFICES ASSUME ParseInit  PROVE ParseExpands
    BY ParseInit_Inv DEF ExpandInv, ParseInit
  <2>1. content \in Contents /\ Delivered(emitted) = <<>>
    BY ContentsAssumption DEF ParseInit, Delivered
  <2>2. IsPrefix(<<>>, Expansions(content)[Parser][1])
    BY <2>1, NothingTold
  <2> QED BY <2>1, <2>2, ExpandIs DEF ParseExpands
<1> QED BY <1>1, ExpandNext, PTL DEF ParseSpec

(* Whatever the tree of descriptors, the buffer, the dependencies and      *)
(* whenever the callback breaks the parse off, by an answer or by an       *)
(* exception: the calls made so far are the first ones of what the grammar *)
(* says, in its order, each with the right field, number and count         *)
(* (field_des.cpp, invokeCallback; field_des.h, afterPopStack).  The tree  *)
(* has no circle, no call is answered with > 0, and only the last sub-field *)
(* of a field may be an absent leaf: behind any other one the code starts  *)
(* the repetition over without counting it (parse_optional_leaf.cfg).      *)
THEOREM DeliversInOrder ==
  ASSUME NoCircle, NoneIgnored, OptionalLast
  PROVE  ParseSpec => []ParseExpands
<1>1. ExpandInv => ParseExpands
  BY DEF ExpandInv
<1> QED BY <1>1, ExpandInvariance, PTL

(* The parse ends when the parser itself is left, and then all is told. *)
LEMMA LastCall ==
  ASSUME NoCircle, ExpandInv, [ParseNext]_parseVars, purpose = "lend", AtEnd, stack = <<>>,
         pc' = "idle"
  PROVE  Delivered(emitted') = Expand(Parser, 1)
<1> DEFINE e == Expansions(content)
<1>1. FieldInv /\ ToldSoFar(e) /\ CountOK /\ Grammar(content, e)
  BY GrammarIs DEF ExpandInv
<1>2. pc = "at" /\ i >= SubNodeCount(top.node)
  BY DEF AtEnd
<1>3. LeaveCombined
  <2>1. ~(\E c \in Contents : ParseField(c)) /\ ~Destruct /\ ~DestructStep
    BY <1>2 DEF ParseField, Destruct, Clear, StartWalk, DestructStep
  <2>2. ~UNCHANGED parseVars
    <3>1. UNCHANGED parseVars => pc' = pc
      BY DEF parseVars, vars, walkVars
    <3> QED BY <1>2, <3>1
  <2>3. Parse
    BY <2>1, <2>2 DEF ParseNext
  <2>4. ASSUME NEW r, ParseCombined(r)  PROVE FALSE
    <3>1. i < SubNodeCount(top.node) /\ i \in Nat /\ SubNodeCount(top.node) \in Nat
      BY <1>1, <2>4, FieldAtHand DEF ParseCombined, VisitAt, FieldInv, TypeOK
    <3> QED BY <1>2, <3>1
  <2>5. ASSUME NEW r, ParseLeaf(r)  PROVE FALSE
    BY <1>1, <2>5, LeafBelow DEF ParseLeaf, VisitAndLeave
  <2>6. ~NextSubField /\ ~EnterSubField
    <3>1. NextSubField => i < SubNodeCount(top.node)
      BY DEF NextSubField, PassOrder
    <3>2. i \in Nat /\ SubNodeCount(top.node) \in Nat
      BY <1>1, FieldAtHand DEF FieldInv, TypeOK
    <3> QED BY <1>2, <3>1, <3>2 DEF EnterSubField, PushStack
  <2> QED BY <2>3, <2>4, <2>5, <2>6 DEF Parse
<1>4. PICK V : /\ ParseChain(e, stack, data, V)
               /\ Delivered(emitted') = V[Len(stack) + 1] \o e[top.node][Repetition]
  <2>1. Complete(e)
    <3> HIDE DEF e
    <3> QED BY <1>1, <1>3, LeavesWhole
  <2> QED BY <2>1 DEF Complete
<1>5. top.node = Parser /\ Repetition = 1 /\ Len(stack) = 0
  <2>1. top.node = Parser /\ Len(data) = Len(stack) /\ data \in Seq(Data)
    BY <1>1 DEF FieldInv, PathOK, DataOK, RestOK
  <2>2. Len(stack) = 0 /\ data = <<>>
    BY <2>1
  <2> QED BY <2>1, <2>2 DEF Repetition
<1>6. V[1] = <<>> /\ e[Parser][1] \in Seq(Piece)
  <2>1. V[1] = <<>>
    BY <1>4 DEF ParseChain
  <2> HIDE DEF e
  <2> QED BY <1>1, <1>4, <2>1, FrameFirst
<1>7. Delivered(emitted') = e[Parser][1]
  <2> HIDE DEF e
  <2>1. Delivered(emitted') = <<>> \o e[Parser][1]
    <3>1. Len(stack) + 1 = 1
      BY <1>5
    <3>2. V[Len(stack) + 1] = <<>> /\ e[top.node][Repetition] = e[Parser][1]
      BY <1>5, <1>6, <3>1, Zenon
    <3> QED BY <1>4, <3>2, Zenon
  <2> QED BY <1>6, <2>1, ConcatEmptySeq
<1> QED BY <1>7, ExpandIs

(* Under the same conditions a parse that nobody breaks off has called the *)
(* callback for the whole expansion when ForEach returns (field_des.cpp,   *)
(* ParseField).                                                            *)
THEOREM DeliversAll ==
  ASSUME NoCircle, NoneIgnored, OptionalLast
  PROVE  ParseSpec => ParseComplete
<1>1. ExpandInv /\ [ParseNext]_parseVars
        => [(purpose = "lend" /\ AtEnd /\ stack = <<>> /\ pc' = "idle")
              => Delivered(emitted') = Expand(Parser, 1)]_parseVars
  BY LastCall
<1> QED BY <1>1, ExpandInvariance, PTL DEF ParseSpec, ParseComplete
=============================================================================

-------------------------- MODULE IndexMap_proofs --------------------------
(***************************************************************************)
(* Proofs about IndexMap, for any set of numbers as values: the search by  *)
(* halving and the insertion behind it keep mIdxBuf sorted, and find()     *)
(* therefore tells what a list searched from end to end would tell.        *)
(***************************************************************************)
EXTENDS IndexMap, SequenceTheorems, TLAPS

(* The locals of find() and insert(). *)
LocalsOK ==
  /\ pc = "find" => min <= max /\ pos <= max /\ val \in Values
  /\ pc = "insert" => val \in Values /\ call = "index"
  /\ pc = "idle" => min = 0 /\ max = 0 /\ pos = 0

IInv == SearchOrdered /\ LocalsOK

(* The places of mIdxBuf. *)
Places == 0..(Len(sorted) - 1)

(* What the search knows between two turns of its loop. *)
Narrowed(lo, hi, v) ==
  /\ \A p \in Places : p < lo => At(p) < v
  /\ \A p \in Places : hi <= p => v < At(p)

Passed(at, v) ==
  /\ \A p \in Places : p < at => At(p) < v
  /\ \A p \in Places : At(p) # v

-----------------------------------------------------------------------------
LEMMA InsertAtElements ==
  ASSUME NEW S, NEW s \in Seq(S), NEW i \in 1..Len(s) + 1, NEW e \in S
  PROVE  /\ InsertAt(s, i, e) \in Seq(S)
         /\ Len(InsertAt(s, i, e)) = Len(s) + 1
         /\ \A k \in 1..Len(s) + 1 :
              InsertAt(s, i, e)[k] = IF k < i THEN s[k] ELSE IF k = i THEN e ELSE s[k - 1]
<1> DEFINE front == SubSeq(s, 1, i - 1)
           back == SubSeq(s, i, Len(s))
           new == front \o <<e>>
<1>0. Len(s) \in Nat /\ i \in Int /\ 1 \in Int /\ i - 1 \in Int /\ i <= Len(s) + 1 /\ 1 <= i
  OBVIOUS
<1>1. \A k \in 1..Len(s) : s[k] \in S
  OBVIOUS
<1>2. /\ front \in Seq(S) /\ Len(front) = i - 1
      /\ \A k \in 1..i - 1 : front[k] = s[k]
  <2>1. \A k \in 1..i - 1 : s[k] \in S
    BY <1>0, <1>1
  <2> QED BY <1>0, <2>1, SubSeqProperties
<1>3. /\ back \in Seq(S) /\ Len(back) = Len(s) + 1 - i
      /\ \A k \in 1..Len(s) + 1 - i : back[k] = s[i + k - 1]
  <2>1. \A k \in i..Len(s) : s[k] \in S
    BY <1>0, <1>1
  <2> QED BY <1>0, <2>1, SubSeqProperties
<1>4. <<e>> \in Seq(S) /\ Len(<<e>>) = 1 /\ <<e>>[1] = e
  OBVIOUS
<1>5. InsertAt(s, i, e) = new \o back
  BY DEF InsertAt
<1> HIDE DEF front, back
<1>6. /\ new \in Seq(S) /\ Len(new) = i
      /\ \A k \in 1..i : new[k] = IF k < i THEN s[k] ELSE e
  <2>1. /\ new \in Seq(S) /\ Len(new) = i
        /\ \A k \in 1..i : new[k] = IF k <= i - 1 THEN front[k] ELSE <<e>>[k - (i - 1)]
    <3>1. /\ new \in Seq(S) /\ Len(new) = Len(front) + Len(<<e>>)
          /\ \A k \in 1..Len(front) + Len(<<e>>) :
               new[k] = IF k <= Len(front) THEN front[k] ELSE <<e>>[k - Len(front)]
      BY <1>2, <1>4, ConcatProperties
    <3>2. Len(front) + Len(<<e>>) = i
      BY <1>0, <1>2, <1>4
    <3> QED BY <1>2, <3>1, <3>2
  <2>2. \A k \in 1..i : k < i \/ (k = i /\ k - (i - 1) = 1)
    BY <1>0
  <2>3. \A k \in 1..i : k < i => k \in 1..i - 1 /\ k <= i - 1
    BY <1>0
  <2>4. ~(i <= i - 1)
    BY <1>0
  <2> HIDE DEF new
  <2> QED BY <1>2, <1>4, <2>1, <2>2, <2>3, <2>4
<1> HIDE DEF new
<1>7. /\ InsertAt(s, i, e) \in Seq(S) /\ Len(InsertAt(s, i, e)) = Len(s) + 1
      /\ \A k \in 1..Len(s) + 1 :
           InsertAt(s, i, e)[k] = IF k <= i THEN new[k] ELSE back[k - i]
  <2>1. /\ new \o back \in Seq(S) /\ Len(new \o back) = Len(new) + Len(back)
        /\ \A k \in 1..Len(new) + Len(back) :
             (new \o back)[k] = IF k <= Len(new) THEN new[k] ELSE back[k - Len(new)]
    BY <1>3, <1>6, ConcatProperties
  <2>2. Len(new) + Len(back) = Len(s) + 1
    BY <1>0, <1>3, <1>6
  <2> QED BY <1>5, <1>6, <2>1, <2>2
<1>8. ASSUME NEW k \in 1..Len(s) + 1, k > i
      PROVE  back[k - i] = s[k - 1]
  <2>1. k - i \in 1..Len(s) + 1 - i /\ i + (k - i) - 1 = k - 1
    BY <1>0, <1>8
  <2> QED BY <1>3, <2>1
<1>9. ASSUME NEW k \in 1..Len(s) + 1, k <= i
      PROVE  new[k] = IF k < i THEN s[k] ELSE e
  <2>1. k \in 1..i
    BY <1>0, <1>9
  <2> QED BY <1>6, <2>1
<1>10. \A k \in 1..Len(s) + 1 :
         /\ k < i => k <= i /\ k # i
         /\ ~(k < i) /\ k # i => k > i /\ ~(k <= i)
  BY <1>0
<1>11. i <= i /\ ~(i < i)
  BY <1>0
<1> QED BY <1>7, <1>8, <1>9, <1>10, <1>11

-----------------------------------------------------------------------------
(***************************************************************************)
(* What holds of mValBuf and mIdxBuf at any time.                          *)
(***************************************************************************)
LEMMA Lengths ==
  ASSUME SearchOrdered
  PROVE  /\ Len(values) \in Nat /\ Len(sorted) = Len(values)
         /\ values \in Seq(Values) /\ sorted \in Seq(0..Len(values) - 1)
         /\ \A k \in 1..Len(values) : values[k] \in Values
         /\ \A k \in 1..Len(values) : sorted[k] \in 0..Len(values) - 1
<1>1. values \in Seq(Values) /\ sorted \in [1..Len(values) -> 0..(Len(values) - 1)]
  BY DEF SearchOrdered, TypeOK
<1>2. Len(values) \in Nat /\ \A k \in 1..Len(values) : values[k] \in Values
  BY <1>1, LenProperties, ElementOfSeq
<1>3. Len(sorted) = Len(values) /\ sorted \in Seq(0..Len(values) - 1)
  BY <1>1, <1>2
<1> QED BY <1>1, <1>2, <1>3

LEMMA Bounds ==
  ASSUME SearchOrdered
  PROVE  /\ Len(sorted) \in Nat
         /\ min \in 0..Len(sorted) /\ max \in 0..Len(sorted) /\ pos \in 0..Len(sorted)
BY Lengths DEF SearchOrdered, TypeOK

LEMMA Elements ==
  ASSUME SearchOrdered, NEW p \in Places
  PROVE  /\ p \in Int /\ 0 <= p /\ p < Len(sorted)
         /\ p + 1 \in 1..Len(values)
         /\ sorted[p + 1] \in 0..Len(values) - 1
         /\ sorted[p + 1] + 1 \in 1..Len(values)
         /\ At(p) \in Values /\ At(p) \in Int
<1>1. p + 1 \in 1..Len(values) /\ p \in Int /\ 0 <= p /\ p < Len(sorted)
  BY Lengths DEF Places
<1>2. sorted[p + 1] \in 0..Len(values) - 1
  BY <1>1, Lengths
<1>3. sorted[p + 1] + 1 \in 1..Len(values)
  BY <1>2, Lengths
<1>4. At(p) \in Values
  BY <1>3, Lengths DEF At
<1> QED BY <1>1, <1>2, <1>3, <1>4, IndexMapAssumption

LEMMA Sorted ==
  ASSUME SearchOrdered, NEW p \in Places, NEW q \in Places, p < q
  PROVE  At(p) < At(q)
BY DEF SearchOrdered, Places

LEMMA Complete ==
  ASSUME SearchOrdered, NEW k \in 1..Len(values)
  PROVE  \E p \in Places : sorted[p + 1] + 1 = k
<1>1. PICK q \in 1..Len(sorted) : sorted[q] + 1 = k
  BY DEF SearchOrdered
<1>2. q - 1 \in Places /\ (q - 1) + 1 = q
  BY Lengths DEF Places
<1> QED BY <1>1, <1>2

LEMMA FindNarrows ==
  ASSUME SearchOrdered, pc = "find"
  PROVE  Narrowed(min, max, val)
<1>1. /\ \A p \in 0..(min - 1) : At(p) < val
      /\ \A p \in max..(Len(sorted) - 1) : val < At(p)
  BY DEF SearchOrdered
<1>2. \A p \in Places : /\ p < min => p \in 0..(min - 1)
                        /\ max <= p => p \in max..(Len(sorted) - 1)
  BY Bounds DEF Places
<1> QED BY <1>1, <1>2 DEF Narrowed

LEMMA InsertPassed ==
  ASSUME SearchOrdered, pc = "insert"
  PROVE  Passed(pos, val)
<1>1. /\ \A p \in 0..(pos - 1) : At(p) < val
      /\ \A p \in 0..(Len(sorted) - 1) : At(p) # val
  BY DEF SearchOrdered
<1>2. \A p \in Places : p < pos => p \in 0..(pos - 1)
  BY Bounds DEF Places
<1> QED BY <1>1, <1>2 DEF Passed, Places

LEMMA MiddleBetween ==
  ASSUME SearchOrdered, min < max
  PROVE  Middle \in Places /\ Middle \in 0..Len(sorted) /\ min <= Middle /\ Middle < max
BY Bounds DEF Middle, Places

(* A value whose number is at a place of mIdxBuf has no other number. *)
LEMMA NumberOfPlace ==
  ASSUME SearchOrdered, NEW p \in Places
  PROVE  Reference!Numbered(At(p)) /\ Reference!NumberOf(At(p)) = sorted[p + 1]
<1> DEFINE k == sorted[p + 1] + 1
<1>1. k \in 1..Len(values) /\ values[k] = At(p)
  BY Elements DEF At
<1>2. ASSUME NEW j \in 1..Len(values), values[j] = At(p)
      PROVE  j = k
  <2>1. PICK q \in Places : sorted[q + 1] + 1 = j
    BY Complete
  <2>2. At(q) = At(p)
    BY <1>2, <2>1 DEF At
  <2>3. At(p) \in Int /\ At(q) \in Int /\ p \in Int /\ q \in Int
    BY Elements
  <2>4. ~(p < q) /\ ~(q < p)
    <3>1. p < q => At(p) < At(q)
      BY Sorted
    <3>2. q < p => At(q) < At(p)
      BY Sorted
    <3> QED BY <2>2, <2>3, <3>1, <3>2
  <2>5. q = p
    BY <2>3, <2>4
  <2> QED BY <2>1, <2>5
<1> HIDE DEF k
<1>3. (CHOOSE j \in 1..Len(values) : values[j] = At(p)) = k
  BY <1>1, <1>2
<1>4. k - 1 = sorted[p + 1]
  BY Elements DEF k
<1>5. Reference!Numbered(At(p))
  BY <1>1 DEF Reference!Numbered
<1> QED BY <1>3, <1>4, <1>5 DEF Reference!NumberOf

(* A value that is at no place has no number. *)
LEMMA NoPlaceNoNumber ==
  ASSUME SearchOrdered, NEW v, \A p \in Places : At(p) # v
  PROVE  ~Reference!Numbered(v)
<1>1. ASSUME NEW k \in 1..Len(values), values[k] = v
      PROVE  FALSE
  <2>1. PICK p \in Places : sorted[p + 1] + 1 = k
    BY Complete
  <2>2. At(p) = v
    BY <1>1, <2>1 DEF At
  <2> QED BY <2>2
<1> QED BY <1>1 DEF Reference!Numbered

(* When find() gives up, the value is at no place. *)
LEMMA GivenUp ==
  ASSUME IInv, pc = "find", GivesUp
  PROVE  Passed(IF min < max THEN Middle ELSE pos, val)
<1>1. SearchOrdered /\ min <= max /\ pos <= max /\ val \in Int /\ Narrowed(min, max, val)
  BY FindNarrows, IndexMapAssumption DEF IInv, LocalsOK
<1>2. \A p \in Places : p \in Int /\ At(p) \in Int
  BY <1>1, Elements
<1>3. min \in Int /\ max \in Int /\ pos \in Int
  BY <1>1, Bounds
<1>4. CASE min >= max
  <2>1. min = max /\ ~(min < max)
    BY <1>1, <1>3, <1>4
  <2>2. \A p \in Places : p < pos => p < min
    BY <1>1, <1>2, <1>3, <2>1
  <2>3. \A p \in Places : p < min \/ max <= p
    BY <1>2, <1>3, <2>1
  <2>4. \A p \in Places : At(p) # val
    BY <1>1, <1>2, <2>3 DEF Narrowed
  <2> QED BY <1>1, <2>1, <2>2, <2>4 DEF Narrowed, Passed
<1>5. CASE min < max /\ min = Middle /\ At(Middle) < val
  <2>1. max = min + 1
    BY <1>3, <1>5 DEF Middle
  <2>2. \A p \in Places : p < min \/ p = Middle \/ max <= p
    BY <1>2, <1>3, <1>5, <2>1
  <2>3. \A p \in Places : At(p) # val
    BY <1>1, <1>2, <1>5, <2>2 DEF Narrowed
  <2> QED BY <1>1, <1>5, <2>3 DEF Narrowed, Passed
<1> QED BY <1>4, <1>5 DEF GivesUp

-----------------------------------------------------------------------------
(***************************************************************************)
(* The inductive invariant.                                                *)
(***************************************************************************)
LEMMA InitInv == Init => IInv
<1> SUFFICES ASSUME Init PROVE IInv
  OBVIOUS
<1>1. /\ values = <<>> /\ sorted = <<>> /\ Len(values) = 0 /\ Len(sorted) = 0
      /\ pc = "idle" /\ call = "index" /\ val = 0 /\ min = 0 /\ max = 0 /\ pos = 0
      /\ result = Reference!NoResult
  BY DEF Init
<1>2. 1..0 = {} /\ 0..(0 - 1) = {}
  OBVIOUS
<1>3. <<>> \in Seq(Values) /\ <<>> \in [1..0 -> 0..(0 - 1)]
  OBVIOUS
<1>4. TypeOK
  BY <1>1, <1>3 DEF TypeOK, Results
<1> QED BY <1>1, <1>2, <1>4 DEF IInv, LocalsOK, SearchOrdered

(* A step that leaves the buffers alone keeps the invariant if the locals  *)
(* it sets are in their range and know what they should.                   *)
LEMMA SearchKept ==
  ASSUME SearchOrdered, UNCHANGED <<values, sorted>>,
         pc' \in {"idle", "find", "insert"}, call' \in {"index", "existed"},
         val' \in Values \cup {0},
         min' \in 0..Len(sorted), max' \in 0..Len(sorted), pos' \in 0..Len(sorted),
         result' \in Results,
         pc' = "find" => Narrowed(min', max', val'),
         pc' = "insert" => Passed(pos', val')
  PROVE  SearchOrdered'
<1>0. \A m \in 0..Len(sorted) : \A p \in 0..(m - 1) : p \in Places /\ p < m
  BY Bounds DEF Places
<1>1. \A p : At(p)' = At(p)
  BY DEF At
<1>2. Len(sorted') = Len(sorted) /\ Results' = Results
  BY DEF Results
<1>3. TypeOK'
  <2>1. /\ values' \in Seq(Values)
        /\ sorted' \in [1..Len(values') -> 0..(Len(values') - 1)]
    BY DEF SearchOrdered, TypeOK
  <2> QED BY <1>2, <2>1 DEF TypeOK
<1>4. /\ \A k \in 1..Len(values') : \E p \in 1..Len(sorted') : sorted'[p] + 1 = k
      /\ \A p, q \in 0..(Len(sorted') - 1) : p < q => At(p)' < At(q)'
  BY <1>1 DEF SearchOrdered
<1>5. ASSUME pc' = "find"
      PROVE  /\ \A p \in 0..(min' - 1) : At(p)' < val'
             /\ \A p \in max'..(Len(sorted') - 1) : val' < At(p)'
  <2>1. \A p \in 0..(min' - 1) : p \in Places /\ p < min'
    BY <1>0
  <2>2. \A p \in max'..(Len(sorted) - 1) : p \in Places /\ max' <= p
    BY Bounds DEF Places
  <2> QED BY <1>1, <1>2, <1>5, <2>1, <2>2 DEF Narrowed
<1>6. ASSUME pc' = "insert"
      PROVE  /\ \A p \in 0..(pos' - 1) : At(p)' < val'
             /\ \A p \in 0..(Len(sorted') - 1) : At(p)' # val'
  <2>1. \A p \in 0..(pos' - 1) : p \in Places /\ p < pos'
    BY <1>0
  <2> QED BY <1>1, <1>2, <1>6, <2>1 DEF Passed, Places
<1> QED BY <1>3, <1>4, <1>5, <1>6 DEF SearchOrdered

LEMMA TypesNow ==
  ASSUME IInv
  PROVE  /\ SearchOrdered /\ pc \in {"idle", "find", "insert"} /\ call \in {"index", "existed"}
         /\ val \in Values \cup {0} /\ result \in Results
BY DEF IInv, SearchOrdered, TypeOK

LEMMA CallKeeps ==
  ASSUME IInv, NEW c \in {"index", "existed"}, NEW v \in Values, Call(c, v)
  PROVE  IInv'
<1>1. /\ UNCHANGED <<values, sorted, result>>
      /\ pc' = "find" /\ call' = c /\ val' = v /\ min' = 0 /\ max' = Len(sorted) /\ pos' = 0
  BY DEF Call
<1>2. /\ Len(sorted) \in Nat /\ 0 \in 0..Len(sorted) /\ Len(sorted) \in 0..Len(sorted)
      /\ 0 <= Len(sorted)
  BY TypesNow, Bounds
<1>3. Narrowed(0, Len(sorted), v)
  BY <1>2 DEF Narrowed, Places
<1>4. SearchOrdered'
  BY <1>1, <1>2, <1>3, TypesNow, SearchKept
<1> QED BY <1>1, <1>2, <1>4 DEF IInv, LocalsOK

(* A call that returns, the buffers being as they were. *)
LEMMA ReturnKeeps ==
  ASSUME IInv, NEW r \in Results, Return(r), UNCHANGED <<values, sorted>>
  PROVE  IInv'
<1>1. /\ pc' = "idle" /\ result' = r /\ call' = "index" /\ val' = 0
      /\ min' = 0 /\ max' = 0 /\ pos' = 0
  BY DEF Return
<1>2. 0 \in 0..Len(sorted)
  BY TypesNow, Bounds
<1>3. SearchOrdered'
  BY <1>1, <1>2, TypesNow, SearchKept
<1> QED BY <1>1, <1>3 DEF IInv, LocalsOK

LEMMA LowerKeeps ==
  ASSUME IInv, Lower
  PROVE  IInv'
<1>1. /\ pc = "find" /\ min < max /\ val < At(Middle)
      /\ pos' = Middle /\ max' = Middle
      /\ UNCHANGED <<values, sorted, pc, call, val, min, result>>
  BY DEF Lower
<1>2. SearchOrdered /\ val \in Values /\ val \in Int
  BY <1>1, IndexMapAssumption DEF IInv, LocalsOK
<1>3. /\ Middle \in Places /\ Middle \in 0..Len(sorted) /\ min <= Middle /\ Middle < max
      /\ min \in 0..Len(sorted)
  BY <1>1, <1>2, MiddleBetween, Bounds
<1>4. Narrowed(min, max, val)
  BY <1>1, <1>2, FindNarrows
<1>5. ASSUME NEW p \in Places, Middle <= p
      PROVE  val < At(p)
  <2>1. p \in Int /\ Middle \in Int /\ At(p) \in Int /\ At(Middle) \in Int
    BY <1>2, <1>3, Elements
  <2>2. CASE p = Middle
    BY <1>1, <2>2
  <2>3. CASE Middle < p
    <3>1. At(Middle) < At(p)
      BY <1>2, <1>3, <2>3, Sorted
    <3> QED BY <1>1, <1>2, <2>1, <3>1
  <2> QED BY <1>5, <2>1, <2>2, <2>3
<1>6. Narrowed(min, Middle, val)
  BY <1>4, <1>5 DEF Narrowed
<1>7. SearchOrdered'
  BY <1>1, <1>3, <1>6, TypesNow, SearchKept
<1>8. Middle <= Middle
  BY <1>3
<1> QED BY <1>1, <1>2, <1>3, <1>7, <1>8 DEF IInv, LocalsOK

LEMMA UpperKeeps ==
  ASSUME IInv, Upper
  PROVE  IInv'
<1>1. /\ pc = "find" /\ min < Middle /\ At(Middle) < val
      /\ pos' = Middle /\ min' = Middle
      /\ UNCHANGED <<values, sorted, pc, call, val, max, result>>
  BY DEF Upper
<1>2. SearchOrdered /\ val \in Values /\ val \in Int /\ min <= max
  BY <1>1, IndexMapAssumption DEF IInv, LocalsOK
<1>3. min < max
  <2>1. min \in Nat /\ max \in Nat
    BY <1>2, Bounds
  <2> QED BY <1>1, <1>2, <2>1 DEF Middle
<1>4. /\ Middle \in Places /\ Middle \in 0..Len(sorted) /\ Middle < max
      /\ max \in 0..Len(sorted)
  BY <1>2, <1>3, MiddleBetween, Bounds
<1>5. Narrowed(min, max, val)
  BY <1>1, <1>2, FindNarrows
<1>6. ASSUME NEW p \in Places, p < Middle
      PROVE  At(p) < val
  <2>1. At(p) \in Int /\ At(Middle) \in Int
    BY <1>2, <1>4, Elements
  <2>2. At(p) < At(Middle)
    BY <1>2, <1>4, <1>6, Sorted
  <2> QED BY <1>1, <1>2, <2>1, <2>2
<1>7. Narrowed(Middle, max, val)
  BY <1>5, <1>6 DEF Narrowed
<1>8. SearchOrdered'
  BY <1>1, <1>4, <1>7, TypesNow, SearchKept
<1>9. Middle <= max
  BY <1>4
<1> QED BY <1>1, <1>2, <1>8, <1>9 DEF IInv, LocalsOK

LEMMA FoundKeeps ==
  ASSUME IInv, Found
  PROVE  IInv'
<1>1. /\ SearchOrdered /\ pc = "find" /\ val \in Values /\ min < max
      /\ UNCHANGED <<values, sorted>>
  BY DEF IInv, Found, LocalsOK
<1>2. sorted[Middle + 1] \in 0..(Len(values) - 1)
  BY <1>1, MiddleBetween, Elements
<1>3. Reference!Number(val, sorted[Middle + 1]) \in Results
  BY <1>1, <1>2 DEF Results
<1> QED BY <1>1, <1>3, ReturnKeeps DEF Found

LEMMA MissedKeeps ==
  ASSUME IInv, Missed
  PROVE  IInv'
<1>1. Reference!Unknown(val) \in Results
  BY DEF IInv, LocalsOK, Missed, Results
<1> QED BY <1>1, ReturnKeeps DEF Missed

LEMMA InsertKeeps ==
  ASSUME IInv, Insert
  PROVE  IInv'
<1> DEFINE place == IF min < max THEN Middle ELSE pos
<1>1. /\ pc = "find" /\ GivesUp /\ call = "index"
      /\ pc' = "insert" /\ pos' = place
      /\ UNCHANGED <<values, sorted, call, val, min, max, result>>
  BY DEF Insert
<1>2. SearchOrdered /\ val \in Values
  BY <1>1 DEF IInv, LocalsOK
<1>3. Passed(place, val)
  BY <1>1, GivenUp
<1>4. place \in 0..Len(sorted) /\ min \in 0..Len(sorted) /\ max \in 0..Len(sorted)
  BY <1>2, MiddleBetween, Bounds
<1> HIDE DEF place
<1>5. SearchOrdered'
  BY <1>1, <1>3, <1>4, TypesNow, SearchKept
<1> QED BY <1>1, <1>2, <1>5 DEF IInv, LocalsOK

LEMMA AdvanceKeeps ==
  ASSUME IInv, Advance
  PROVE  IInv'
<1>1. /\ pc = "insert" /\ pos < Len(sorted) /\ At(pos) < val /\ pos' = pos + 1
      /\ UNCHANGED <<values, sorted, pc, call, val, min, max, result>>
  BY DEF Advance
<1>2. SearchOrdered /\ val \in Values /\ call = "index"
  BY <1>1 DEF IInv, LocalsOK
<1>3. /\ pos \in Int /\ pos + 1 \in 0..Len(sorted)
      /\ min \in 0..Len(sorted) /\ max \in 0..Len(sorted)
  BY <1>1, <1>2, Bounds
<1>4. Passed(pos, val)
  BY <1>1, <1>2, InsertPassed
<1>5. Passed(pos + 1, val)
  <2>1. \A p \in Places : p < pos + 1 => p < pos \/ p = pos
    BY <1>3 DEF Places
  <2> QED BY <1>1, <1>4, <2>1 DEF Passed
<1>6. SearchOrdered'
  BY <1>1, <1>3, <1>5, TypesNow, SearchKept
<1> QED BY <1>1, <1>2, <1>6 DEF IInv, LocalsOK

-----------------------------------------------------------------------------
(***************************************************************************)
(* The new value in its place.                                             *)
(***************************************************************************)
LEMMA PlaceBuffers ==
  ASSUME IInv, Place
  PROVE  /\ Len(values) \in Nat /\ Len(sorted) = Len(values) /\ pos \in 0..Len(values)
         /\ val \in Values /\ val \in Int
         /\ values' \in Seq(Values) /\ Len(values') = Len(values) + 1
         /\ values'[Len(values) + 1] = val
         /\ \A k \in 1..Len(values) : values'[k] = values[k]
         /\ sorted' \in Seq(0..Len(values)) /\ Len(sorted') = Len(values) + 1
         /\ \A k \in 1..Len(values) + 1 :
              sorted'[k] = IF k < pos + 1 THEN sorted[k]
                           ELSE IF k = pos + 1 THEN Len(values) ELSE sorted[k - 1]
<1> DEFINE n == Len(values)
<1>1. /\ SearchOrdered /\ val \in Values /\ val \in Int
      /\ values' = Append(values, val)
      /\ sorted' = InsertAt(sorted, pos + 1, n)
  BY IndexMapAssumption DEF IInv, Place, LocalsOK
<1>2. n \in Nat /\ Len(sorted) = n /\ values \in Seq(Values) /\ sorted \in Seq(0..n - 1)
  BY <1>1, Lengths
<1>3. pos \in 0..n /\ pos + 1 \in 1..Len(sorted) + 1
  BY <1>1, <1>2, Bounds
<1>4. sorted \in Seq(0..n) /\ n \in 0..n
  <2>1. 0..n - 1 \subseteq 0..n
    BY <1>2
  <2> QED BY <1>2, <2>1, SeqMonotonic
<1>5. /\ values' \in Seq(Values) /\ Len(values') = n + 1 /\ values'[n + 1] = val
      /\ \A k \in 1..n : values'[k] = values[k]
  BY <1>1, <1>2
<1> HIDE DEF n
<1>6. /\ sorted' \in Seq(0..n) /\ Len(sorted') = n + 1
      /\ \A k \in 1..n + 1 :
           sorted'[k] = IF k < pos + 1 THEN sorted[k]
                        ELSE IF k = pos + 1 THEN n ELSE sorted[k - 1]
  <2> DEFINE S == 0..n
             i == pos + 1
             new == InsertAt(sorted, i, n)
  <2>1. sorted \in Seq(S) /\ i \in 1..Len(sorted) + 1 /\ n \in S
    BY <1>3, <1>4
  <2> HIDE DEF S, i
  <2>2. new \in Seq(S)
    BY <2>1, InsertAtElements
  <2>3. Len(new) = Len(sorted) + 1
    BY <2>1, InsertAtElements
  <2>4. \A k \in 1..Len(sorted) + 1 :
          new[k] = IF k < i THEN sorted[k] ELSE IF k = i THEN n ELSE sorted[k - 1]
    BY <2>1, InsertAtElements
  <2> QED BY <1>1, <1>2, <2>2, <2>3, <2>4 DEF S, i
<1> QED BY <1>1, <1>2, <1>3, <1>5, <1>6 DEF n

LEMMA PlaceElements ==
  ASSUME IInv, Place, NEW p \in 0..Len(values)
  PROVE  At(p)' = IF p < pos THEN At(p) ELSE IF p = pos THEN val ELSE At(p - 1)
<1> DEFINE n == Len(values)
<1>1. SearchOrdered /\ Len(sorted) = n /\ n \in Nat /\ pos \in 0..n
  BY PlaceBuffers DEF IInv
<1>2. p + 1 \in 1..n + 1 /\ p \in Int /\ pos \in Int
  BY <1>1
<1>3. CASE p < pos
  <2>1. p \in Places /\ p + 1 < pos + 1
    BY <1>1, <1>2, <1>3 DEF Places
  <2>2. sorted'[p + 1] = sorted[p + 1]
    BY <1>2, <2>1, PlaceBuffers
  <2>3. sorted[p + 1] + 1 \in 1..n
    BY <1>1, <2>1, Elements
  <2>4. values'[sorted[p + 1] + 1] = values[sorted[p + 1] + 1]
    BY <2>3, PlaceBuffers
  <2> QED BY <1>3, <2>2, <2>4 DEF At
<1>4. CASE p = pos
  <2>1. sorted'[p + 1] = n
    <3>1. ~(p + 1 < pos + 1) /\ p + 1 = pos + 1
      BY <1>2, <1>4
    <3> QED BY <1>2, <3>1, PlaceBuffers
  <2>2. values'[n + 1] = val
    BY PlaceBuffers
  <2>3. ~(p < pos)
    BY <1>2, <1>4
  <2> QED BY <1>4, <2>1, <2>2, <2>3 DEF At
<1>5. CASE p > pos
  <2>1. p - 1 \in Places /\ (p - 1) + 1 = p /\ (p + 1) - 1 = p
    BY <1>1, <1>2, <1>5 DEF Places
  <2>2. sorted'[p + 1] = sorted[p]
    <3>1. ~(p + 1 < pos + 1) /\ p + 1 # pos + 1
      BY <1>2, <1>5
    <3> QED BY <1>2, <2>1, <3>1, PlaceBuffers
  <2>3. sorted[p] + 1 \in 1..n
    BY <1>1, <2>1, Elements
  <2>4. values'[sorted[p] + 1] = values[sorted[p] + 1]
    BY <2>3, PlaceBuffers
  <2>5. At(p - 1) = values[sorted[p] + 1] /\ At(p)' = values'[sorted[p] + 1]
    BY <2>1, <2>2 DEF At
  <2>6. ~(p < pos) /\ p # pos
    BY <1>2, <1>5
  <2> QED BY <2>4, <2>5, <2>6
<1> QED BY <1>2, <1>3, <1>4, <1>5

(* Every number still has its place. *)
LEMMA PlaceComplete ==
  ASSUME IInv, Place
  PROVE  \A k \in 1..Len(values') : \E p \in 1..Len(sorted') : sorted'[p] + 1 = k
<1> DEFINE n == Len(values)
<1>1. /\ SearchOrdered /\ n \in Nat /\ pos \in 0..n
      /\ Len(sorted) = n /\ Len(sorted') = n + 1 /\ Len(values') = n + 1
  BY PlaceBuffers DEF IInv
<1>2. ASSUME NEW k \in 1..n
      PROVE  \E p \in 1..n + 1 : sorted'[p] + 1 = k
  <2>1. PICK q \in Places : sorted[q + 1] + 1 = k
    BY <1>1, Complete
  <2>2. q \in Int /\ q + 1 \in 1..n + 1 /\ (q + 1) + 1 \in 1..n + 1 /\ ((q + 1) + 1) - 1 = q + 1
    BY <1>1 DEF Places
  <2>3. CASE q < pos
    <3>1. q + 1 < pos + 1
      BY <1>1, <2>2, <2>3
    <3>2. sorted'[q + 1] = sorted[q + 1]
      BY <2>2, <3>1, PlaceBuffers
    <3> QED BY <2>1, <2>2, <3>2
  <2>4. CASE pos <= q
    <3> DEFINE r == (q + 1) + 1
    <3>1. r \in 1..n + 1 /\ ~(r < pos + 1) /\ r # pos + 1 /\ r - 1 = q + 1
      BY <1>1, <2>2, <2>4
    <3> HIDE DEF r
    <3>2. sorted'[r] = sorted[r - 1]
      BY <3>1, PlaceBuffers
    <3>3. sorted'[r] + 1 = k
      BY <2>1, <3>1, <3>2
    <3> QED BY <3>1, <3>3
  <2> QED BY <1>1, <2>2, <2>3, <2>4
<1>3. \E p \in 1..n + 1 : sorted'[p] + 1 = n + 1
  <2>1. pos + 1 \in 1..n + 1 /\ ~(pos + 1 < pos + 1)
    BY <1>1
  <2>2. sorted'[pos + 1] = n
    BY <2>1, PlaceBuffers
  <2> QED BY <2>1, <2>2
<1>4. \A k \in 1..n + 1 : k \in 1..n \/ k = n + 1
  BY <1>1
<1> QED BY <1>1, <1>2, <1>3, <1>4

(* The place insert() stops at is the right one. *)
LEMMA PlaceBetween ==
  ASSUME IInv, Place, NEW p \in Places
  PROVE  /\ p < pos => At(p) < val
         /\ pos <= p => val < At(p)
<1>1. /\ SearchOrdered /\ pc = "insert" /\ val \in Int
      /\ pos < Len(sorted) => At(pos) >= val
  BY PlaceBuffers DEF IInv, Place
<1>2. Passed(pos, val)
  BY <1>1, InsertPassed
<1>3. ASSUME pos <= p
      PROVE  val < At(p)
  <2>1. pos \in Places /\ pos < Len(sorted) /\ pos \in Int /\ p \in Int
    BY <1>1, <1>3, Bounds DEF Places
  <2>2. At(pos) \in Int /\ At(p) \in Int
    BY <1>1, <2>1, Elements
  <2>3. val < At(pos)
    BY <1>1, <1>2, <2>1, <2>2 DEF Passed
  <2>4. p = pos \/ At(pos) < At(p)
    <3>1. CASE pos < p
      BY <1>1, <2>1, <3>1, Sorted
    <3> QED BY <1>3, <2>1, <3>1
  <2> QED BY <1>1, <2>2, <2>3, <2>4
<1> QED BY <1>2, <1>3 DEF Passed

LEMMA PlaceSorted ==
  ASSUME IInv, Place, NEW p \in 0..Len(values), NEW q \in 0..Len(values), p < q
  PROVE  At(p)' < At(q)'
<1>1. /\ SearchOrdered /\ pos \in Int /\ val \in Int /\ p \in Int /\ q \in Int
      /\ Len(sorted) = Len(values) /\ Len(values) \in Nat /\ pos \in 0..Len(values)
  BY PlaceBuffers DEF IInv
<1>2. CASE q < pos
  <2>1. p \in Places /\ q \in Places /\ p < pos
    BY <1>1, <1>2 DEF Places
  <2>2. At(p)' = At(p) /\ At(q)' = At(q)
    BY <1>2, <2>1, PlaceElements
  <2> QED BY <1>1, <2>1, <2>2, Sorted
<1>3. CASE q = pos
  <2>1. p \in Places /\ p < pos /\ ~(q < pos)
    BY <1>1, <1>3 DEF Places
  <2>2. At(p)' = At(p) /\ At(q)' = val
    BY <1>3, <2>1, PlaceElements
  <2> QED BY <2>1, <2>2, PlaceBetween
<1>4. CASE q > pos
  <2>1. q - 1 \in Places /\ pos <= q - 1 /\ ~(q < pos) /\ q # pos
    BY <1>1, <1>4 DEF Places
  <2>2. At(q)' = At(q - 1) /\ val < At(q - 1) /\ At(q - 1) \in Int
    BY <1>1, <2>1, PlaceElements, PlaceBetween, Elements
  <2>3. CASE p < pos
    <3>1. p \in Places /\ p < q - 1
      BY <1>1, <1>4, <2>3 DEF Places
    <3>2. At(p)' = At(p) /\ At(p) < At(q - 1)
      BY <1>1, <2>1, <2>3, <3>1, PlaceElements, Sorted
    <3> QED BY <2>2, <3>2
  <2>4. CASE p = pos
    <3>1. At(p)' = val
      <4>1. ~(p < pos)
        BY <1>1, <2>4
      <4> QED BY <2>4, <4>1, PlaceElements
    <3> QED BY <2>2, <3>1
  <2>5. CASE p > pos
    <3>1. p - 1 \in Places /\ p - 1 < q - 1 /\ ~(p < pos) /\ p # pos
      BY <1>1, <2>5 DEF Places
    <3>2. At(p)' = At(p - 1) /\ At(p - 1) < At(q - 1)
      BY <1>1, <2>1, <3>1, PlaceElements, Sorted
    <3> QED BY <2>2, <3>2
  <2> QED BY <1>1, <2>3, <2>4, <2>5
<1> QED BY <1>1, <1>2, <1>3, <1>4

LEMMA PlaceKeeps ==
  ASSUME IInv, Place
  PROVE  IInv'
<1> DEFINE n == Len(values)
<1>1. /\ pc' = "idle" /\ result' = Reference!Number(val, n) /\ call' = "index" /\ val' = 0
      /\ min' = 0 /\ max' = 0 /\ pos' = 0
  BY DEF Place, Return
<1>2. /\ n \in Nat /\ val \in Values /\ values' \in Seq(Values) /\ Len(values') = n + 1
      /\ sorted' \in Seq(0..n) /\ Len(sorted') = n + 1
  BY PlaceBuffers
<1>3. result' \in Results'
  <2>1. n \in 0..Len(values') - 1
    BY <1>2
  <2> QED BY <1>1, <1>2, <2>1 DEF Results
<1>4. sorted' \in [1..Len(values') -> 0..(Len(values') - 1)]
  <2>1. sorted' \in [1..Len(sorted') -> 0..n]
    BY <1>2, LenProperties
  <2>2. Len(values') - 1 = n
    BY <1>2
  <2> QED BY <1>2, <2>1, <2>2
<1>5. 0 \in 0..Len(sorted')
  BY <1>2
<1>6. TypeOK'
  BY <1>1, <1>2, <1>3, <1>4, <1>5 DEF TypeOK
<1>7. \A p, q \in 0..(Len(sorted') - 1) : p < q => At(p)' < At(q)'
  <2>1. Len(sorted') - 1 = Len(values)
    BY <1>2
  <2> QED BY <2>1, PlaceSorted
<1>8. SearchOrdered'
  BY <1>1, <1>6, <1>7, PlaceComplete DEF SearchOrdered
<1> QED BY <1>1, <1>8 DEF IInv, LocalsOK

LEMMA ClearKeeps ==
  ASSUME IInv, Clear
  PROVE  IInv'
<1>1. /\ values' = <<>> /\ sorted' = <<>> /\ Len(values') = 0 /\ Len(sorted') = 0
      /\ result' = Reference!NoResult /\ pc' = "idle"
      /\ UNCHANGED <<call, val, min, max, pos>>
  BY DEF Clear, search
<1>2. 1..0 = {} /\ 0..(0 - 1) = {} /\ <<>> \in Seq(Values) /\ <<>> \in [1..0 -> 0..(0 - 1)]
  OBVIOUS
<1>3. min = 0 /\ max = 0 /\ pos = 0
  BY DEF IInv, LocalsOK, Clear
<1>4. TypeOK'
  BY <1>1, <1>2, <1>3, TypesNow DEF TypeOK, Results
<1>5. SearchOrdered'
  BY <1>1, <1>2, <1>4 DEF SearchOrdered
<1> QED BY <1>1, <1>3, <1>5 DEF IInv, LocalsOK

LEMMA NextInv == IInv /\ [Next]_vars => IInv'
<1> SUFFICES ASSUME IInv, [Next]_vars PROVE IInv'
  OBVIOUS
<1>1. ASSUME NEW c \in {"index", "existed"}, NEW v \in Values, Call(c, v) PROVE IInv'
  BY <1>1, CallKeeps
<1>2. CASE Loop
  BY <1>2, LowerKeeps, UpperKeeps, FoundKeeps, MissedKeeps, InsertKeeps, AdvanceKeeps, PlaceKeeps
  DEF Loop
<1>3. CASE Clear
  BY <1>3, ClearKeeps
<1>4. CASE UNCHANGED vars
  <2>1. UNCHANGED <<values, sorted, pc, call, val, min, max, pos, result>>
    BY <1>4 DEF vars, search
  <2>2. SearchOrdered'
    BY <2>1, TypesNow, Bounds, FindNarrows, InsertPassed, SearchKept
  <2> QED BY <2>1, <2>2 DEF IInv, LocalsOK
<1> QED BY <1>1, <1>2, <1>3, <1>4 DEF Next

LEMMA Invariance == Spec => []IInv
BY InitInv, NextInv, PTL DEF Spec

(* For any values: mIdxBuf stays sorted and complete, and the search by    *)
(* halving never cuts off the value it looks for (table.h, find, insert).  *)
THEOREM SearchStaysOrdered == Spec => []SearchOrdered
<1>1. IInv => SearchOrdered
  BY DEF IInv
<1> QED BY <1>1, Invariance, PTL

-----------------------------------------------------------------------------
(***************************************************************************)
(* The refinement.                                                         *)
(***************************************************************************)
LEMMA StepRefines ==
  ASSUME IInv, [Next]_vars
  PROVE  [Reference!Next]_(Reference!regVars)
<1>1. SearchOrdered
  BY DEF IInv
<1>2. ASSUME Found PROVE Reference!Next
  <2>1. /\ pc = "find" /\ val \in Values
        /\ min < max /\ At(Middle) = val
        /\ result' = Reference!Number(val, sorted[Middle + 1])
        /\ UNCHANGED values
    BY <1>2 DEF Found, Return, IInv, LocalsOK
  <2>2. Reference!Numbered(val) /\ Reference!NumberOf(val) = sorted[Middle + 1]
    BY <1>1, <2>1, MiddleBetween, NumberOfPlace
  <2> QED BY <2>1, <2>2 DEF Reference!Next, Reference!Index, Reference!Existed
<1>3. ASSUME Missed PROVE Reference!Next
  <2>1. /\ pc = "find" /\ val \in Values /\ GivesUp
        /\ result' = Reference!Unknown(val) /\ UNCHANGED values
    BY <1>3 DEF Missed, Return, IInv, LocalsOK
  <2>2. ~Reference!Numbered(val)
    BY <1>1, <2>1, GivenUp, NoPlaceNoNumber DEF Passed
  <2> QED BY <2>1, <2>2 DEF Reference!Next, Reference!Existed
<1>4. ASSUME Place PROVE Reference!Next
  <2>1. /\ pc = "insert" /\ val \in Values
        /\ result' = Reference!Number(val, Len(values)) /\ values' = Append(values, val)
    BY <1>4 DEF Place, Return, IInv, LocalsOK
  <2>2. ~Reference!Numbered(val)
    BY <1>1, <2>1, InsertPassed, NoPlaceNoNumber DEF Passed
  <2> QED BY <2>1, <2>2 DEF Reference!Next, Reference!Index
<1>5. ASSUME Clear PROVE Reference!Next
  BY <1>5 DEF Clear, Reference!Next, Reference!Clear
<1>6. ASSUME \/ \E c \in {"index", "existed"}, v \in Values : Call(c, v)
             \/ Lower \/ Upper \/ Insert \/ Advance \/ UNCHANGED vars
      PROVE  UNCHANGED Reference!regVars
  BY <1>6 DEF Call, Lower, Upper, Insert, Advance, vars, Reference!regVars
<1> QED BY <1>2, <1>3, <1>4, <1>5, <1>6 DEF Next, Loop

(* For any values: the numbering implements a list in the order of first   *)
(* appearance; no value is numbered twice, missed, or given the number of  *)
(* another one (table.h, Existed and operator[]).                          *)
THEOREM NumbersAsAList == Spec => Refines
<1>1. Init => Reference!Init
  BY DEF Init, Reference!Init
<1> QED BY <1>1, StepRefines, Invariance, PTL DEF Spec, Refines, Reference!Spec
=============================================================================

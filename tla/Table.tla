------------------------------- MODULE Table -------------------------------
(***************************************************************************)
(* table.h: the bidirectional multi-map table<A,B,TABLE_WIDTH>.  Each side *)
(* numbers its values in the order of their first Insert() (index_map, see *)
(* IndexMap); a pair is a bit of mTableBuf, at a cell computed from the    *)
(* two numbers.  The buffer only reaches to the highest cell ever set.     *)
(*                                                                         *)
(* Retrieve() reads the cell of every value of the other side without      *)
(* looking at the size of mTableBuf.  A cell behind the end holds whatever *)
(* the memory holds: either answer is possible.                            *)
(***************************************************************************)
EXTENDS Integers, Sequences

CONSTANTS
  A, B,    (* the values                                                   *)
  Widths   (* the tables: their TABLE_WIDTH, 0 for the growing layout      *)

ASSUME TableAssumption == Widths \subseteq Nat

VARIABLES
  width,    (* TABLE_WIDTH, a template argument: it never changes          *)
  mapA,     (* mIdxMapA: its values, mapA[k + 1] has the number k          *)
  mapB,     (* mIdxMapB                                                    *)
  bits,     (* mTableBuf                                                   *)
  answer    (* what the last operation returned                            *)

tableVars == <<width, mapA, mapB, bits, answer>>

RegisteredA == {mapA[k] : k \in 1..Len(mapA)}
RegisteredB == {mapB[k] : k \in 1..Len(mapB)}

(* index_map::operator[]: the number of v, which gets the next one if it   *)
(* has none yet.                                                           *)
Index(map, v) == (CHOOSE k \in 1..Len(map) : map[k] = v) - 1
Register(map, v) == IF \E k \in 1..Len(map) : map[k] = v THEN map ELSE Append(map, v)

(* Mutant: the layout forgets the lower half of a column. *)
Pairing_Square(x, y) == IF x < y THEN y * y + x ELSE x * x + y

(* table_buf_idx_calculator<0>: square shells around the corner. *)
Pairing(x, y) == IF x < y THEN y * y + x ELSE x * (x + 1) + y

(* GetTableBufIdx: a table with a width throws beyond it. *)
InWidth(x) == width = 0 \/ x < width
Cell(x, y) == IF width = 0 THEN Pairing(x, y) ELSE y * width + x

CellOf(a, b) == Cell(Index(mapA, a), Index(mapB, b))

InBuffer(a, b) ==
  /\ InWidth(Index(mapA, a))
  /\ CellOf(a, b) < Len(bits)

(* The pairs the bits stand for. *)
IsSet(x, y) == InWidth(x) /\ Cell(x, y) < Len(bits) /\ bits[Cell(x, y) + 1]
Related ==
  {<<mapA[p[1]], mapB[p[2]]>> :
      p \in {q \in (1..Len(mapA)) \X (1..Len(mapB)) : IsSet(q[1] - 1, q[2] - 1)}}

(* The A values that found no column, and the pairs whose cell lies behind *)
(* the end of the buffer.                                                  *)
Refused == {a \in RegisteredA : ~InWidth(Index(mapA, a))}
Behind == {p \in RegisteredA \X RegisteredB : ~InBuffer(p[1], p[2])}

(* The abstract table, exact but for what lies behind the buffer. *)
Abstract == INSTANCE MultiMap WITH related <- Related,
                                   knownA <- RegisteredA, knownB <- RegisteredB,
                                   count <- Len(mapA), refused <- Refused,
                                   unread <- Behind

Init ==
  /\ width \in Widths
  /\ mapA = <<>>
  /\ mapB = <<>>
  /\ bits = <<>>
  /\ answer = Abstract!Done

(* vector<bool>::resize(n) to more bits: the new ones are clear.           *)
Grown(n) == [k \in 1..n |-> k <= Len(bits) /\ bits[k]]

(* Both values are registered before the range is checked. *)
Insert(a, b) ==
  LET mA == Register(mapA, a)
      mB == Register(mapB, b)
      x == Index(mA, a)
      c == Cell(x, Index(mB, b))
  IN  /\ mapA' = mA
      /\ mapB' = mB
      /\ \/ /\ InWidth(x)
            /\ bits' = [Grown(IF c + 1 > Len(bits) THEN c + 1 ELSE Len(bits))
                          EXCEPT ![c + 1] = TRUE]
            /\ answer' = Abstract!Done
         \/ /\ ~InWidth(x)
            /\ answer' = Abstract!Failed
            /\ UNCHANGED bits
      /\ UNCHANGED width

Remove(a, b) ==
  /\ \/ /\ a \in RegisteredA /\ b \in RegisteredB
        /\ InWidth(Index(mapA, a))
        /\ bits' = IF InBuffer(a, b) THEN [bits EXCEPT ![CellOf(a, b) + 1] = FALSE]
                   ELSE bits
        /\ answer' = Abstract!Done
     \/ /\ a \in RegisteredA /\ b \in RegisteredB
        /\ ~InWidth(Index(mapA, a))
        /\ answer' = Abstract!Failed
        /\ UNCHANGED bits
     \/ /\ a \notin RegisteredA \/ b \notin RegisteredB
        /\ answer' = Abstract!Done
        /\ UNCHANGED bits
  /\ UNCHANGED <<width, mapA, mapB>>

(* Mutant: the bits are kept. *)
Clear_KeepBits ==
  /\ mapA' = <<>>
  /\ mapB' = <<>>
  /\ answer' = Abstract!Done
  /\ UNCHANGED <<width, bits>>

Clear ==
  /\ mapA' = <<>>
  /\ mapB' = <<>>
  /\ bits' = <<>>
  /\ answer' = Abstract!Done
  /\ UNCHANGED width

(* What Retrieve() finds: the set cells of the buffer, and any of those    *)
(* behind its end.                                                         *)
FindWithA(a) ==
  LET beyond == a \in Refused /\ RegisteredB # {}
  IN  /\ \/ /\ beyond
            /\ answer' = Abstract!Failed
         \/ /\ ~beyond
            /\ \E bs \in SUBSET {b \in B : <<a, b>> \in Behind} :
                 answer' = Abstract!FoundWithA(a,
                             {b \in RegisteredB : <<a, b>> \in Related} \cup bs)
      /\ UNCHANGED <<width, mapA, mapB, bits>>

FindWithB(b) ==
  LET beyond == b \in RegisteredB /\ Refused # {}
  IN  /\ \/ /\ beyond
            /\ answer' = Abstract!Failed
         \/ /\ ~beyond
            /\ \E as \in SUBSET {a \in A : <<a, b>> \in Behind} :
                 answer' = Abstract!FoundWithB(b,
                             {a \in RegisteredA : <<a, b>> \in Related} \cup as)
      /\ UNCHANGED <<width, mapA, mapB, bits>>

Next ==
  \/ \E a \in A, b \in B : Insert(a, b) \/ Remove(a, b)
  \/ Clear
  \/ \E a \in A : FindWithA(a)
  \/ \E b \in B : FindWithB(b)

Spec == Init /\ [][Next]_tableVars

-----------------------------------------------------------------------------
Answers ==
  {Abstract!Done, Abstract!Failed}
  \cup {Abstract!FoundWithA(a, bs) : a \in A, bs \in SUBSET B}
  \cup {Abstract!FoundWithB(b, as) : b \in B, as \in SUBSET A}

TypeOK ==
  /\ width \in Nat
  /\ mapA \in Seq(A)
  /\ mapB \in Seq(B)
  /\ bits \in Seq(BOOLEAN)
  /\ answer \in Answers

(* No value has two numbers. *)
Distinct(map) == \A j, k \in 1..Len(map) : map[j] = map[k] => j = k

(* A bit that is set belongs to two values that are registered, so that a  *)
(* value registered later never comes with relations nobody inserted, and  *)
(* no value has two numbers (table.h, Insert and Clear).                   *)
BitsOwned ==
  /\ TypeOK
  /\ Distinct(mapA)
  /\ Distinct(mapB)
  /\ \A c \in 1..Len(bits) : bits[c] =>
        \E x \in 0..(Len(mapA) - 1), y \in 0..(Len(mapB) - 1) :
           InWidth(x) /\ c = Cell(x, y) + 1

(* "can retrieve a A or B set by indicating an B or A value as the key"    *)
(* (table.h:221).  The bits of the table behave as the set of inserted     *)
(* pairs: no Insert, Remove or Clear changes the relation of any other     *)
(* pair, whatever numbers the values got and however far the buffer        *)
(* reaches.  A retrieval returns the related values, and no other but for  *)
(* those whose cell lies behind the end of the buffer, where the code      *)
(* breaks the promise (table.h:211);  an operation fails where it comes by *)
(* a value beyond the width and nowhere else.                              *)
Refines == Abstract!Spec
=============================================================================

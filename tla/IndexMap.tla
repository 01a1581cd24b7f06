------------------------------ MODULE IndexMap ------------------------------
(***************************************************************************)
(* table.h: index_map, the numbering of one side of a table.  mValBuf has  *)
(* the values in the order of their numbers, mIdxBuf the numbers in the    *)
(* order of the values; find() searches mIdxBuf by halving, one step of    *)
(* this module per turn of its loop, insert() goes on from where find()    *)
(* gave up.  The (min + max) of the code does not overflow: a buffer of    *)
(* 2^31 numbers does not fit the 32-bit sizes of its allocator.            *)
(***************************************************************************)
EXTENDS Integers, Sequences, SequencesExt

CONSTANT Values   (* the val_type, ordered by its operator < *)

ASSUME IndexMapAssumption == Values \subseteq Int

VARIABLES
  values,  (* mValBuf                                                      *)
  sorted,  (* mIdxBuf                                                      *)
  pc,      (* "idle", "find" or "insert"                                   *)
  call,    (* the operation find() was called from                         *)
  val,     (* its argument                                                 *)
  min, max, pos,  (* the locals of find() and its out_pos                  *)
  result   (* what the last call returned                                  *)

search == <<call, val, min, max, pos>>
vars == <<values, sorted, pc, search, result>>

Reference == INSTANCE Registry

(* The value at a place of mIdxBuf. *)
At(p) == values[sorted[p + 1] + 1]

Init ==
  /\ values = <<>>
  /\ sorted = <<>>
  /\ pc = "idle"
  /\ call = "index"
  /\ val = 0
  /\ min = 0 /\ max = 0 /\ pos = 0
  /\ result = Reference!NoResult

(* operator[] and Existed() start with find(). *)
Call(c, v) ==
  /\ pc = "idle"
  /\ pc' = "find"
  /\ call' = c
  /\ val' = v
  /\ min' = 0
  /\ max' = Len(sorted)
  /\ pos' = 0
  /\ UNCHANGED <<values, sorted, result>>

Return(r) ==
  /\ pc' = "idle"
  /\ result' = r
  /\ call' = "index" /\ val' = 0 /\ min' = 0 /\ max' = 0 /\ pos' = 0

Middle == (min + max) \div 2

Lower ==
  /\ pc = "find"
  /\ min < max
  /\ val < At(Middle)
  /\ pos' = Middle
  /\ max' = Middle
  /\ UNCHANGED <<values, sorted, pc, call, val, min, result>>

Upper ==
  /\ pc = "find"
  /\ min < Middle
  /\ At(Middle) < val
  /\ pos' = Middle
  /\ min' = Middle
  /\ UNCHANGED <<values, sorted, pc, call, val, max, result>>

(* Mutant: the place is taken for the number. *)
Found_Place ==
  /\ pc = "find"
  /\ min < max
  /\ At(Middle) = val
  /\ Return(Reference!Number(val, Middle))
  /\ UNCHANGED <<values, sorted>>

Found ==
  /\ pc = "find"
  /\ min < max
  /\ At(Middle) = val
  /\ Return(Reference!Number(val, sorted[Middle + 1]))
  /\ UNCHANGED <<values, sorted>>

(* Mutant: only an empty interval ends the loop. *)
GivesUp_Empty == min >= max

(* The loop runs out, or it breaks because min cannot be raised.           *)
GivesUp == min >= max \/ (min < max /\ min = Middle /\ At(Middle) < val)

Missed ==
  /\ pc = "find"
  /\ GivesUp
  /\ call = "existed"
  /\ Return(Reference!Unknown(val))
  /\ UNCHANGED <<values, sorted>>

Insert ==
  /\ pc = "find"
  /\ GivesUp
  /\ call = "index"
  /\ pc' = "insert"
  /\ pos' = IF min < max THEN Middle ELSE pos
  /\ UNCHANGED <<values, sorted, call, val, min, max, result>>

(* insert(): on to the first place whose value is not smaller. *)
Advance ==
  /\ pc = "insert"
  /\ pos < Len(sorted)
  /\ At(pos) < val
  /\ pos' = pos + 1
  /\ UNCHANGED <<values, sorted, pc, call, val, min, max, result>>

(* Mutant: find()'s place is taken as it is. *)
Place_AtOnce ==
  /\ pc = "insert"
  /\ values' = Append(values, val)
  /\ sorted' = InsertAt(sorted, pos + 1, Len(values))
  /\ Return(Reference!Number(val, Len(values)))

Place ==
  /\ pc = "insert"
  /\ pos < Len(sorted) => At(pos) >= val
  /\ values' = Append(values, val)
  /\ sorted' = InsertAt(sorted, pos + 1, Len(values))
  /\ Return(Reference!Number(val, Len(values)))

Clear ==
  /\ pc = "idle"
  /\ values' = <<>>
  /\ sorted' = <<>>
  /\ result' = Reference!NoResult
  /\ UNCHANGED <<pc, search>>

Loop == Lower \/ Upper \/ Found \/ Missed \/ Insert \/ Advance \/ Place

Next ==
  \/ \E c \in {"index", "existed"}, v \in Values : Call(c, v)
  \/ Loop
  \/ Clear

Spec == Init /\ [][Next]_vars

(* A call is a loop of the calling thread: it goes on. *)
FairSpec == Spec /\ WF_vars(Loop)

-----------------------------------------------------------------------------
Results ==
  {Reference!NoResult}
  \cup {Reference!Number(v, k) : v \in Values, k \in 0..(Len(values) - 1)}
  \cup {Reference!Unknown(v) : v \in Values}

TypeOK ==
  /\ values \in Seq(Values)
  /\ sorted \in [1..Len(values) -> 0..(Len(values) - 1)]
  /\ pc \in {"idle", "find", "insert"}
  /\ call \in {"index", "existed"}
  /\ val \in Values \cup {0}
  /\ min \in 0..Len(sorted)
  /\ max \in 0..Len(sorted)
  /\ pos \in 0..Len(sorted)
  /\ result \in Results

(* mIdxBuf orders all the values, and the search never cuts the value off: *)
(* what lies below min is smaller, what lies from max on is greater, and   *)
(* insert() starts with nothing but smaller values behind it (table.h,     *)
(* find and insert).                                                       *)
SearchOrdered ==
  /\ TypeOK
  /\ \A k \in 1..Len(values) : \E p \in 1..Len(sorted) : sorted[p] + 1 = k
  /\ \A p, q \in 0..(Len(sorted) - 1) : p < q => At(p) < At(q)
  /\ pc = "find" =>
        /\ \A p \in 0..(min - 1) : At(p) < val
        /\ \A p \in max..(Len(sorted) - 1) : val < At(p)
  /\ pc = "insert" =>
        /\ \A p \in 0..(pos - 1) : At(p) < val
        /\ \A p \in 0..(Len(sorted) - 1) : At(p) # val

(* The search by halving tells the numbers a plain list would tell: no     *)
(* value is numbered twice, missed, or given the number of another one     *)
(* (table.h, Existed and operator[]).                                      *)
Refines == Reference!Spec

(* Every search and insertion comes to an end: the loop of find() keeps    *)
(* min where it was, and must break, once the interval has one place left. *)
SearchEnds == (pc # "idle") ~> (pc = "idle")
=============================================================================

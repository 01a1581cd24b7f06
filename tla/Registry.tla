------------------------------ MODULE Registry ------------------------------
(***************************************************************************)
(* What a user of table.h's index_map relies on: every value gets a number *)
(* at its first operator[], in the order they come, and keeps it until     *)
(* Clear(); Existed() tells the number of a value that has one.            *)
(***************************************************************************)
EXTENDS Integers, Sequences

CONSTANT Values

VARIABLES
  values,  (* the values that have a number: values[k + 1] has k           *)
  result   (* what the last call returned                                  *)

regVars == <<values, result>>

NoResult == [of |-> "none"]
Number(v, k) == [of |-> "number", value |-> v, number |-> k]
Unknown(v) == [of |-> "unknown", value |-> v]

Numbered(v) == \E k \in 1..Len(values) : values[k] = v
NumberOf(v) == (CHOOSE k \in 1..Len(values) : values[k] = v) - 1

Init ==
  /\ values = <<>>
  /\ result = NoResult

(* operator[] *)
Index(v) ==
  \/ /\ Numbered(v)
     /\ result' = Number(v, NumberOf(v))
     /\ UNCHANGED values
  \/ /\ ~Numbered(v)
     /\ result' = Number(v, Len(values))
     /\ values' = Append(values, v)

Existed(v) ==
  /\ result' = IF Numbered(v) THEN Number(v, NumberOf(v)) ELSE Unknown(v)
  /\ UNCHANGED values

Clear ==
  /\ values' = <<>>
  /\ result' = NoResult

Next ==
  \/ \E v \in Values : Index(v) \/ Existed(v)
  \/ Clear

Spec == Init /\ [][Next]_regVars
=============================================================================

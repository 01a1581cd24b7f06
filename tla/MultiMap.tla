------------------------------ MODULE MultiMap ------------------------------
(***************************************************************************)
(* What table.h's table promises: "a bidirectional multi-map which can     *)
(* retrieve a A or B set by indicating an B or A value as the key".        *)
(*                                                                         *)
(* A table may have columns for width A values only.  An A value inserted  *)
(* when they are taken is known but refused: what concerns it fails until  *)
(* Clear().                                                                *)
(*                                                                         *)
(* A retrieval returns the related values, and they alone.  The exception, *)
(* if there is to be one, is given from outside: for a pair in unread a    *)
(* retrieval may come out either way.                                      *)
(***************************************************************************)
EXTENDS Naturals

CONSTANTS A, B

VARIABLES
  width,    (* the number of columns, 0 for as many as it takes            *)
  related,  (* the pairs inserted and not removed                          *)
  knownA,   (* the A values inserted since Clear(), removed or not         *)
  knownB,   (* the B values                                                *)
  count,    (* how many A values are known                                 *)
  refused,  (* those of them that found no column                          *)
  unread,   (* the pairs the promise says nothing of                       *)
  answer    (* what the last operation returned                            *)

vars == <<width, related, knownA, knownB, count, refused, answer>>

(* "done": nothing to return;  "throw": an exception;  "A" and "B": what   *)
(* was found with the key.                                                 *)
Done == [of |-> "done"]
Failed == [of |-> "throw"]
FoundWithA(a, bs) == [of |-> "A", key |-> a, found |-> bs]
FoundWithB(b, as) == [of |-> "B", key |-> b, found |-> as]

Init ==
  /\ related = {}
  /\ knownA = {}
  /\ knownB = {}
  /\ count = 0
  /\ refused = {}
  /\ answer = Done

HasColumn(a) ==
  \/ a \in knownA \ refused
  \/ a \notin knownA /\ (width = 0 \/ count < width)

(* A pair that fails makes its values known, too. *)
Insert(a, b) ==
  /\ knownA' = knownA \cup {a}
  /\ knownB' = knownB \cup {b}
  /\ count' = IF a \in knownA THEN count ELSE count + 1
  /\ \/ /\ HasColumn(a)
        /\ answer' = Done
        /\ related' = related \cup {<<a, b>>}
        /\ refused' = refused
     \/ /\ ~HasColumn(a)
        /\ answer' = Failed
        /\ related' = related
        /\ refused' = refused \cup {a}
  /\ UNCHANGED width

Remove(a, b) ==
  /\ answer' = IF a \in refused /\ b \in knownB THEN Failed ELSE Done
  /\ related' = related \ {<<a, b>>}
  /\ UNCHANGED <<width, knownA, knownB, count, refused>>

Clear ==
  /\ answer' = Done
  /\ related' = {}
  /\ knownA' = {}
  /\ knownB' = {}
  /\ count' = 0
  /\ refused' = {}
  /\ UNCHANGED width

(* A retrieval fails if it comes by a refused value, related or not. *)
FindWithA(a) ==
  LET relatives == {b \in B : <<a, b>> \in related}
      fails == a \in refused /\ knownB # {}
  IN  /\ \/ fails /\ answer' = Failed
         \/ /\ ~fails
            /\ \E bs \in SUBSET {b \in B : <<a, b>> \in unread} :
                 answer' = FoundWithA(a, relatives \cup bs)
      /\ UNCHANGED <<width, related, knownA, knownB, count, refused>>

FindWithB(b) ==
  LET relatives == {a \in A : <<a, b>> \in related}
      fails == b \in knownB /\ refused # {}
  IN  /\ \/ fails /\ answer' = Failed
         \/ /\ ~fails
            /\ \E as \in SUBSET {a \in A : <<a, b>> \in unread} :
                 answer' = FoundWithB(b, relatives \cup as)
      /\ UNCHANGED <<width, related, knownA, knownB, count, refused>>

Next ==
  \/ \E a \in A, b \in B : Insert(a, b) \/ Remove(a, b)
  \/ Clear
  \/ \E a \in A : FindWithA(a)
  \/ \E b \in B : FindWithB(b)

Spec == Init /\ [][Next]_vars
=============================================================================

--------------------------- MODULE PropertyStore ---------------------------
(***************************************************************************)
(* What a user of property_map.h relies on: a property is a key and a      *)
(* value, the empty value of a key stands for no property.  operator[]     *)
(* answers with a reference, through which the client may assign to that   *)
(* key and no other until Clear(), whatever is called in between.          *)
(***************************************************************************)
CONSTANTS
  Keys,      (* the keys in use                                            *)
  Val,       (* the valid values                                           *)
  Empty,     (* val_type()                                                 *)
  None       (* no key referred to, or nothing answered                    *)

VARIABLES
  content,   (* the value of every key                                     *)
  refKey,    (* the key the client holds a reference to                    *)
  reply      (* what the last call answered                                *)

storeVars == <<content, refKey, reply>>

Init ==
  /\ content = [k \in Keys |-> Empty]
  /\ refKey = None
  /\ reply = None

(* A call begins: the answer before it is forgotten. *)
Begin ==
  /\ reply' = None
  /\ UNCHANGED <<content, refKey>>

GetValue(k) ==
  /\ reply' = [key |-> k, val |-> content[k]]
  /\ UNCHANGED <<content, refKey>>

Remove(k) ==
  /\ content' = [content EXCEPT ![k] = Empty]
  /\ UNCHANGED <<refKey, reply>>

(* operator[] *)
Index(k) ==
  /\ refKey' = k
  /\ UNCHANGED <<content, reply>>

Assign(v) ==
  /\ refKey # None
  /\ content' = [content EXCEPT ![refKey] = v]
  /\ reply' = None
  /\ UNCHANGED refKey

Clear ==
  /\ content' = [k \in Keys |-> Empty]
  /\ refKey' = None
  /\ reply' = None

Next ==
  \/ Begin
  \/ \E k \in Keys : GetValue(k) \/ Remove(k) \/ Index(k)
  \/ \E v \in Val \cup {Empty} : Assign(v)
  \/ Clear

Spec == Init /\ [][Next]_storeVars
=============================================================================

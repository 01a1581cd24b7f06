---------------------------- MODULE MCFieldParse ----------------------------
(* A protocol with a repeated record, a repeated record inside it, an      *)
(* optional trailing field, and a field behind the records:                *)
(*   [protocol [head] {record [key] {part [bits]} {tail}} [check]]         *)
EXTENDS FieldExpand, TLC

CONSTANTS protocol, head, record, key, part, bits, tail, check

Fields == {protocol, head, record, key, part, bits, tail, check}

Tree ==
  protocol :> <<head, record, check>> @@ record :> <<key, part, tail>>
  @@ part :> <<bits>>
  @@ [f \in {head, key, bits, tail, check} |-> <<>>]

Pairs == {<<head, record>>, <<key, part>>, <<key, tail>>, <<part, check>>}

(* One bit at an even offset, two at an odd one, or the other way round;   *)
(* a part may be of no size at all.                                        *)
Bits == [f \in Fields |-> IF f \in {head, bits} THEN 0 :> 1 @@ 1 :> 2
                          ELSE IF f = part THEN 0 :> 1 @@ 1 :> 0
                          ELSE 0 :> 2 @@ 1 :> 1]

Buffer(records, keys, parts, items, tails, heads) ==
  [f \in Fields |->
     CASE f = record -> <<records>>
       [] f = key -> <<keys, keys>>
       [] f = part -> parts
       [] f = bits -> items
       [] f = tail -> tails
       [] f = head -> <<heads>>
       [] OTHER -> <<1>>]

(* No leaf field but the last of its parent is ever absent. *)
Buffers == {Buffer(r, 1, p, b, t, 1) :
              r \in 0..2, p \in {<<0, 2>>, <<2, 1>>, <<1, 0>>},
              b \in {<<1, 2>>, <<2, 1>>}, t \in {<<2, 0>>, <<0, 1>>, <<1, 1>>}}

(* The field in front of the others may be absent, too. *)
OptionalLeaf == {Buffer(1, 1, <<1, 1>>, <<1, 1>>, <<1, 1>>, h) : h \in 0..1}
=============================================================================

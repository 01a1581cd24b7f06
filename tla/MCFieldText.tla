---------------------------- MODULE MCFieldText -----------------------------
(* Messages of [top [head] {row [key] {cell [item]} {mark}} {tail}].       *)
EXTENDS TextTree

CONSTANTS top, head, row, key, cell, item, mark, tail

Tree ==
  [f \in {top, head, row, key, cell, item, mark, tail} |->
     CASE f = top -> {head, row, tail}
       [] f = row -> {key, cell, mark}
       [] f = cell -> {item}
       [] OTHER -> {}]

V(type, size, id) == [type |-> type, size |-> size, id |-> id]
N(f, times) == [field |-> f, times |-> times]

Row(k, items, marks) ==
  << N(key, <<V("int", 1, k)>>), N(cell, [c \in DOMAIN items |-> << N(item, items[c]) >>]),
     N(mark, [m \in 1..marks |-> V("bln", 1, m)]) >>

Message(heads, rows, tails) ==
  N(top, << << N(head, heads), N(row, rows), N(tail, tails) >> >>)

Ints(n) == [k \in 1..n |-> V("int", 1, k)]

(* Values that can all be read, below levels that end together or not.     *)
Shapes ==
  {Message(Ints(1), rows, Ints(2)) :
     rows \in {<< Row(1, <<Ints(1), Ints(2)>>, 1), Row(2, <<>>, 0) >>,
               << Row(1, <<>>, 0), Row(2, <<Ints(1)>>, 0) >>}}
  \cup {Message(Ints(1), rows, <<>>) :
     rows \in {<< Row(1, <<Ints(1), <<>> >>, 0) >>, << Row(1, <<Ints(1)>>, 0), Row(2, <<>>, 1) >>}}

(* The values whose text is special, in front of another one of their own  *)
(* type or of a string, and behind one.                                    *)
EmptyString == V("str", 0, 0)
Special == {V("NUL", 0, 0), V("buf", 0, 3), V("buf", 1, 4), V("buf", 2, 5), EmptyString,
            V("mbs", 2, 7), V("flt", 7, 8), V("flt", 0, 9)}
Plain == V("str", 1, 1)
Items(v) == Message(<<>>, << Row(1, <<v>>, 0) >>, Ints(1))
Specials ==
  {Items(v) : v \in {<<x, y>> : x \in Special, y \in {Plain}}
                    \cup {<<x, V(x.type, 2, 2)>> : x \in Special}
                    \cup {<<Plain, x>> : x \in {y \in Special : y.type # "buf"}}}

AllMessages == Shapes \cup Specials

Flags == {{}, {"num"}, {"max_num"}, {"num", "max_num", "leaf_only"}}
=============================================================================

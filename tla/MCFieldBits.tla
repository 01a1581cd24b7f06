---------------------------- MODULE MCFieldBits -----------------------------
(* Bytes of two bits, and fields that share them; the last one reaches     *)
(* behind the end of the largest buffer.                                   *)
EXTENDS FieldBits

AllFields ==
  [f \in {"width", "height", "flag"} |->
     CASE f = "width" -> [offset |-> 1, size |-> 2, type |-> "int"]
       [] f = "height" -> [offset |-> 3, size |-> 2, type |-> "int"]
       [] f = "flag" -> [offset |-> 4, size |-> 2, type |-> "bln"]]

Sizes == [b \in {"msg", "out"} |-> IF b = "msg" THEN 3 ELSE 1]
AllInts == {0, 1, 3}
AllRanges == {<<0, 1, 2>>, <<0, 3, 9>>, <<3, 1, 1>>, <<1, 0, 15>>}
=============================================================================

---------------------------- MODULE FieldExpand ----------------------------
(***************************************************************************)
(* What a parse should deliver, defined on the descriptor tree and the     *)
(* buffer alone, and the properties that hold ParseField against it.  What *)
(* can be said without that is stated in FieldParse.                       *)
(***************************************************************************)
EXTENDS FieldParse

(* The protocol description read as a grammar (README.md): a field occurs  *)
(* count times in a row, each occurrence of a combined field followed by   *)
(* what its sub-fields expand to.  A leaf is delivered in one piece.       *)
(* expanded[g][n] is the expansion of g in the n-th repetition around it.  *)
SubExpansion(expanded, f, n) ==
  FlattenSeq([k \in DOMAIN SubFields[f] |-> expanded[SubFields[f][k]][n]])

Expansion(expanded, f, count) ==
  IF count = 0 THEN <<>>
  ELSE IF IsLeaf(f) THEN << <<f, 1, count>> >>
  ELSE FlattenSeq([n \in 1..count |-> << <<f, n, count>> >> \o SubExpansion(expanded, f, n)])

Expand(f, repetition) ==
  LET expanded[g \in Node] ==
        [n \in DOMAIN content[g] |-> Expansion(expanded, g, content[g][n])]
  IN  expanded[f][repetition]

Delivered(log) ==
  [k \in DOMAIN log |-> <<log[k].info.field, log[k].info.number, log[k].info.max>>]

(* At every moment the Callback calls made are the first ones of the       *)
(* expansion: no field is skipped, repeated or delivered with a wrong      *)
(* number (field_des.cpp, invokeCallback; field_des.h, afterPopStack).     *)
ParseExpands == IsPrefix(Delivered(emitted), Expand(Parser, 1))

(* A parse that nobody breaks off delivers the whole expansion. *)
ParseComplete ==
  [][(purpose = "lend" /\ AtEnd /\ stack = <<>> /\ pc' = "idle")
       => Delivered(emitted') = Expand(Parser, 1)]_parseVars

(* Every parse comes to an end. *)
ParseEnds == (pc # "idle" /\ purpose = "lend") ~> (pc = "idle")

(* The parser's descriptors outlive the parse, however it ends: the local  *)
(* tree object gives the root back "to avoid delete" (field_des.cpp,       *)
(* ParseField).                                                            *)
DescriptorsSurvive == alive = Node
=============================================================================

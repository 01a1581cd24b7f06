----------------------------- MODULE TextTree ------------------------------
(***************************************************************************)
(* What the text of a message should be, defined on the message tree, and  *)
(* what reading it should give: the reference for FieldText.               *)
(***************************************************************************)
EXTENDS FieldText

Joined(parts) ==
  Concat(Len(parts), LAMBDA k : (IF k = 1 THEN <<>> ELSE << <<",">> >>) \o parts[k])

(* An XML element per occurrence, those of the sub-fields inside it.       *)
RECURSIVE Elements(_)
Elements(node) ==
  LET Name(n) == FieldName(node.field, n, oflags)
      Inside(subs) == Concat(Len(subs), LAMBDA k : Elements(subs[k]))
      Close(n) == << <<"close", Name(n)>> >>
      Element(n, x) ==
        IF IsLeaf(node.field)
        THEN << <<"leaf", Name(n), x.type>>, <<"val", Shown(x)>> >> \o Close(n)
        ELSE IF "leaf_only" \in oflags THEN Inside(x)
        ELSE << <<"open", Name(n)>> >> \o Inside(x) \o Close(n)
  IN  Concat(Len(node.times), LAMBDA n : Element(n, node.times[n]))

(* The JSON members of a field: one with an array of the occurrences, or   *)
(* one for each if they are told by number.                                *)
RECURSIVE Members(_)
Members(node) ==
  LET leaf == IsLeaf(node.field)
      Inside(subs) == Concat(Len(subs), LAMBDA k : Members(subs[k]))
      Value(x) == IF leaf THEN << <<"val", Shown(x)>> >>
                  ELSE << <<"{">> >> \o Joined(Inside(x)) \o << <<"}">> >>
      Key(n) == LET name == FieldName(node.field, n, oflags)
                IN  (IF leaf THEN << <<"meta", name, node.times[n].type>> >>
                     ELSE IF WithAttributes THEN << <<"meta", name, "none">> >> ELSE <<>>)
                    \o << <<"key", name>> >>
      values == Concat(Len(node.times), LAMBDA n : << Value(node.times[n]) >>)
  IN  IF node.times = <<>> THEN <<>>
      ELSE IF ~leaf /\ "leaf_only" \in oflags
      THEN Concat(Len(node.times), LAMBDA n : Inside(node.times[n]))
      ELSE IF "num" \in oflags THEN Concat(Len(values), LAMBDA n : << Key(n) \o values[n] >>)
      ELSE IF Len(values) = 1 THEN << Key(1) \o values[1] >>
      ELSE << Key(1) \o << <<"[">> >> \o Joined(values) \o << <<"]">> >> >>

Document ==
  LET Body(m) == IF format = "xml" THEN Elements(m) ELSE Members(m)
      body == Concat(Len(written), LAMBDA k : Body(written[k]))
  IN  IF format = "xml" THEN OnOutputHead \o body \o OnOutputTail
      ELSE OnOutputHead \o (IF oflags # {} /\ body # <<>> THEN << <<",">> >> ELSE <<>>)
           \o Joined(body) \o OnOutputTail

(* The combined fields around a field. *)
Depth ==
  LET depth[f \in DOMAIN SubFields] ==
        LET above == {g \in DOMAIN SubFields : f \in SubFields[g]}
        IN  IF above = {} THEN 0 ELSE 1 + depth[CHOOSE g \in above : TRUE]
  IN  depth

(* Two levels of combined fields end together if what follows a field is   *)
(* further out than the field's parent, or the combined field itself.      *)
EndTogether ==
  LET calls == AllCalls
  IN  \E k \in 1..(Len(calls) - 1) :
         LET f == calls[k].field
         IN  Depth[f] + (IF IsLeaf(f) THEN 0 ELSE 1) > Depth[calls[k + 1].field] + 1

(* "all fields are organized as a tree" (README.md), and so is the text:   *)
(* at every moment it is the beginning of the document that nests as the   *)
(* message does, and Flush completes it (field_info_conv.h, Callback).     *)
TextIsTree ==
  /\ text = <<>> \/ IsPrefix(text, Document)
  /\ pc = "flushed" => text = Document

(* Where it does: whenever no two levels of combined fields end together   *)
(* before the last field, or only leaves are written; also if the stream   *)
(* fails on the way (field_info_conv.h, isParentEnd, and the comma, the    *)
(* brackets and the array ends of the JSON traits).                        *)
TextFaithful == (EndTogether /\ "leaf_only" \notin oflags) \/ TextIsTree

(* The values of the messages, each with the type it is read as: the items *)
(* of a JSON array have one type between them, that of the first.          *)
ValuesOf ==
  [m \in Messages, alike \in BOOLEAN |->
     LET calls == CallsOf[m]
         As(call, n) == call.vals[IF alike THEN 1 ELSE n].type
         Of(call) == [n \in DOMAIN call.vals |-> [val |-> call.vals[n], as |-> As(call, n)]]
     IN  Concat(Len(calls), LAMBDA k : Of(calls[k]))]

Values ==
  LET alike == format = "json" /\ "num" \notin oflags
  IN  Concat(Len(written), LAMBDA k : ValuesOf[written[k], alike])

(* How many of them the text holds. *)
Told == Cardinality({k \in DOMAIN text : text[k][1] = "val"})

(* Values that leave the stream failed: those without a text ("", NUL),    *)
(* fractions without digits ("inf"), what is read as a number and is none. *)
Spoils(x) == x.as \notin {"NUL", "buf"} /\ ~Extracts(x.val, x.as)

(* The reader gives the message the values the text holds, each to the     *)
(* field it belongs to and none twice or left out, up to one that leaves   *)
(* the stream failed or the place where the text was cut off.  Only an     *)
(* item of a JSON array that is read as another type than its own is not   *)
(* what it was (field_info_conv.h, Callback of conv_field_info;            *)
(* field_info_conv.cpp, onParseFieldValue, findTag).                       *)
ReadsBack ==
  LET values == Values
  IN  /\ \A k \in DOMAIN got :
           (k <= Told /\ values[k].as = values[k].val.type /\ \A j \in 1..k : ~Spoils(values[j]))
             => got[k] = Shown(values[k].val)
      /\ pc = "read" => Len(got) = Len(values)

(* Values the reader refuses, at once or with the next callback.           *)
Unreadable(x) ==
  Spoils(x) \/ x.as = "NUL" \/ (x.as = "buf" /\ (x.val.type # "buf" \/ x.val.size < 2))

(* The reader refuses a text only if some value of it cannot be read as    *)
(* the type it is read as, or the text is cut off: never one that the      *)
(* writer completed and whose values all have a text of that type          *)
(* (field_info_conv.h, "bad input-stream!").                               *)
RefusedForCause ==
  pc = "refused" => LET values == Values
                    IN  Told < Len(values) \/ \E k \in DOMAIN values : Unreadable(values[k])

(* If no value leaves the stream failed every reading comes to an end,     *)
(* also of a text that was cut off (field_info_conv.cpp, findTag).         *)
ReadEnds ==
  (pc = "reading" /\ LET values == Values IN \A k \in DOMAIN values : ~Spoils(values[k]))
    ~> pc \in {"read", "refused"}
=============================================================================

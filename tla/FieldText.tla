----------------------------- MODULE FieldText -----------------------------
(***************************************************************************)
(* field_info_conv.h/.cpp: the parse_callbacks that turn a binary message  *)
(* into XML or JSON text (field_info_conv) and such text into a message    *)
(* again (conv_field_info), with the stream underneath.                    *)
(*                                                                         *)
(* The calls a converter gets are those ParseField is shown to make in     *)
(* FieldExpand.  Text is a sequence of tokens: layout and the spelling of  *)
(* names and numbers are left out, the structure the reader searches for   *)
(* is all there.  A value is its type, its size and an identity;  its      *)
(* token takes in the character its reader stops at.  The size is that of  *)
(* the bytes or characters, of a fraction the digits behind the point: 0   *)
(* for one that has none to show ("inf", "nan").  A string starts with a   *)
(* letter no number and no Boolean starts with.  Names are matched as a    *)
(* whole.                                                                  *)
(***************************************************************************)
EXTENDS Integers, Sequences, FiniteSets, SequencesExt

CONSTANTS
  SubFields,   (* the descriptor tree: the sub-fields of every field       *)
  Messages,    (* message trees: the root field with its occurrences       *)
  OFlagSets,   (* the output flags converters are made with                *)
  Cuts,        (* whether the output stream may fail                       *)
  MaxMessages  (* bound: messages written into one text                    *)

ASSUME TextAssumption ==
  /\ \A f \in DOMAIN SubFields : SubFields[f] \subseteq DOMAIN SubFields
  /\ Cuts \in BOOLEAN
  /\ MaxMessages \in Nat

VARIABLES
  format,      (* the traits: "xml" or "json"                              *)
  oflags,      (* mOFlags of the writer                                    *)
  written,     (* history: the messages parsed with the writer             *)
  due,         (* the Callback calls the running parse has still to make   *)
  text,        (* the stream's contents                                    *)
  good,        (* mOST->good()                                             *)
  headOutputed, openItems, fieldSep,     (* mIsHeadOutputed, mStackBuf, mFieldSep *)
  pos,         (* the tokens the reader has consumed; -1: no head parsed   *)
  ist,         (* state of the input stream: "good", "fail" or "eof"       *)
  parsedFlags, (* mOFlags of the reader                                    *)
  curValType,  (* mCurValType                                              *)
  got,         (* history: the values the reader encoded                   *)
  pc

env == <<format, oflags, written>>
writer == <<headOutputed, openItems, fieldSep, good, text>>
reader == <<pos, ist, parsedFlags, curValType, got>>
textVars == <<env, writer, reader, due, pc>>

IsLeaf(f) == SubFields[f] = {}

(* Step(x); TLC evaluates x once. *)
Through(x, Step(_)) == CHOOSE y \in {Step(z) : z \in {x}} : TRUE

Concat(n, Part(_)) == FoldLeft(LAMBDA s, k : s \o Part(k), <<>>, [k \in 1..n |-> k])

(* The Callback calls for a field of a message (FieldExpand, Expand): one  *)
(* per occurrence of a combined field, one for all items of a leaf.        *)
RECURSIVE Calls(_)
Calls(node) ==
  LET max == Len(node.times)
      Call(n, vals) == << [field |-> node.field, first |-> n, max |-> max, vals |-> vals] >>
      Inside(subs) == Concat(Len(subs), LAMBDA k : Calls(subs[k]))
  IN  IF max = 0 THEN <<>>
      ELSE IF IsLeaf(node.field) THEN Call(1, node.times)
      ELSE Concat(max, LAMBDA n : Call(n, <<>>) \o Inside(node.times[n]))

CallsOf == [m \in Messages |-> Calls(m)]

Numbers == {"int", "hex", "flt", "dbl"}

(* The items of a leaf may have different types.  Of the mixtures those    *)
(* are left out in which the reader of one item stops within another item, *)
(* or makes another number of it: a buffer behind something else, something *)
(* else behind a buffer other than in last place, and two kinds of number. *)
ASSUME MixtureAssumption ==
  \A m \in Messages : \A call \in ToSet(CallsOf[m]) : \A n \in DOMAIN call.vals :
     LET first == call.vals[1].type
         own == call.vals[n].type
     IN  first # own => /\ own # "buf"
                        /\ first = "buf" => n = Len(call.vals)
                        /\ ~({first, own} \subseteq Numbers)
AllCalls == Concat(Len(written), LAMBDA k : CallsOf[written[k]])

-----------------------------------------------------------------------------
(***************************************************************************)
(* The writer.                                                             *)
(***************************************************************************)
VALID_OFLAG == <<"num", "max_num", "pos", "size", "leaf_only">>

(* outputOFlags *)
OutputOFlags(flags) == SelectSeq(VALID_OFLAG, LAMBDA f : f \in flags)

(* Mutant: the end of "max_num" is taken for "num". *)
GetOFlags_AnyNum(names) ==
  ToSet(names) \cup (IF "max_num" \in ToSet(names) THEN {"num"} ELSE {})

(* getOFlags looks at the first "num" of the text only, and not at all if  *)
(* it is the end of "max_num".                                             *)
GetOFlags(names) ==
  LET num == SelectSeq(names, LAMBDA f : f \in {"num", "max_num"})
  IN  (ToSet(names) \ {"num"}) \cup (IF num # <<>> /\ num[1] = "num" THEN {"num"} ELSE {})

(* genFieldName *)
FieldName(f, n, flags) == <<f, IF "num" \in flags THEN n ELSE 0>>

(* outputFieldBegin: the attributes; a leaf has its type among them.       *)
WithAttributes == oflags \cap {"max_num", "pos", "size"} # {}

(* outputFieldVal: fixed notation keeps six digits behind the point.       *)
Shown(v) == IF v.type \in {"flt", "dbl"} /\ v.size > 6 THEN [v EXCEPT !.size = 6] ELSE v

OnOutputHead ==
  IF format = "xml" THEN << <<"head", OutputOFlags(oflags)>> >>
  ELSE IF oflags = {} THEN << <<"{">> >>
  ELSE << <<"{">>, <<"oflags", OutputOFlags(oflags)>> >>

OnOutputTail == IF format = "xml" THEN << <<"tail">> >> ELSE << <<"}">> >>

OnOutputParentEnd(item) ==
  IF format = "xml" THEN << <<"close", item.name>> >>
  ELSE IF item.isArrayEnd THEN << <<"}">>, <<"]">> >> ELSE << <<"}">> >>

(* The state of the writer within a Callback call.                         *)
Put(w, tokens) == [w EXCEPT !.text = @ \o tokens]

(* onOutputCombinedField and onOutputLeafField of the XML traits.          *)
OutputXml(w, call, n) ==
  LET name == FieldName(call.field, n, oflags)
  IN  IF IsLeaf(call.field)
      THEN Put(w, << <<"leaf", name, call.vals[n].type>>, <<"val", Shown(call.vals[n])>>,
                     <<"close", name>> >>)
      ELSE [Put(w, << <<"open", name>> >>) EXCEPT
              !.items = Append(@, [field |-> call.field, name |-> name, isArrayEnd |-> FALSE])]

(* outputField of the JSON traits. *)
OutputJson(w, call, n) ==
  LET leaf == IsLeaf(call.field)
      name == FieldName(call.field, n, oflags)
      array == call.max > 1 /\ "num" \notin oflags
      meta == IF leaf THEN << <<"meta", name, call.vals[n].type>> >>
              ELSE IF WithAttributes THEN << <<"meta", name, "none">> >> ELSE <<>>
      begin == IF n = 1 \/ "num" \in oflags
               THEN meta \o << <<"key", name>> >> \o (IF array THEN << <<"[">> >> ELSE <<>>)
               ELSE <<>>
      end == array /\ n = call.max
  IN  IF leaf
      THEN [Put(w, w.sep \o begin \o << <<"val", Shown(call.vals[n])>> >>
                   \o (IF end THEN << <<"]">> >> ELSE <<>>)) EXCEPT !.sep = << <<",">> >>]
      ELSE [Put(w, w.sep \o begin \o << <<"{">> >>) EXCEPT
              !.items = Append(@, [field |-> call.field, name |-> name, isArrayEnd |-> end]),
              !.sep = <<>>]

(* A combined field is not written with FIC_OUTPUT_LEAF_FIELD_ONLY.        *)
OutputItem(w, call, n) ==
  IF ~IsLeaf(call.field) /\ "leaf_only" \in oflags THEN w
  ELSE IF format = "xml" THEN OutputXml(w, call, n) ELSE OutputJson(w, call, n)

OutputItems(w, call) ==
  LET ns == IF IsLeaf(call.field) THEN call.max ELSE 1
      Item(s, k) == Through(s, LAMBDA t : OutputItem(t, call, call.first + k - 1))
  IN  FoldLeft(Item, w, [k \in 1..ns |-> k])

(* outputParentEnd(false): one open parent is closed. *)
OutputParentEnd(w) ==
  [Put(w, OnOutputParentEnd(Last(w.items))) EXCEPT !.items = Front(@), !.sep = << <<",">> >>]

(* Mutant: the parents stay open. *)
EndParent_Never(w, f) == w

(* isParentEnd: the field is not a sub-field of the innermost open one.    *)
EndParent(w, f) ==
  IF w.items # <<>> /\ f \notin SubFields[Last(w.items).field]
  THEN OutputParentEnd(w) ELSE w

BeginText(w) ==
  IF headOutputed THEN w
  ELSE [Put(w, OnOutputHead) EXCEPT !.sep = IF oflags = {} THEN <<>> ELSE << <<",">> >>]

AfterCallback ==
  LET call == Head(due)
      w == BeginText([text |-> text, items |-> openItems, sep |-> fieldSep])
  IN  Through(Through(w, LAMBDA s : EndParent(s, call.field)), LAMBDA s : OutputItems(s, call))

(* ParseField with the writer as its callback; a text may take several     *)
(* messages before it is flushed.  Bound: at most MaxMessages, all alike.  *)
WriteMessage(m) ==
  /\ pc = "idle"
  /\ Len(written) < MaxMessages /\ ToSet(written) \subseteq {m}
  /\ written' = Append(written, m)
  /\ due' = CallsOf[m]
  /\ pc' = "writing"
  /\ UNCHANGED <<format, oflags, writer, reader>>

(* Callback on a good stream.  The stream may fail on the way: what comes  *)
(* after that is lost, and only the next call notices.                     *)
WriteField ==
  /\ pc = "writing"
  /\ due # <<>>
  /\ good
  /\ \E w \in {AfterCallback} :
       /\ \/ good' = TRUE /\ text' = w.text
          \/ /\ Cuts
             /\ good' = FALSE
             /\ \E k \in Len(text)..(Len(w.text) - 1) : text' = SubSeq(w.text, 1, k)
       /\ openItems' = w.items
       /\ fieldSep' = w.sep
  /\ headOutputed' = TRUE
  /\ due' = Tail(due)
  /\ UNCHANGED <<env, reader, pc>>

(* Callback throws "bad output-stream!". *)
WriteRefused ==
  /\ pc = "writing"
  /\ due # <<>>
  /\ ~good
  /\ due' = <<>>
  /\ pc' = "idle"
  /\ UNCHANGED <<env, writer, reader>>

WriteEnds ==
  /\ pc = "writing"
  /\ due = <<>>
  /\ pc' = "idle"
  /\ UNCHANGED <<env, writer, reader, due>>

(* outputParentEnd(true): all the open parents are closed. *)
CloseAll(w) == FoldLeft(LAMBDA s, k : Through(s, OutputParentEnd), w, w.items)

(* Flush, also called by the destructor. *)
Flush ==
  /\ pc = "idle"
  /\ headOutputed
  /\ good
  /\ \E w \in {CloseAll([text |-> text, items |-> openItems, sep |-> fieldSep])} :
       /\ text' = w.text \o OnOutputTail
       /\ openItems' = w.items
       /\ fieldSep' = w.sep
  /\ headOutputed' = FALSE
  /\ pc' = "flushed"
  /\ UNCHANGED <<env, reader, due, good>>

-----------------------------------------------------------------------------
(***************************************************************************)
(* The reader.                                                             *)
(***************************************************************************)
(* The first token of this kind and name behind p; 0 if there is none.     *)
AnyName == <<>>

FirstBehind(p, kind, name) ==
  LET found == {k \in (p + 1)..Len(text) : text[k][1] = kind /\ name \in {AnyName, text[k][2]}}
  IN  IF found = {} THEN 0 ELSE Min(found)

(* Mutant: the end of the file is not noticed. *)
FindTag_NoEof(r, kind, name) ==
  LET k == FirstBehind(r.pos, kind, name)
  IN  IF r.ist = "fail" \/ k = 0 THEN [r EXCEPT !.outcome = "loops"]
      ELSE IF r.ist = "eof" THEN [r EXCEPT !.outcome = "bad"]
      ELSE [r EXCEPT !.pos = k]

(* findTag: it gives up at the end of the file only, a stream that fails   *)
(* without being there keeps it in its loop for good.                      *)
FindTag(r, kind, name) ==
  LET k == FirstBehind(r.pos, kind, name)
  IN  IF r.ist = "fail" THEN [r EXCEPT !.outcome = "loops"]
      ELSE IF r.ist = "eof" \/ k = 0 THEN [r EXCEPT !.ist = "eof", !.outcome = "bad"]
      ELSE [r EXCEPT !.pos = k]

(* The && of the reader's conditions. *)
Then(r, Step(_)) == Through(r, LAMBDA s : IF s.outcome = "ok" THEN Step(s) ELSE s)

(* A value of nothing: an empty string, a number that reads as 0. *)
Nothing(type) == [type |-> type, size |-> 0, id |-> 0]

Encode(r, v) == [r EXCEPT !.got = Append(@, v)]

IsEmptyText(v) == v.type = "NUL" \/ (v.type \in {"str", "mbs"} /\ v.size = 0)

(* What the text of v is to a reader of this type: >> takes a number or a  *)
(* Boolean, get() whatever characters there are.                           *)
Extracts(v, type) ==
  \/ type \in {"str", "mbs"} /\ ~IsEmptyText(v)
  \/ type = "bln" /\ v.type = "bln"
  \/ type \in Numbers /\ v.type \in Numbers /\ (v.type \in {"flt", "dbl"} => v.size > 0)

(* encFieldVal: the text at pos becomes a value of the type the reader     *)
(* wants.  There is none of type NUL, and a buffer only if there is a      *)
(* divider between two bytes.  Of any other type a value is encoded in any *)
(* case: if the text does not give it, or the stream has failed or ended,  *)
(* it is a value of nothing, and the stream is left failed.                *)
EncFieldVal(r, type) ==
  LET ends == r.pos >= Len(text)
      v == text[r.pos + 1][2]
      isBuf == r.ist = "good" /\ ~ends /\ v.type = "buf" /\ v.size > 1
      bad == [r EXCEPT !.outcome = "bad"]
      past == [r EXCEPT !.pos = @ + 1]
  IN  CASE type = "NUL" -> bad
        [] type = "buf" -> IF isBuf THEN Encode(past, v) ELSE bad
        [] OTHER ->
             IF r.ist = "fail" THEN Encode(r, Nothing(type))
             ELSE IF ends THEN [Encode(r, Nothing(type)) EXCEPT !.ist = "eof"]
             ELSE IF Extracts(v, type) THEN Encode(past, [v EXCEPT !.type = type])
             ELSE [Encode(past, Nothing(type)) EXCEPT !.ist = "fail"]

(* onParseFieldValue of the XML traits: the element, its type, its value.  *)
ParseXml(r, f, n) ==
  LET name == FieldName(f, n, r.flags)
  IN  Then(FindTag(r, "leaf", name),
           LAMBDA s : EncFieldVal(s, text[s.pos][3]))

(* findFieldVal: the "meta-" pair with the type, then the pair itself, up  *)
(* to the quote its value begins with.                                     *)
FindFieldVal(r, f, n) ==
  LET name == FieldName(f, n, r.flags)
      Meta(s) == [s EXCEPT !.curValType = text[s.pos][3],
                           !.outcome = IF text[s.pos][3] = "NUL" THEN "bad" ELSE "ok"]
      Key(s) == FindTag(s, "key", name)
      Quote(s) == FindTag(s, "val", AnyName)
      Before(s) == [s EXCEPT !.pos = @ - 1]
  IN  Then(Then(Then(Then(FindTag(r, "meta", name),
                          Meta), Key), Quote), Before)

(* Mutant: the comma behind the last value is not skipped. *)
NextElement_Repeats(r) ==
  LET k == FirstBehind(r.pos - 1, "val", AnyName)
  IN  IF r.ist = "fail" THEN r
      ELSE IF r.ist = "eof" \/ k = 0 THEN [r EXCEPT !.ist = "eof", !.outcome = "bad"]
      ELSE [r EXCEPT !.pos = k - 1]

(* The next element of an array: two calls of ignore(), which do nothing   *)
(* to a failed stream and only report the end of the file.                 *)
NextElement(r) ==
  LET k == FirstBehind(r.pos, "val", AnyName)
  IN  IF r.ist = "fail" THEN r
      ELSE IF r.ist = "eof" \/ k = 0 THEN [r EXCEPT !.ist = "eof", !.outcome = "bad"]
      ELSE [r EXCEPT !.pos = k - 1]

(* onParseFieldValue of the JSON traits. *)
ParseJson(r, f, n) ==
  Then(IF n = 1 \/ "num" \in r.flags THEN FindFieldVal(r, f, n) ELSE NextElement(r),
       LAMBDA s : EncFieldVal(s, s.curValType))

ParseItem(r, f, n) ==
  Then(r, LAMBDA s : IF format = "xml" THEN ParseXml(s, f, n) ELSE ParseJson(s, f, n))

(* onParseHead: the flags of a text without any are none. *)
OFlagsAt == FirstBehind(0, IF format = "xml" THEN "head" ELSE "oflags", AnyName)

ParseHead(r) ==
  LET at == OFlagsAt
  IN  IF r.pos >= 0 THEN r
      ELSE IF at \in 1..2
      THEN [r EXCEPT !.pos = at, !.flags = GetOFlags(text[at][2])]
      ELSE [r EXCEPT !.pos = IF text = <<>> THEN 0 ELSE 1]

(* The parse of the message read, with as many calls as that of the        *)
(* message written.                                                        *)
ReadText ==
  /\ pc = "flushed" \/ (pc = "idle" /\ ~good)
  /\ due' = AllCalls
  /\ pc' = "reading"
  /\ UNCHANGED <<env, writer, reader>>

AfterReading ==
  LET call == Head(due)
      r == [pos |-> pos, ist |-> ist, flags |-> parsedFlags, curValType |-> curValType,
            got |-> got, outcome |-> IF ist = "good" THEN "ok" ELSE "bad"]
  IN  FoldLeft(LAMBDA s, n : ParseItem(s, call.field, n), Then(r, ParseHead),
               [n \in DOMAIN call.vals |-> n])

(* Callback of the reader: head once, then every item of a leaf.           *)
ReadField ==
  /\ pc = "reading"
  /\ due # <<>>
  /\ \E done \in {AfterReading} :
       /\ pos' = done.pos
       /\ ist' = done.ist
       /\ parsedFlags' = done.flags
       /\ curValType' = done.curValType
       /\ got' = done.got
       /\ pc' = CASE done.outcome = "ok" -> "reading"
                  [] done.outcome = "bad" -> "refused"
                  [] done.outcome = "loops" -> "loops"
  /\ due' = Tail(due)
  /\ UNCHANGED <<env, writer>>

ReadEnd ==
  /\ pc = "reading"
  /\ due = <<>>
  /\ pc' = "read"
  /\ UNCHANGED <<env, writer, reader, due>>

TextInit ==
  /\ format \in {"xml", "json"}
  /\ oflags \in OFlagSets
  /\ written = <<>>
  /\ due = <<>>
  /\ text = <<>>
  /\ good = TRUE
  /\ headOutputed = FALSE
  /\ openItems = <<>>
  /\ fieldSep = <<>>
  /\ pos = -1
  /\ ist = "good"
  /\ parsedFlags = {}
  /\ curValType = "NUL"
  /\ got = <<>>
  /\ pc = "idle"

WriteStep == WriteField \/ WriteRefused \/ WriteEnds
ReadStep == ReadField \/ ReadEnd

TextNext ==
  \/ \E m \in Messages : WriteMessage(m)
  \/ WriteStep
  \/ Flush
  \/ ReadText
  \/ ReadStep

(* ParseField goes on from one callback to the next until it ends.         *)
TextSpec == TextInit /\ [][TextNext]_textVars /\ WF_textVars(WriteStep) /\ WF_textVars(ReadStep)
=============================================================================

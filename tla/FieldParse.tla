----------------------------- MODULE FieldParse -----------------------------
(***************************************************************************)
(* field_des.h/.cpp: combined_field_des::ParseField, the engine of the     *)
(* library.  It walks the descriptor tree in pre-order (TreeWalk) and      *)
(* turns every onTraversal into a field_info for the client's callback.    *)
(*                                                                         *)
(* A field_des and the tree node bound to it are one thing here.  What a   *)
(* descriptor computes from the buffer is abstracted to what decides the   *)
(* control flow: FieldCount() depends on the repetition of the parent that *)
(* is being parsed (through the field it depends on), FieldSize() on the   *)
(* bits at the offset (their parity).                                      *)
(*                                                                         *)
(* mData, the client part of a stack item, is kept beside the walk's own   *)
(* stack: data runs parallel to stack, dataTop belongs to top.             *)
(***************************************************************************)
EXTENDS TreeWalk, FiniteSets, SequencesExt

CONSTANTS
  SubFields,     (* the descriptor tree: the sub-nodes of every field      *)
  Parser,        (* the combined field ParseField is called on             *)
  Dependency,    (* field_des_dependency: <<dependent, depending>> pairs   *)
  Contents,      (* buffers: [field -> [parent's repetition -> count]]     *)
  Size,          (* FieldSize: [field -> [parity of the offset -> bits]]   *)
  Answers,       (* what the client's Callback may do                      *)
  OffsetModulus  (* mParseOffset counts modulo this, 2^32 in the code      *)

(* A buffer tells the counts of a field for every repetition of its parent *)
(* that it tells of; offsets wrap at a power of two.                       *)
ASSUME ParseAssumption ==
  /\ FixedN = 0
  /\ SubFields \in [Node -> Seq(Node)]
  /\ Parser \in Node /\ SubFields[Parser] # <<>>
  /\ Dependency \subseteq Node \X Node
  /\ Size \in [Node -> [0..1 -> Nat]]
  /\ Answers \subseteq {"zero", "positive", "negative", "throw"}
  /\ OffsetModulus \in Nat \ {0} /\ OffsetModulus % 2 = 0

ASSUME ContentsAssumption ==
  /\ Contents # {}
  /\ \A c \in Contents :
       /\ DOMAIN c = Node
       /\ \A f \in Node : c[f] \in Seq(Nat)
       /\ c[Parser] # <<>>
       /\ \A f \in Node : \A k \in DOMAIN SubFields[f], r \in DOMAIN c[f] :
            c[f][r] <= Len(c[SubFields[f][k]])

VARIABLES
  dataTop,      (* stackTop.mData: mFieldNumber and mMaxFieldNum           *)
  data,         (* the mData of the suspended items                        *)
  parseOffset,  (* mParseOffset                                            *)
  backtrace,    (* mBacktraceBuf, the newest in front                      *)
  pool,         (* the length of gBacktraceItemPool                        *)
  content,      (* the buffer under the parser                             *)
  emitted       (* history: the Callback calls of this parse               *)

parseOnly == <<dataTop, data, parseOffset, backtrace, pool, content, emitted>>
parseVars == <<vars, parseOnly>>

NewData == [number |-> 0, max |-> 0]

ParseInit ==
  /\ alive = Node
  /\ sub = SubFields
  /\ root = Nil
  /\ stack = <<>>
  /\ top = Item(Nil, 0)
  /\ i = 0
  /\ order = 0
  /\ purpose = "each"
  /\ pc = "idle"
  /\ visited = <<>>
  /\ ignored = {}
  /\ stale = 0
  /\ dataTop = NewData
  /\ data = <<>>
  /\ parseOffset = 0
  /\ backtrace = <<>>
  /\ pool = 0
  /\ content = CHOOSE c \in Contents : TRUE
  /\ emitted = <<>>

-----------------------------------------------------------------------------
(***************************************************************************)
(* field_info_generator.                                                   *)
(***************************************************************************)
IsCombined(f) == SubFields[f] # <<>>
IsLeaf(f) == ~IsCombined(f)

Repetition == IF data = <<>> THEN 1 ELSE data[Len(data)].number + 1
FieldCount(f) == content[f][Repetition]
FieldSize(f, offset) == Size[f][offset % 2]

(* FindWithB: what f depends on;  FindWithA: whether anything depends on f *)
DependentsOf(f) == {d \in Node : <<d, f>> \in Dependency}
IsDependent(f) == \E g \in Node : <<f, g>> \in Dependency

(* findDepFieldInfo: the first, newest, backtrace item of d. *)
Traced(d) == \E k \in DOMAIN backtrace : backtrace[k].field = d
Newest(d) == backtrace[CHOOSE k \in DOMAIN backtrace :
                         /\ backtrace[k].field = d
                         /\ \A j \in 1..(k - 1) : backtrace[j].field # d]

(* getDepFieldInfo throws "bad dependent field_des!" *)
BadDependent(f) == \E d \in DependentsOf(f) : ~Traced(d)

(* The field is there: its number does not exceed its count.               *)
Present(f) == dataTop.number + 1 <= FieldCount(f)

(* Mutant: every item is as long as the first. *)
ItemOffset_SameSize(f, offset, count) ==
  [k \in 1..(count + 1) |-> (offset + (k - 1) * FieldSize(f, offset)) % OffsetModulus]

(* Where the items of one Callback call begin: the first at offset, every  *)
(* next one behind its predecessor.                                        *)
ItemOffset(f, offset, count) ==
  LET at[k \in 1..(count + 1)] ==
        IF k = 1 THEN offset
        ELSE (at[k - 1] + FieldSize(f, at[k - 1])) % OffsetModulus
  IN  at

Items(f) == IF IsLeaf(f) THEN FieldCount(f) ELSE 1

(* CreateFieldInfo: the field_info_ctx of the (first) item. *)
FieldInfo(f) ==
  [field |-> f, number |-> dataTop.number + 1, max |-> FieldCount(f),
   offset |-> parseOffset, size |-> FieldSize(f, parseOffset)]

IsValid(info) == info.size # 0

(* Mutant: the newest item goes to the back. *)
PushBacktraceItem_Back(info) ==
  IF IsValid(info)
  THEN /\ backtrace' = Append(backtrace, info)
       /\ pool' = IF pool > 0 THEN pool - 1 ELSE pool
  ELSE UNCHANGED <<backtrace, pool>>

(* The pool of spare list items is all that Reset() and PushBacktraceItem  *)
(* share with the other parsers; a spare one is overwritten when reused.   *)
PushBacktraceItem(info) ==
  IF IsValid(info)
  THEN /\ backtrace' = <<info>> \o backtrace
       /\ pool' = IF pool > 0 THEN pool - 1 ELSE pool
  ELSE UNCHANGED <<backtrace, pool>>

Reset ==
  /\ pool' = pool + Len(backtrace)
  /\ backtrace' = <<>>

-----------------------------------------------------------------------------
(***************************************************************************)
(* invokeCallback, the onTraversal of this walk: r is what it returns.     *)
(***************************************************************************)
Emit(f) ==
  emitted' = Append(emitted, [info |-> FieldInfo(f), items |-> Items(f),
                              deps |-> [d \in DependentsOf(f) |-> Newest(d)]])

(* CreateFieldInfo returns null: the walk is told 1, the parse goes on.    *)
Absent(f, r) ==
  /\ r = "positive"
  /\ ~Present(f)
  /\ UNCHANGED <<parseOffset, backtrace, pool, emitted>>

(* The Callback accepts the field: it can serve as a dependency from now   *)
(* on, and the parse moves behind it if it is a leaf.                      *)
Accept(f, r) ==
  /\ r \in Answers \cap {"zero", "positive"}
  /\ Present(f)
  /\ Emit(f)
  /\ IF IsDependent(f)
     THEN PushBacktraceItem(FieldInfo(f))
     ELSE UNCHANGED <<backtrace, pool>>
  /\ parseOffset' = IF IsLeaf(f)
                    THEN ItemOffset(f, parseOffset, Items(f))[Items(f) + 1]
                    ELSE parseOffset

(* The Callback breaks the parse off: ForEach returns, then Reset().       *)
Break(f, r) ==
  /\ r \in Answers \cap {"negative"}
  /\ Present(f)
  /\ Emit(f)
  /\ Reset
  /\ UNCHANGED parseOffset

(* The Callback throws: nothing after it in ParseField runs.               *)
CallbackThrows(f, r) ==
  /\ r \in Answers \cap {"throw"}
  /\ Present(f)
  /\ Emit(f)
  /\ UNCHANGED <<parseOffset, backtrace, pool>>

(* getDepFieldInfo throws "bad dependent field_des!". *)
DependentMissing(f, r) ==
  /\ r = "throw"
  /\ BadDependent(f)
  /\ UNCHANGED <<parseOffset, backtrace, pool, emitted>>

InvokeCallback(f, r) ==
  \/ /\ ~BadDependent(f)
     /\ \/ Absent(f, r)
        \/ Accept(f, r)
        \/ Break(f, r)
        \/ CallbackThrows(f, r)
  \/ DependentMissing(f, r)

(* Mutant: the count of the field is forgotten. *)
Counted_Never(f) == dataTop

(* What invokeCallback leaves in io_stackTop->mData. *)
Counted(f) == IF Present(f) THEN [dataTop EXCEPT !.max = FieldCount(f)] ELSE dataTop

(* afterPopStack: a combined field whose last sub-field is done counts one *)
(* more repetition, and starts over while there are more to come.          *)
RepetitionDone == Last(stack).next = SubNodeCount(Last(stack).node)

(* Mutant: the last repetition is missed. *)
Again_OnceLess ==
  /\ stack # <<>>
  /\ RepetitionDone
  /\ Last(data).number + 2 < Last(data).max

(* afterPopStack asks for the first sub-field again. *)
Again ==
  /\ stack # <<>>
  /\ RepetitionDone
  /\ Last(data).number + 1 < Last(data).max

(* Mutant: mData stays on the stack. *)
PopData_Keeps ==
  /\ data' = data
  /\ dataTop' = IF RepetitionDone
                THEN [Last(data) EXCEPT !.number = @ + 1]
                ELSE Last(data)

(* The mData of the parent comes back, counted on behind a repetition.     *)
PopData ==
  /\ data' = Front(data)
  /\ dataTop' = IF RepetitionDone
                THEN [Last(data) EXCEPT !.number = @ + 1]
                ELSE Last(data)

DropData == data' = <<>> /\ dataTop' = NewData

-----------------------------------------------------------------------------
(***************************************************************************)
(* The steps of ParseField.                                                *)
(***************************************************************************)
(* A local tree object is given the parser's node.  The client starts at   *)
(* offset 0 and gives a callback, a dependency table and a buffer; any     *)
(* other start only shifts the offsets, and without one of the three       *)
(* ParseField throws before it does anything.                              *)
ParseField(c) ==
  /\ pc = "idle"
  /\ root = Nil
  /\ alive = Node
  /\ content' = c
  /\ parseOffset' = 0
  /\ emitted' = <<>>
  /\ DropData
  /\ root' = Parser
  /\ stack' = <<>>
  /\ top' = Item(Parser, 0)
  /\ purpose' = "lend"
  /\ pc' = "at"
  /\ visited' = <<>>
  /\ ignored' = {}
  /\ UNCHANGED <<alive, sub, i, order, stale, backtrace, pool>>

(* A combined field is reached, or reached again for its next repetition.  *)
ParseCombined(r) ==
  /\ VisitAt(r)
  /\ InvokeCallback(top.node, r)
  /\ IF r \in {"zero", "positive"}
     THEN dataTop' = Counted(top.node) /\ UNCHANGED data
     ELSE DropData
  /\ UNCHANGED content

(* A leaf field is reached. *)
ParseLeaf(r) ==
  /\ VisitAndLeave(r, Again)
  /\ InvokeCallback(top.node, r)
  /\ IF r \in {"zero", "positive"} THEN PopData ELSE DropData
  /\ UNCHANGED content

NextSubField ==
  /\ PassOrder
  /\ UNCHANGED parseOnly

EnterSubField ==
  /\ PushStack
  /\ data' = Append(data, dataTop)
  /\ dataTop' = NewData
  /\ UNCHANGED <<parseOffset, backtrace, pool, content, emitted>>

LeaveCombined ==
  /\ Leave(Again)
  /\ IF stack = <<>> THEN DropData /\ Reset
     ELSE PopData /\ UNCHANGED <<backtrace, pool>>
  /\ UNCHANGED <<parseOffset, content, emitted>>

Parse ==
  /\ pc # "idle"
  /\ purpose = "lend"
  /\ \/ \E r \in {"zero", "positive", "negative", "throw"} : ParseCombined(r)
     \/ \E r \in {"zero", "positive", "negative", "throw"} : ParseLeaf(r)
     \/ NextSubField
     \/ EnterSubField
     \/ LeaveCombined

(* An exception on its way out of ParseField destroys the local tree,      *)
(* whose mRootNode is still the parser's node: ~tree() calls Clear().      *)
Destruct ==
  /\ root # Nil
  /\ Clear
  /\ UNCHANGED parseOnly

DestructStep ==
  /\ purpose = "clear"
  /\ Walk
  /\ UNCHANGED parseOnly

ParseNext ==
  \/ \E c \in Contents : ParseField(c)
  \/ Parse
  \/ Destruct
  \/ DestructStep

ParseSpec == ParseInit /\ [][ParseNext]_parseVars
FairParseSpec == ParseSpec /\ WF_parseVars(Parse \/ Destruct \/ DestructStep)

-----------------------------------------------------------------------------
(* Parsing type correctness. *)
ParseTypeOK ==
  /\ TypeOK
  /\ dataTop \in [number : Nat, max : Nat]
  /\ data \in Seq([number : Nat, max : Nat])
  /\ purpose = "lend" => Len(data) = Len(stack)
  /\ parseOffset \in 0..(OffsetModulus - 1)
  /\ \A k \in DOMAIN backtrace : IsDependent(backtrace[k].field) /\ IsValid(backtrace[k])
  /\ pool \in Nat
  /\ content \in Contents

(* The information handed to FieldCount() and FieldSize() about a field    *)
(* this one depends on is that of its latest occurrence in this parse, so  *)
(* inside a repeated field that of the current repetition; an occurrence   *)
(* of no size does not count, not even as a reason to refuse the one       *)
(* before (field_des.cpp, findDepFieldInfo and PushBacktraceItem).         *)
DependsOnLatest ==
  \A k \in DOMAIN emitted : \A d \in DOMAIN emitted[k].deps :
     \E j \in 1..(k - 1) :
        /\ emitted[j].info = emitted[k].deps[d]
        /\ emitted[j].info.field = d
        /\ emitted[j].info.size # 0
        /\ \A l \in (j + 1)..(k - 1) :
             emitted[l].info.field = d => emitted[l].info.size = 0

(* The bits of the leaves tile the buffer: every Callback gets the offset  *)
(* right behind the last bit of the leaves delivered before it, whatever   *)
(* the item sizes were (field_des.cpp, invokeCallback).                    *)
LeafEnd(e) ==
  LET at[k \in 1..(e.items + 1)] ==
        IF k = 1 THEN e.info.offset
        ELSE at[k - 1] + FieldSize(e.info.field, at[k - 1])
  IN  at[e.items + 1]

OffsetsTile ==
  \A k \in DOMAIN emitted :
     LET before == {j \in 1..(k - 1) : IsLeaf(emitted[j].info.field)}
     IN  emitted[k].info.offset =
           IF before = {} THEN 0 ELSE LeafEnd(emitted[Max(before)]) % OffsetModulus
=============================================================================

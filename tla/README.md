# A TLA+ model of pdl

pdl is a C++ library that takes a description of a binary protocol - a tree of
field descriptors and a table of dependencies between them - and turns a bit
stream into a sequence of callbacks, one per field. It is header templates and
a few .cpp files, and it runs in the thread that calls it. Nothing interleaves
but the library and the callbacks it makes into the client, and nothing is
persisted. What is hard about it is elsewhere: a hand-made, non-recursive tree
walk that is steered by what callbacks answer, repetition and optional fields
built on top of that steering, dependencies that must come from the right
repetition, an ad-hoc numbering of pairs that must never collide, and
exceptions that pass the lines which put things back in order.

## Inventory

| part | source | state | operations | modelled |
|---|---|---|---|---|
| `tree<T>` | tree.h | nodes with sub-node buffers, `mRootNode`, `mStackBuf`, the locals of `ForEach` | `CreateNode`, `SetSubNode`, `GetRootNodeAddr`, `ForEach`, `Clear`, `~tree`; `Separate`, `Rotate` | yes |
| field parser | field_des.h/.cpp | `mParseOffset`, the backtrace, the pool of backtrace items, `mData` on the walk's stack | `ParseField` and what it calls | yes |
| `index_map` | table.h | `mValBuf`, `mIdxBuf` | `operator[]`, `Existed`, `Clear` | yes |
| `table` | table.h | two index_maps, `mTableBuf` | `Insert`, `Remove`, `Clear`, `FindWithA`, `FindWithB` | yes |
| `bit_ref`, leaf codecs | field_des.h/.cpp | a position in a `buf_val` | bit copies, moves, `DecodeField`, `EncodeField`, `FieldCount` | yes |
| `property_map` | property_map.h | a trie whose levels are binary trees that rotate, `mKeyBuf`, `mValCount` | `GetValue`, `Remove`, `operator[]`, `ForEach`, `Clear` | yes, but for calls from its callbacks |
| `obj_ptr`, `obj_base` | obj_base.h/.cpp | reference count, object count | construct, copy, assign, destroy | yes |
| allocators | obj_base, value_obj, field_des | overlaid globals | `Overlay`, `OverlayAllocator`, `Allocate`, `Recycle` | yes |
| `value_obj`, `buf_val` | value_obj.h/.cpp | a tag and a value, a growing buffer | `GetInterface`, `Reset`, `Resize` | yes |
| `field_info_conv` | field_info_conv.h/.cpp | the stack of open parents, separators, stream state | `Callback` and `Flush` of the writer, `Callback` of the reader | yes, over tokens |
| `opt_loader` | opt_loader.h/.cpp | the registered options | `regMetaOpt`, `load`, `save` | yes |

How they interact: `combined_field_des::ParseField` puts its descriptor node
into a local `field_des_tree` and calls `ForEach` on it. Every `onTraversal`
of the walk becomes a `field_info` made by `field_info_generator`, which asks
a `table` (`field_des_dependency`) which fields the current one depends on and
looks their latest occurrence up in its backtrace; the client's `Callback`
gets the `field_info` through an `obj_ptr`. `field_info_conv` is such a
callback and writes text, its counterpart reads such text and encodes the
values into a message through `bit_ref`. A `value_obj` may hold an `obj_ptr`
again, so objects form chains. The `table` numbers its values with two
`index_map`s. `property_map` is a client of `tree`, and `opt_loader` stands
alone.

What makes each part correct:

- **tree**: a traversal visits exactly what its `order` promises, in that order,
  skips exactly what the callback asked to skip, and ends; `Clear` destroys
  every node once and touches none after it.
- **field parser**: the callbacks are the expansion of the protocol
  description - every field `count` times, every repetition with its
  sub-fields, in order; the bits of the leaves tile the buffer; a dependency
  is that of the current repetition; the descriptors survive the parse.
- **index_map**: a value gets one number, keeps it, and is found by the search.
- **table**: the bits are the set of inserted pairs; retrieval from either side
  agrees with it.
- **property_map**: a lookup never changes what the map holds; `ValCount` is
  the number of values; `ForEach` gives every key its own name.
- **obj_ptr**: an object lives exactly as long as a handle refers to it, also
  while the end of one object ends others; an assignment takes over what the
  source pointed to.
- **value_obj**, **allocators**: memory goes back where it came from.
- **bit_ref**, **leaf codecs**: a field decodes to what was encoded until somebody
  writes over it; a copy changes its target only.
- **field_info_conv**: begins and ends of combined fields nest as the fields
  do; what was written can be read; reading ends.
- **opt_loader**: an option gets the word behind its key or its default; what
  is saved loads to the same value.

The hazards list in PROJECT.json names the line where each of these can go
wrong.

## Modules

| module | models | extends / uses |
|---|---|---|
| `TreeWalk` | tree.h, the walk step by step | |
| `TreeOrder` | recursive definition of the promised traversal, properties | `TreeWalk` |
| `FieldParse` | field_des.h/.cpp, `ParseField` as actions that conjoin those of the walk; properties without the expansion | `TreeWalk` |
| `FieldExpand` | recursive expansion of a protocol description, properties | `FieldParse` |
| `Registry` | abstract: a numbering of values | |
| `IndexMap` | table.h, `index_map`, one loop turn per step | refines `Registry` |
| `MultiMap` | abstract: a relation that is changed and queried | |
| `Table` | table.h, `table` | refines `MultiMap` |
| `PropertyStore` | abstract: values by key, with a reference to one of them | |
| `PropertyMap` | property_map.h, and `Rotate` of tree.h | `TreeWalk`, refines `PropertyStore` |
| `ObjPtr` | obj_base.h, handles, contexts and the recursion of destructors | |
| `ValueObj` | value_obj.h/.cpp, the allocators | `ObjPtr`, implements its specification |
| `FieldBits` | field_des.h/.cpp, bits, `int_field`, `bm_bits_field`; `buf_val` | |
| `FieldText` | field_info_conv.h/.cpp, writers and readers of both formats | |
| `TextTree` | the text and the values a message tree should give, properties | `FieldText` |
| `OptLoader` | opt_loader.h/.cpp | |
| `MC*` | the instances TLC checks | |
| `TreeWalk_proofs`, `Table_proofs`, `IndexMap_proofs`, `FieldParse_proofs`, `PropertyMap_proofs`, `ObjPtr_proofs`, `ValueObj_proofs`, `OptLoader_proofs` | the theorems | |

Definitions named `X_Something` with a comment that starts with "Mutant" are
faulty variants of `X`. Nothing uses them; each was put in the place of `X` to
see that a property notices the fault.

### TreeWalk

A node is a model value and `sub[n]` its sub-node buffer. `FixedN = 0` is
`tree_node<VT,0>` (a vector that grows up to the reserved capacity),
`FixedN = N` is `tree_node<VT,N>` (an array of nullable slots).
`top`, `i`, `order` are the locals of `ForEach`, `stack` is `mStackBuf`. `pc` tells
where in the inner loop the walk is: `at` slot i before the test of the
order, or `past` it.

| action | code |
|---|---|
| `CreateNode`, `SetSubNode`, `SetRoot` | the client builds a tree (a tree: no node hangs in two slots) |
| `ForEach(o)`, `Clear` | a walk starts; `Clear` is the post-order walk of `node_deleter` |
| `VisitAt(r)` | the callback at slot `order`, with its answer `r` |
| `PassOrder`, `SkipNull`, `PushStack` | the rest of a turn of the inner loop |
| `Leave`, `VisitAndLeave(r)` | the end of a node, with the callback of a post-order visit |

The outcome of a callback is chosen at the moment of the call: `zero`,
`positive`, `negative` or `throw`. An exception leaves `stack` as it is, as the
code does; the history variable `stale` marks the walks that start over such
leftovers. Reading a destroyed node is undefined, so a behaviour ends there
(`Walk` needs `top.node \in alive`); the runs with exceptions therefore do
not check for deadlock. Exceptions occur in `parse` and in
`property_walk`, nodes with fixed slots in `property_walk`, where the walk is
composed with its users.

An answer > 0 means "ignore the sub-nodes" at a visit before the end
(`VisitAt`) and has the walk start over with the sub-nodes of the node it goes
back to when it is given on leaving (`VisitAndLeave`), in post-order, where tree.h:242
says so, and in pre-order at a leaf, where tree.h:241 says something else. Both
are in the model. `Reentered` tells that it happened, and `WalkOrder` and
`WalkComplete` hold a traversal to its order up to then only: behind it the comments
promise nothing for post-order, and for pre-order the code does not keep what they
promise. A client may have the same sub-nodes walked again for ever;
`OneReentry` is the bound on that (`LeaveOutcomes`). The parser's actions conjoin `Leave`
and `VisitAndLeave` with the answer of `invokeCallback` and do not depend on it.

### FieldParse

The walk's actions are reused as they are. Each parse action conjoins one of
them with the change of the parser's state, so the answer of `invokeCallback`
is the very answer that steers the walk. `mData` (repetition number and count)
travels in `dataTop` and `data`, in parallel to `top` and `stack`. A
descriptor's `FieldCount` is a function of the repetition of its parent, its
`FieldSize` a function of the parity of the offset; a field of size 0 leaves no
trace in the backtrace. `InvokeCallback` covers a
missing dependency (an exception), an absent field, an accepted one, a break
and an exception of the client. `Destruct` is what an exception
does on its way out: `~tree` of the local tree, whose root is still the
parser's node. A field of one callback is a record (field, number, count,
offset, size); the items of a repeated leaf are counted and their offsets
computed by `ItemOffset`. The `obj_ptr` the field is passed in is left out, and
the dependency table is an exact relation: that a retrieval may answer too much
(see `Table`) is not carried into the parser.

### IndexMap and Table

`IndexMap` has the loop of `find` as its steps, with the case in which `min` is
not raised and the loop must break, and the linear part of `insert` that moves on from the
place `find` gave up at. `Table` uses the numbering `IndexMap` is shown to
provide - a sequence of values - and computes cells like
`table_buf_idx_calculator`. `width` is the template argument. A cell behind
the end of `mTableBuf` (`Behind`) is read by `Retrieve` without a check, in either
layout: the model answers either way.

`Registry` and `MultiMap` are the promises. `MultiMap` is exact: it says of every
operation whether it fails (only where it comes by a value beyond the width of the
table, whose pairs are refused until Clear) and of every retrieval what it
returns, the related values and they alone. Its one opening is `unread`, a set of
pairs a retrieval may answer either way for. `Table` implements it with
`unread <- Behind`; with `unread <- {}`, the multi-map of the comment at
table.h:221, it would not.

### PropertyMap

A node has three slots: the next character of the key, the smaller and the
greater characters at the same place. A lookup is `Call`, then one `Descend` per
node with another character, then `Found`, which rotates the node to the top
of its place and goes on with the next character or returns; `operator[]` makes
what is missing (`Insert`), the others give up (`Missing`). `call` holds the locals
(`prevMapNode`, `curMapNode`, `rotationIdx`). `operator[]` returns a reference,
kept in `ref`, and `Assign` uses it at any later time until `Clear`. ForEach and Clear are the walk
of `TreeWalk` with the callbacks conjoined that keep `keyBuf`.

`PropertyStore` is the promise: a function from keys to values. `Content` reads
it off the nodes top down, so that rotations must be invisible in it. `tally` is
a history of what the client did with the count; `mValCount` starts with any
value, as no constructor sets it. A client does not call `operator[]` with the
empty key (the code would dereference null), and callbacks do not call the map or change
values. `MaxStaleKey` bounds what exceptions have left in the key buffer when a
ForEach starts.

### ObjPtr and ValueObj

A context (`Ctx`) is the block a handle points to; `alloc`, `size`, `count` are
the blocks in use, their number of objects and `mRefCount`. A handle is one of
the client's (`Outer`) or lies in an object (`Slot`); `ptr` is its `mCtx`, `Null`
or `Gone` when the handle does not exist. `release()` counts down and only for
the last handle calls `freeCtx()`, whose loop of destructors is a frame on
`frames`: dropping one handle may free a chain, one object per step
(`DestroyItem`, `Recycle`). `operator =` reads its source after that cascade
(`Assigned`, `SourceDied`).

| action | code |
|---|---|
| `Construct`, `Create`, `Copy` | the constructors of `obj_ptr`, with `createCtx` |
| `CreateFails` | a constructor throws within `createCtx`: block and count stay behind (`lost`) |
| `Assign`, `Destroy` | begin `operator =` and `~obj_ptr` with `release()` |
| `DestroyItem`, `Recycle` | a turn and the end of `freeCtx()` |
| `Finish` | the rest of the operation |

`fault` is why a behaviour ends: the code touched a handle that is gone, or
`addRef()` threw. The four storage classes of `obj_ptr_base` are one: a context of
no objects stands for an `obj_ptr` into the middle of an array, which frees
nothing.

`ValueObj` makes every object a `value_obj` whose slot exists while its type is
`OBJ_VAL` (`GetInterface`, `ResetObj`, `ResetPlain`, `DestroyValue`). The
allocators are the two global pointers `overlaid.mem` and `overlaid.val`;
`homeCtx` and `homeVal` remember where memory is from. Memory that goes to another
allocator (`strayed`) ends the behaviour. `abrupt` records that the client
overlaid an allocator with memory in use.

### FieldBits

A buffer is the sequence of its bits. New memory holds `Unset` bits, which read
as either value, so a decoder that runs over the end of a buffer returns a set
of values (`Decoded`). `EncodeField` fails only if the field begins behind the
buffer; `told` and `cut` remember what it said it took and what did not fit.
`CopyBits` and `ResizeBuf` grow buffers, `AssignBit` moves a `bit_ref` in
arithmetic modulo 2^32 and writes a bit. `FieldCounts` is `bm_bits_field::FieldCount`,
which takes the value of the field decoded before for one it cannot decode.

### FieldText

The writer and the reader of XML and of JSON, as the callbacks they are; the
calls of a parse are its expansion (`Calls`, what `FieldExpand` shows of the parser).
Text is a sequence of tokens - begin, end, name, type, value, separator - and a
value its type, its size and an identity: what the reader's search for tags and
quotes depends on is kept, the spelling is not. Delimiters within strings are
not escaped by the code and not in the model.

The reader converts a value to the type it goes by, whatever the type it was
written from (`EncFieldVal`): in XML that of the element, in JSON that of the
`meta-` pair, which the items of an array share with the first of them. `Extracts`
says which values have a text another type can be read from; what `>>` or `get`
cannot take becomes a value of nothing and leaves the stream failed. Of
the messages whose items have several types `MixtureAssumption` leaves out those in which
reading one item would end inside another one, or give another number; all
others, a string behind a number or a Boolean, or behind a buffer, are in.

| action | code |
|---|---|
| `WriteMessage`, `WriteField`, `WriteEnds` | `ParseField` with the writer as callback; head, end of a parent, items |
| `WriteRefused` | "bad output-stream!" after the stream failed on the way |
| `Flush` | all open parents and the tail; also the destructor |
| `ReadText`, `ReadField`, `ReadEnd` | a parse with the reader as callback: head, then every item of a leaf |

The reader's `findTag` searches from `pos`; `ist` is the stream's state. The loop of
`findTag` ends at the end of the file only: a failed stream keeps it there
(`pc = "loops"`). An empty string fails the stream, as `istream::get` does, and so does
the text of a fraction without digits ("inf", "nan"), as `>>` does.

### OptLoader

`regMetaOpt`, and `load` and `save` one option per step. A word is classified (a
numeral, a fraction, an address, a word for false, a key, other text), and a loader is
what it makes of each class: `Accepts`, `Loaded`, `Saves`, `Saved`. Integers are cut to
the width of the option and shown with its sign, 64 bits in hexadecimal; `Ipv4`
and `Quad` are the shifts of the address loader. The program changes its struct
between calls. Inputs are words every loader has a defined reading of.

`PDL_THROW` (obj_base.h) is a real `throw` in all modules. A build that defines
it as nothing goes on behind it, with an index of -1 for instance; that is out
of scope.

## Runs

| run | question | states |
|---|---|---|
| `tree_vector` | every order, vector nodes, callbacks that go on, ignore, go back or break off | 1 528 972 |
| `parse` | 54 buffers of a nested protocol, callbacks that go on, break off or throw; offsets that wrap | 47 573 |
| `parse_optional_leaf` | an absent leaf in front of its siblings: violates `ParseExpands` | |
| `parse_exception` | an exception out of a parse: violates `DescriptorsSurvive` | |
| `table` | every sequence of calls, both layouts | 11 058 (symmetric) |
| `index_map` | every sequence of lookups of five ordered values | 39 791 |
| `property_map` | every sequence of lookups, assignments and Clear | 105 006 (symmetric) |
| `property_walk` | ForEach between lookups, any answers and exceptions | 1 345 430 (symmetric) |
| `objects` | every sequence of operations on handles and values, with allocators | 1 296 495 (symmetric) |
| `field_text` | twenty-five messages, two formats, four sets of flags, failing streams, written and read | 125 074 |
| `bits` | fields sharing bytes, encoded, copied over and grown in any order | 57 917 |
| `opts` | any two of nine options, loaded, changed and saved | 857 847 |

Properties by part:

- tree: `WalkOrder` and `WalkComplete` hold the loop against the recursive
  definition `Below`, at every moment and at the end, until an answer on leaving a
  node sends the walk back. What the parser makes of that answer in pre-order, where
  the comments do not foresee it, is the violation of `parse_optional_leaf`. `NoDangling` and
  `ClearDestroysAll` say that nothing is read after it is destroyed, destroyed
  twice, or leaked. `WalkEnds` is termination.
- parser: `ParseExpands` and `ParseComplete` hold it against `Expand`;
  `DependsOnLatest` (the latest occurrence that has a size, in whichever repetition), `OffsetsTile`
  (modulo 2^32) and `ParseEnds` are as listed above;
  `ParseTypeOK` also says that `mData` and the walk's stack stay in step.
- table: `BitsOwned` (no orphan bits) and `Refines` (an exact multi-map, failures
  included, but for cells behind the buffer); index_map: `SearchOrdered`
  (the interval of the search never loses the value), `Refines`, `SearchEnds`.
- property_map: `Implements` and `Findable` say that rotations lose and rename
  nothing; `LookupDescends` is termination of lookups as an action property:
  the nodes still ahead get fewer with every step. `CountHonest` says when
  `ValCount` is right. `KeyNamed` and `TellsAll` are about ForEach: the right
  name, each value once. `KeyNamed` excepts walks after an exception until
  some callback breaks off: the buffer then has a prefix nobody takes back.
- obj_ptr: `NoDangling` and `CountExact` hold in the middle of every cascade;
  `KeptExactly` says between operations that the contexts in use are those the
  client can reach, but for the ones a constructor's exception lost and for
  circles. `AssignFaithful` and `DeadOnlyIfDoomed` say where assignment goes
  wrong: to itself, and from or to an object only its target keeps.
- allocators: `HomeIfSettled`: memory strays only if an allocator was overlaid
  with its memory in use.
- field_info_conv: `TextFaithful` compares the text with the tree of `TextTree` at
  every moment; it excepts messages in which two levels of combined fields
  end together, where the code nests wrongly. `ReadsBack` compares the
  values read with those written, up to one that fails the stream and but for array items
  read as another type than their own. `RefusedForCause` says which texts are refused: those
  cut off, or with a value that cannot be read as the type it is read as. `ReadEnds` says that
  reading ends if no value fails the stream.
- bits: `DecodesBack`, `CountTrue`, `CopyExact`, over sequences of operations.
- opt_loader: `LoadsPrefix` says what a load has written, whether it failed or
  not; `SavesBack` that the loader of an option reads its saved text back, and the
  exceptions: digits a stream does not show, and every number of 64 bits but 0.

### Bounds

- Trees: four nodes with two slots. That is every shape with depth up to four,
  a node with two sub-trees, nulls before and after a sub-tree, and a re-entry at two levels.
  The orders -1, 0, 1 are post-order by sign, pre-order (post-order for a leaf), and a
  value that is in-order for a node with two slots and post-order for one
  with fewer. `OneReentry`: one answer per traversal sends it back. The place it is sent to
  is one the walk has been in, so a second answer shows nothing new. `MaxStale` bounds the leftovers a client starts a walk over.
- Parser: a protocol with three levels, a repeated record with a repeated part
  in it, optional fields in last place, four dependencies; counts 0 to 2. Two
  repetitions on two levels are the least that can mix up the levels. Sizes
  one and two, depending on the offset, make every
  wrong offset visible, and one field has size 0 at odd offsets.
  `OffsetModulus` (2^32 in the code) is 8, which the larger buffers pass, within
  repetitions too.
  Parses follow each other, so stale state of one would be seen in the next.
- Table: three values on either side reach the third shell of the growing
  layout and the first value beyond a width of two. Values of one side are
  only compared for equality (the order is IndexMap's affair), so both sets are
  symmetric; no run with symmetry checks liveness.
- IndexMap: five values, in every order, give searches of three turns and
  insertions at every place.
- PropertyMap: for lookups, three characters at the first place and one key of
  two characters; rotations over chains of three, with a sub-tree to carry
  along. For walks, two places with two characters each: siblings on both
  levels, so that levels end together. `CountModulus` (2^32) is three, which wraps.
  `MaxStale = 0`: no walk starts on a left-over stack.
- Objects: two contexts of up to two values and two handles: chains of two,
  circles, an object that holds the target of the assignment, both slots of
  one context. `Limit` = 3 (2^32 - 1) is reached by copies in slots. One overlay per
  allocator tells apart the allocator of now and that of then.
- Text: a tree of four levels with repeated fields on three of them, with rows
  without cells and cells without items; every special value in front of a string,
  in front of a value of its own type, and behind a string. Up to two messages in a text: the second one
  starts with what the first left open.
- Bits: bytes of two bits, three fields that begin within bytes, overlap at one
  bit and reach behind the largest buffer. Copies with shifts both ways, longer
  than their source, over themselves. `Modulus` = 16.
- Options: one of every kind and size class, one with a size its loader
  refuses; a struct that ends before the last options; two registered at a
  time, so one may fail before, after or between good ones, or share its key.

### Fairness

Only weak fairness of the steps inside a call (`Walk`, `Parse` with the
destructor, `Loop`, and `WriteStep` and `ReadStep`: a parse goes on from one callback of
a converter to the next): they are loops of the calling thread. Nothing obliges a
client to make a call, to flush or to read. Callbacks are assumed to return or throw.

### Disagreements with the documentation

Shown by a run:

- README.md:33 of the sources says that a field may be optional; an absent
  leaf in front of a sibling restarts its parent (field_des.cpp:239).
- field_des.cpp:262 takes the descriptor tree back "to avoid delete"; an
  exception does not get there.

Met while modelling, in the model as the code has them:

- tree.h:241-242 promises that an answer > 0 in pre-order mode ignores the
  sub-nodes; from a node without any it restarts the parent (tree.h:394).
- README.md:36 of the sources computes a count from the value of the dependent field;
  where a repetition has none, or one of no size, the code takes that of an earlier
  repetition (field_des.cpp:122, 206).
- table.h:221-222 promises retrieval by key; in either layout the code reads behind
  the end of its buffer (table.h:211).
- field_info_conv.h:131 closes one open parent per callback: where two levels
  end together the rest of the text hangs one level too deep, while README.md:11
  has all fields organized as a tree.
- An empty string leaves the reader's stream failed (field_info_conv.cpp:264):
  the next callback throws; within the same callback an XML item or a numbered
  one hangs in `findTag`, and the items of a JSON array become empty values.
- The items of a JSON array are all decoded as the type of the first
  (field_info_conv.cpp:600): a string behind a number becomes 0 and fails the
  stream, one behind a buffer is refused.
- Fractions that are not finite are written as words, which `>>` does not read
  (field_info_conv.cpp:222). Buffers of no or one byte and values without a type
  are written but refused.
- An object assigned to itself becomes null, and an assignment from an object
  only its target keeps reads freed memory (obj_base.h:488). At the limit of
  the count a copy is null while an assignment has taken the pointer
  (obj_base.h:477). A constructor that throws leaks its context (obj_base.h:272).
- `EncodeField` is content with one bit of the value (field_des.cpp:399),
  `FieldCount` ignores that a field it needs cannot be decoded (field_des.cpp:465),
  and `bit_ref::operator +=` wraps (field_des.h:194).
- `opt_loader::load` ends with 0 at an option behind the struct
  (opt_loader.h:196); a refused word leaves the options before it loaded;
  64-bit numbers are saved in hexadecimal and read back as 0 (opt_loader.cpp:112).

## Proofs

`TreeWalk_proofs` (any set of nodes, either kind of node, any order, under the
assumption `NoThrow` that no callback throws):

- `TreeInvariant`, `TreeTypeCorrect`, `NeverDangling`. Neither `TypeOK` nor
  `NoDangling` is inductive: to know that the next node is alive one must know
  that it hangs below a living one, that no other slot leads to it, and, while
  the tree is being destroyed, that the slots already passed are the only ones
  whose sub-nodes may be gone. `IInv` says that: the suspended nodes and the
  current one form a path from the root whose links are the slots they are
  suspended in (`PathLinked`), alive (`PathAlive`) and without repetition
  (`PathDistinct`); every node hangs in at most one slot and the root in none
  (`OneSlot`, `RootFree`); a destroyed node has no slots (`DeadEmpty`), and the
  sub-nodes of a living one are alive unless the walk has passed their slot
  (`SubNodesAlive`). `DestroyStep` is the heart of it.
- `ClearLosesNothing`: `Pending` is what `Clear` has still to destroy: the path, and what
  hangs below the slots the nodes of the path have yet to come to. Entering a sub-node
  only regroups it (`BeneathRest`); destroying a node takes exactly that node out,
  because nothing but the path leads to a node of the path (`PathApart`), so its slots do not
  matter below the others (`BeneathKept`). `Subtree` is the least set that no slot leads
  out of, which needs no recursion.
- `WalksInOrder`, `WalksCompletely` (any answers, any number of times): the loop of
  `ForEach` against `Below`. `Below` is a recursive function over the tree, so that
  it has a value must be shown before anything can be said of it. `Founded` says that the
  structure has no circle: every set of nodes has one without a slot into the set.
  It is an invariant (`FoundedStep`), because a node is hung in a slot only while it
  has no sub-nodes itself. On such a structure there is exactly one function that
  solves the recursion (`SolvesExists`, `VisitsIs`): solutions on sets that are closed
  under sub-nodes agree, and if such sets left a node out `Founded`
  would name one that can be added.
  `FlattenSeq` is treated the same way along the sequence (`JoinsExists`, `FlattenEmpty`).
  No induction principle is needed, only that a set of numbers has a least element.
- `OrderInvariant` is what makes the two inductive. `WalkOrder` alone says what was visited
  but not how it came about. `WalkSoFar` says: each node suspended on the stack has
  contributed the visits of the slots it has finished, and its own once its order came up (`Done`);
  put together along the path (`Chain`) these are `visited`. With that, `ChainPrefix` gives
  `WalkOrder`: the piece of a node is a prefix of its traversal, and its traversal is the
  next piece of the node above. An answer that marks a node ignored changes `Below` in mid-walk. That this
  does not disturb what was visited is `MarkedLeft` and `AheadUnmarked`: only the node at
  hand can be marked, it is then at its end, and nothing is marked yet in the slots to come, so the
  two traversals agree on all that was done (`IgnoreAlike`). An answer that sends the walk
  back ends what the two claim (`Reentered`), and what `OrderInv` keeps of the walk.
- `NoThrow` is needed: after an exception the leftovers on the stack are not a
  path of the current tree any more.

`Table_proofs` (any sets, any width):

- `PairingInjective`: the two branches of the growing layout number the square
  shells one after the other (`ShellBounds`), so the shell and the place in it
  can be read off the cell.
- `TableInvariant`: `BitsOwned` is inductive as it stands.
- `TableImplementsMultiMap`: with `BitsOwned`, `InsertRelated` and
  `RemoveRelated` show that exactly one pair changes. A value registered by
  `Insert` gets a number nobody had, and by `BitsOwned` its cells are clear. That
  failures are where the multi-map has them needs that a new value takes the next column
  (`ColumnIs`) and that the old ones stay where they are (`NumbersKept`), so that
  exactly the values registered when the columns were taken are refused. The retrievals
  (`FindWithARefines`, `FindWithBRefines`) return the related values and, beside them, only
  what lies behind the buffer.

`FieldParse_proofs` (any protocol description whose parser has sub-fields, any
contents in which a repeated record has as many repetitions as its sub-fields know
of, any answers including exceptions, an even `OffsetModulus`, as 2^32 is):

- `ParseTypeCorrect`. The types alone are not inductive: the count of a field is that of
  the repetition its parent is in, which must exist. `FieldInv` says that every
  suspended node is the parent of the next by the slot it is suspended in
  (`PathOK`), in a repetition the contents tell of, with `mData` in step (`DataOK`), and
  that a parse starts with an empty backtrace (`Cleared`).
- `LatestServes`: `TraceOK` says that the newest item of a descriptor in the backtrace
  is its last call with a size, whatever was put in front since.
- `LeavesTile`: `OffsetOK` says that `mParseOffset` is where the last leaf ended,
  modulo 2^32. The offsets of the items of a repeated leaf whose size depends
  on the parity of the offset are those `ItemOffset` computes (`ItemsEnd`); wrapping
  keeps the parity, which is what the modulus must be even for.
- `DeliversInOrder`, `DeliversAll`: the calls of the callback against `Expand`, under three
  conditions more, all of which hold in run `parse`. `NoCircle`: the descriptors own
  each other, so none is its own ancestor. `NoneIgnored`: an answer > 0 skips the
  sub-fields of a field on purpose, and what is then delivered is not the expansion.
  `OptionalLast`: an absent leaf in front of others starts the repetition over
  without counting it, which is the violation `parse_optional_leaf` shows, so the
  theorems hold of the protocols that avoid it. Breaks and exceptions, repeated
  and empty records, and nested repetitions are all in.
- `Expand` is a recursive function, and like `Below` it must be shown to have a value:
  `ExpandsExists` and `ExpandsUnique` give exactly one solution on a tree without a circle
  (`ExpansionsAre`). `Rounds` is the expansion of the first `n` repetitions of a field
  and `Subs` of the first `k` sub-fields in one of them, so what was told at any moment is
  a piece of both.
- `ExpandInv` is what makes `ParseExpands` inductive. `ToldSoFar` says that each
  suspended field has contributed the repetitions it has finished, its call for the one it is in, and
  the sub-fields it has left in that one (`ParseChain`, `Doing`); the field at hand adds
  `TopTold`. `CountOK` says that a field between its repetitions has not been counted too far and
  is left only when all are there: an off-by-one in the code that starts a field
  over would break it. A return to the parent closes a piece (`PopTold`, `Returns`), a call
  opens one, and every such piece is a prefix of the expansion of the parser.

`PropertyMap_proofs` (any set of keys and values, any number of nodes, any
answers of callbacks, exceptions included; keys are sequences of non-zero numbers):

- `NothingLost`: outside of `Clear` the nodes are a tree (`Tree`): the slots of a node
  lead to nodes of the map or nowhere (`Leads`), no two to the same (`OneParent`), none
  to the root (`RootFree`), and whoever starts at the root comes by all of them (`Rooted`,
  which says so of every set closed under the slots and needs no recursion).
  `FoundTree` is the heart: a rotation hangs the node found above the one it was
  reached by. The loop of `Rotate` that looks for the end of a chain ends, for no chain
  of a tree is a ring (`NoCycle`, `SpineIs`), and every node is still behind the root
  (`RotatedTree`), exactly once.
- `CountIsHonest`: `CountOK` says that `mValCount` is the number of values (modulo
  2^32) plus the one `operator[]` has counted ahead, for a client that keeps to the
  rules. It needs the tree: `Clear` sets the count to 0 and must have reached every value.
  `Left` says of the walk that destroys that all that is alive hangs below its path, and
  `PassedOK` that nothing is alive behind a slot it is through with, so at its end
  nothing is left (`ClearEnds`). A walk may start on what an exception has left on the stack;
  the path then begins above it.
- `MapTypeCorrect`, from the same `MapInv` (`MapInvariant`).
- `EveryKeyFound`: a node has no field for its key, so the invariant has to find it
  one. `KeyInv` says that two marks can be given to every node: the key above it, and
  the characters its place has room for (`Marked`: slot 0 leads to a longer key and any
  character, slots 1 and 2 to the same key and the smaller and greater ones the node's
  own place has room for), so that a lookup stands where the rest of its key belongs
  (`Fits`) and the client's reference is to the node of the key it asked for (`Refers`).
  The marks are quantified, so no recursion is needed. A rotation leaves all keys as
  they are and gives the nodes it moves other room (`MarkedRotated`); an inserted node is
  marked by where the lookup stands (`InsertGrows`). Marks make the keys of two nodes
  differ (`MarksDiffer`), and a search comes by the node of its key (`NodeOfFinds`).
  `Named` and `NodeOf` are recursive functions: that they have a value, and only one, is
  shown with closed sets of nodes (`Behind`) and the finiteness of the map (`NoDescent`).
- `MapIsStore`: `MapSpec => Implements`, the refinement of `PropertyStore`, one lemma per
  action. `ContentRead` turns `Content` into what the marks say; a rotation and an
  insertion change nothing in it, the last step of a lookup is the abstract call, and
  a lookup that ends at an empty slot had no node to find (`NobodyHas`). Assumed of the
  constants: `None` is not a key.
- `LookupsDescend`: what is behind the slot a lookup goes to lies strictly behind the
  node it comes from (`NoWayBack`), and a rotation above that slot moves nothing behind
  it (`TurnsBehind`). As the nodes are finitely many, a lookup makes finitely many steps.
- `KeysAreNamed`: as long as no exception has left characters in it, the key buffer
  holds the mark of the node the walk stands on (`Spelled`), the root's empty one
  between walks. The path of suspended nodes tells which callback comes where
  (`Along`): the buffer grows when slot 0 is entered, and a node resumed behind slot 0
  takes back what it put in, behind the others nothing. Read up to the first zero it is the key
  because no character of a key is zero (`MarksNonZero`, `BufferReads`). Exceptions
  are allowed; a walk broken off by a negative answer clears the buffer again (`BreaksOff`).
- `EveryValueTold`: the nodes are on the path, done or to do (`Coloured`). No slot leads
  from what is done or to do out of it; the slots of the path lead to what is done before
  the one at hand, and to what is to do behind it. Entering a node (`ColourDown`) and
  leaving it (`ColourUp`) keep that for want of a second parent, and visiting a node changes
  nothing in it, so the argument is the same for all orders: only which nodes
  of the path have been visited depends on `order` (`MetSo`). When the root is left the done
  ones are all (`ColourEnd`). Walks that an exception has left something on the stack for
  are excluded by the property itself (`stale = 0`).

`IndexMap_proofs` (any set of numbers as values):

- `SearchStaysOrdered`: `SearchOrdered` is inductive together with where the locals
  are (`LocalsOK`: `min <= max`, `pos <= max`, all three 0 between calls). Giving up
  means that no place is left between what is smaller and what is greater
  (`GivenUp`), and `insert` moves on to the place between them (`PlaceBetween`), so
  the new number keeps the order (`PlaceSorted`) and every number its place
  (`PlaceComplete`).
- `NumbersAsAList`: a found value has the number a list gives it, because no other
  place holds it (`NumberOfPlace`), and a missed one has none (`NoPlaceNoNumber`).

`ObjPtr_proofs` (any sets of contexts and handles, any number of objects per
context, any limit; chains of any length):

- `PtrTypeCorrect`, `NeverDangling`, `CountsExactly`, `AssignsFaithfully`. That a
  count is right is not inductive, because in the middle of a cascade some
  handles are still set whose reference is gone. `IInv` describes the cascade:
  every frame belongs to a context in use whose count is 0, no two to the
  same, and the objects it has passed hold no handle any more (`FramesOK`); the
  handle that started a frame is the target of the operation (`TaskOK`) or lies in
  the object the frame before is just destroying (`CascadeOK`). A handle within an
  object exists only in a context in use (`SlotsOK`), every handle points to one
  (`PointersOK`), and the source of an assignment is what it was unless it lies in
  what is being freed (`SourceOK`). A count that reaches 0 then has no other handle,
  so recycling leaves nobody behind.
- `KeepsExactly`: what the client reaches is the least set that holds what its
  handles point to and is closed under the handles in its members (`ReachLeast`,
  `ReachClosed`: after as many turns as there are contexts nothing new is found). One
  direction is then the counts; for the other, contexts nobody reaches would hang
  below each other in a ring.
- `OnlyDoomedDie`: what is being freed could be reached through the target
  of the operation only, and stays so while the cascade cuts links (`ReachStable`).

`ValueObj_proofs`:

- `ValTypeCorrect`: a value has a handle exactly while its type is `OBJ_VAL`, also in
  the middle of a cascade and after a fault.
- `ValuesUseHandles`: `ValSpec => PtrSpec`. Every step of `ValueObj` is one of `ObjPtr`
  or changes none of its variables, so the theorems above hold for values too.
- `MemoryComesHome`: as long as nothing was overlaid in use, all memory is from the
  allocator that is overlaid now (`HomeInv`).

`OptLoader_proofs` (any options, command lines, changes and sizes; a word is never
the empty tuple, which stands for no word):

- `LoadWritesAFront`: the word behind the first key (`SearchFindsMeant`, from
  `FindIsFirst`: the search stops at the least place) is what the option means.
  `LoadInv` keeps that the options passed so far all fit and are accepted (`Passed`)
  and that every address holds what the last of them stored there, or what it held
  before (`Written`); where the loop ends (`Ended`) makes that the front part of the
  property (`EndedLoads`).

Only model-checked: liveness (`WalkEnds`, `ParseEnds`, `SearchEnds`, `ReadEnds`);
what is stated with a RECURSIVE operator: `TextFaithful`,
`ReadsBack`, `RefusedForCause`; what computes over bits and digits
(`DecodesBack`, `CountTrue`, `CopyExact`, `SavesBack`).

## Not modelled

- Calls of the library from within its own callbacks: a parser called from
  its callback, lookups in a `property_map` during its ForEach. The library
  promises nothing for them, a comment forbids one case.
- Text below tokens: layout, the spelling of numbers, delimiters inside of
  strings (never escaped), name buffers that truncate.
- Sizes in bytes modulo 2^32 (`buf_val::Resize` of nearly 4 GB), the capacity of
  vectors, memory that runs out.
- Builds in which `PDL_THROW` does nothing.
- The unit tests in the .cpp files and the test program, but for the leaf
  descriptors in it, which are in `FieldBits`.
- `field_info`'s allocator, which is `value_obj`'s over again.

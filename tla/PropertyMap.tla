---------------------------- MODULE PropertyMap ----------------------------
(***************************************************************************)
(* property_map.h: values by key, in the nodes of a tree<> (TreeWalk with  *)
(* FixedN = 3).  Sub-node 0 of a node leads to the next character of the   *)
(* key, sub-nodes 1 and 2 to the smaller and greater characters at the     *)
(* same place; a node found below the first one of its place is rotated    *)
(* to the top of it, by every lookup, GetValue() included.                 *)
(*                                                                         *)
(* A lookup is a sequence of steps, one per node compared.  ForEach() is   *)
(* tree<>'s traversal, with a key buffer kept by its callbacks.            *)
(***************************************************************************)
EXTENDS TreeWalk, FiniteSets

CONSTANTS
  Keys,          (* the keys in use: sequences of characters > 0           *)
  Val,           (* the valid values                                       *)
  Empty,         (* val_type(), the one value that is not is_valid()       *)
  None,          (* no call, no key                                        *)
  CountModulus,  (* 2^32 in the code                                       *)
  MaxStaleKey    (* bound: a client starts no ForEach over more characters *)
                 (* left in the key buffer by exceptions                   *)

ASSUME PropertyMapAssumption ==
  /\ FixedN = 3
  /\ \A k \in Keys : k \in Seq(Nat \ {0})
  /\ Empty \notin Val
  /\ None \notin Keys \cup {"get", "remove", "index"}
  /\ CountModulus \in Nat \ {0}
  /\ MaxStaleKey \in Nat

VARIABLES
  item,      (* mKeyItem of every node                                     *)
  val,       (* mVal of every node                                         *)
  valCount,  (* mValCount                                                  *)
  keyBuf,    (* mKeyBuf                                                    *)
  call,      (* the lookup going on, with its locals                       *)
  ref,       (* the node whose mVal the client has a reference to, or Nil  *)
  refKey,    (* history: the key operator[] was called with for it         *)
  reply,     (* what the last GetValue() answered                          *)
  told,      (* history: the callbacks of the last ForEach                 *)
  plain,     (* history: all of them answered 0                            *)
  tainted,   (* history: a callback has thrown, and none broke off since   *)
  tally      (* history: "even" while the client keeps to one assignment   *)
             (* per operator[] of a key without value and one Remove() per *)
             (* value; "owed": it has yet to assign; "lost" otherwise      *)

dataVars == <<item, val, valCount>>
tellVars == <<told, plain, tainted, keyBuf>>
clientVars == <<ref, refKey, reply, tally>>
mapVars == <<vars, dataVars, tellVars, clientVars, call>>

(* A node_ptr *: a slot of a node, or the root pointer of the tree. *)
Slot(n, idx) == [node |-> n, idx |-> idx]
RootSlot == Slot(Nil, 0)
NoSlot == Slot(Nil, 3)
SlotRange == [node : NodeOrNil, idx : 0..3]

At(s) == IF s.node = Nil THEN root ELSE sub[s.node][s.idx + 1]

NoCall == [op |-> None, key |-> <<>>, pos |-> 1, cur |-> NoSlot,
           prev |-> NoSlot, dir |-> 0]

MapTypeOK ==
  /\ TypeOK
  /\ item \in [Node -> Nat]
  /\ val \in [Node -> Val \cup {Empty}]
  /\ valCount \in 0..(CountModulus - 1)
  /\ keyBuf \in Seq(Nat)
  /\ call.key \in Keys \cup {<<>>}
  /\ call.op # None => call.pos \in 1..(Len(call.key) + 1)
  /\ {call.cur, call.prev} \subseteq SlotRange
  /\ ref \in NodeOrNil
  /\ tally \in {"even", "owed", "lost"}

(* mValCount has no initial value: no constructor sets it. *)
MapInit ==
  /\ Init
  /\ item = [n \in Node |-> 0]
  /\ val = [n \in Node |-> Empty]
  /\ valCount \in 0..(CountModulus - 1)
  /\ keyBuf = <<>>
  /\ call = NoCall
  /\ ref = Nil
  /\ refKey = None
  /\ reply = None
  /\ told = <<>>
  /\ plain = TRUE
  /\ tainted = FALSE
  /\ tally = IF valCount = 0 THEN "even" ELSE "lost"

Valid(n) == val[n] # Empty

-----------------------------------------------------------------------------
(***************************************************************************)
(* Lookups: findNodeWithKey and, for every character, findNodeWithKeyItem. *)
(***************************************************************************)
(* What was told of the last ForEach is forgotten. *)
BetweenCalls ==
  /\ BetweenWalks
  /\ told' = <<>>
  /\ plain' = TRUE
  /\ UNCHANGED <<tainted, keyBuf>>

Searching == call.op # None
Wanted == call.key[call.pos]

(* The client calls GetValue(k), Remove(k) or operator[](k).  The empty    *)
(* key finds nothing, so operator[] must not be called with it.            *)
Call(o, k) ==
  /\ ~Searching
  /\ BetweenCalls
  /\ o = "index" => k # <<>>
  /\ call' = [NoCall EXCEPT !.op = o, !.key = k, !.cur = RootSlot]
  /\ valCount' = IF o = "index" THEN (valCount + 1) % CountModulus
                                ELSE valCount
  /\ reply' = None
  /\ UNCHANGED <<nodeVars, item, val, ref, refKey, tally>>

(* The sub-node of n to go on in, for another character. *)
Side(n) == IF Wanted < item[n] THEN 1 ELSE 2

(* Mutant: the search goes on from the top of its place. *)
Descend_Again ==
  /\ Searching
  /\ call.key # <<>>
  /\ At(call.cur) # Nil
  /\ item[At(call.cur)] # Wanted
  /\ LET n == At(call.cur)
     IN  call' = [call EXCEPT !.prev = IF @ = NoSlot THEN call.cur ELSE @,
                              !.cur = IF call.prev = NoSlot THEN Slot(n, Side(n))
                                      ELSE call.prev,
                              !.dir = 3 - Side(n)]
  /\ UNCHANGED <<vars, dataVars, tellVars, clientVars>>

(* The character at hand differs: go on below it.                          *)
Descend ==
  /\ Searching
  /\ call.key # <<>>
  /\ At(call.cur) # Nil
  /\ item[At(call.cur)] # Wanted
  /\ LET n == At(call.cur)
     IN  call' = [call EXCEPT !.prev = call.cur,
                              !.cur = Slot(n, Side(n)),
                              !.dir = 3 - Side(n)]
  /\ UNCHANGED <<vars, dataVars, tellVars, clientVars>>

(* No node has the character: operator[] makes one.                        *)
Insert(n) ==
  /\ Searching
  /\ call.op = "index"
  /\ At(call.cur) = Nil
  /\ n \notin alive
  /\ alive' = alive \cup {n}
  /\ LET s == [sub EXCEPT ![n] = <<Nil, Nil, Nil>>]
     IN  IF call.cur.node = Nil
         THEN root' = n /\ sub' = s
         ELSE root' = root /\ sub' = [s EXCEPT ![call.cur.node][call.cur.idx + 1] = n]
  /\ item' = [item EXCEPT ![n] = Wanted]
  /\ val' = [val EXCEPT ![n] = Empty]
  /\ UNCHANGED <<valCount, walkVars, tellVars, clientVars, call>>

(* Mutant: the target replaces what hangs there. *)
SpineEnd_First(s, n, idx) == n

(* The last node of those linked through slot idx, from n on. *)
SpineEnd(s, n, idx) ==
  LET last[m \in alive] == IF s[m][idx + 1] = Nil THEN m ELSE last[s[m][idx + 1]]
  IN  last[n]

(* Rotate: *target is separated from its sub-node nextIdx, which takes its *)
(* place, and linked at the end of the slots destIdx below that.           *)
Rotate(target, nextIdx, destIdx) ==
  LET t == At(target)
      next == sub[t][nextIdx + 1]
      separated == [sub EXCEPT ![t][nextIdx + 1] = Nil]
      end == SpineEnd(separated, next, destIdx)
      moved == [separated EXCEPT ![end][destIdx + 1] = t]
  IN  IF target.node = Nil
      THEN root' = next /\ sub' = moved
      ELSE root' = root /\ sub' = [moved EXCEPT ![target.node][target.idx + 1] = next]

(* Mutant: the count is signed. *)
Return_Signed(n) ==
  /\ call' = NoCall
  /\ CASE call.op = "get" ->
            /\ reply' = [key |-> call.key, val |-> val[n]]
            /\ UNCHANGED <<val, valCount, ref, refKey, tally>>
       [] call.op = "remove" ->
            /\ val' = [val EXCEPT ![n] = Empty]
            /\ valCount' = valCount - 1
            /\ tally' = IF Valid(n) THEN tally ELSE "lost"
            /\ UNCHANGED <<reply, ref, refKey>>
       [] call.op = "index" ->
            /\ ref' = n
            /\ refKey' = call.key
            /\ tally' = IF tally = "even" /\ ~Valid(n) THEN "owed" ELSE "lost"
            /\ UNCHANGED <<val, valCount, reply>>

(* Mutant: a value removed is still counted. *)
Return_StillCounted(n) ==
  /\ call' = NoCall
  /\ CASE call.op = "get" ->
            /\ reply' = [key |-> call.key, val |-> val[n]]
            /\ UNCHANGED <<val, valCount, ref, refKey, tally>>
       [] call.op = "remove" ->
            /\ val' = [val EXCEPT ![n] = Empty]
            /\ tally' = IF Valid(n) THEN tally ELSE "lost"
            /\ UNCHANGED <<valCount, reply, ref, refKey>>
       [] call.op = "index" ->
            /\ ref' = n
            /\ refKey' = call.key
            /\ tally' = IF tally = "even" /\ ~Valid(n) THEN "owed" ELSE "lost"
            /\ UNCHANGED <<val, valCount, reply>>

(* The node of the whole key is found: the caller of findNode goes on.     *)
Return(n) ==
  /\ call' = NoCall
  /\ CASE call.op = "get" ->
            /\ reply' = [key |-> call.key, val |-> val[n]]
            /\ UNCHANGED <<val, valCount, ref, refKey, tally>>
       [] call.op = "remove" ->
            /\ val' = [val EXCEPT ![n] = Empty]
            /\ valCount' = (valCount + CountModulus - 1) % CountModulus
            /\ tally' = IF Valid(n) THEN tally ELSE "lost"
            /\ UNCHANGED <<reply, ref, refKey>>
       [] call.op = "index" ->
            /\ ref' = n
            /\ refKey' = call.key
            /\ tally' = IF tally = "even" /\ ~Valid(n) THEN "owed" ELSE "lost"
            /\ UNCHANGED <<val, valCount, reply>>

(* Mutant: the caller gets the slot the node was in before the rotation,   *)
(* which is null now.                                                      *)
Found_OldSlot ==
  /\ Searching
  /\ call.key # <<>>
  /\ At(call.cur) # Nil
  /\ item[At(call.cur)] = Wanted
  /\ IF call.prev = NoSlot THEN UNCHANGED <<root, sub>>
     ELSE Rotate(call.prev, 3 - call.dir, call.dir)
  /\ IF call.prev # NoSlot /\ call.op = "get"
     THEN /\ call' = NoCall
          /\ reply' = [key |-> call.key, val |-> Empty]
          /\ UNCHANGED <<val, valCount, ref, refKey, tally>>
     ELSE IF call.pos = Len(call.key) THEN Return(At(call.cur))
     ELSE /\ call' = [call EXCEPT !.pos = @ + 1, !.cur = Slot(At(call.cur), 0),
                                  !.prev = NoSlot]
          /\ UNCHANGED <<val, valCount, clientVars>>
  /\ UNCHANGED <<alive, item, walkVars, tellVars>>

(* The node of the character is found: it is rotated to the top of its     *)
(* place, and the next character looked for below it.                      *)
Found ==
  /\ Searching
  /\ call.key # <<>>
  /\ At(call.cur) # Nil
  /\ item[At(call.cur)] = Wanted
  /\ IF call.prev = NoSlot THEN UNCHANGED <<root, sub>>
     ELSE Rotate(call.prev, 3 - call.dir, call.dir)
  /\ IF call.pos = Len(call.key) THEN Return(At(call.cur))
     ELSE /\ call' = [call EXCEPT !.pos = @ + 1, !.cur = Slot(At(call.cur), 0),
                                  !.prev = NoSlot]
          /\ UNCHANGED <<val, valCount, clientVars>>
  /\ UNCHANGED <<alive, item, walkVars, tellVars>>

(* GetValue() and Remove() find nothing. *)
Missing ==
  /\ Searching
  /\ (call.key = <<>> \/ (call.op # "index" /\ At(call.cur) = Nil))
  /\ call' = NoCall
  /\ reply' = IF call.op = "get" THEN [key |-> call.key, val |-> Empty] ELSE reply
  /\ UNCHANGED <<vars, dataVars, tellVars, ref, refKey, tally>>

Lookup == Descend \/ Found \/ Missing \/ \E n \in Node : Insert(n)

(* The client assigns through the reference it holds. *)
Assign(v) ==
  /\ ~Searching
  /\ BetweenCalls
  /\ ref # Nil
  /\ val' = [val EXCEPT ![ref] = v]
  /\ reply' = None
  /\ tally' = IF (v # Empty) = Valid(ref) THEN tally
              ELSE IF tally = "owed" THEN "even" ELSE "lost"
  /\ UNCHANGED <<nodeVars, item, valCount, ref, refKey, call>>

-----------------------------------------------------------------------------
(***************************************************************************)
(* ForEach and Clear: the walk of TreeWalk with the callbacks of           *)
(* for_each_callback_invoker, or node_deleter's.                           *)
(***************************************************************************)
PushKeyItem(buf, c) ==
  IF buf = <<>> THEN <<c, 0>> ELSE Append([buf EXCEPT ![Len(buf)] = c], 0)

PopKeyItem(buf) ==
  IF Len(buf) > 1 THEN [SubSeq(buf, 1, Len(buf) - 1) EXCEPT ![Len(buf) - 1] = 0]
  ELSE buf

(* A buffer read as a zero-terminated key. *)
KeyIn(buf) ==
  SubSeq(buf, 1, (CHOOSE j \in 1..Len(buf) :
                     buf[j] = 0 /\ \A l \in 1..(j - 1) : buf[l] # 0) - 1)

Told == purpose = "each" /\ Valid(top.node)

(* Mutant: a node without value has its sub-nodes ignored. *)
Answers_Ignore ==
  IF ~Told THEN IF purpose = "each" /\ ~AtEnd THEN {"positive"} ELSE {"zero"}
  ELSE IF AtEnd THEN Outcomes \ {"positive"} ELSE Outcomes

(* Bound: a client of these models does not re-enter sub-nodes, which need *)
(* never end. *)
Answers ==
  IF ~Told THEN {"zero"}
  ELSE IF AtEnd THEN Outcomes \ {"positive"} ELSE Outcomes

(* invokeCallback; what it leaves in mKeyBuf. *)
KeyBufAfter(r) ==
  LET given == PushKeyItem(keyBuf, item[top.node])
  IN  IF ~Told THEN keyBuf
      ELSE CASE r = "throw" -> given
             [] r = "negative" -> <<>>
             [] OTHER -> PopKeyItem(given)

InvokeCallback(r) ==
  /\ told' = IF ~Told THEN told
             ELSE Append(told, [node |-> top.node,
                                key |-> KeyIn(PushKeyItem(keyBuf, item[top.node]))])
  /\ plain' = (plain /\ (Told => r = "zero"))
  /\ tainted' = CASE r = "throw" -> TRUE
                  [] r = "negative" -> FALSE
                  [] OTHER -> tainted

(* Mutant: the character of a sibling is taken back as well. *)
AfterPopStack_Always(buf) ==
  IF purpose = "each" /\ stack # <<>> THEN PopKeyItem(buf) ELSE buf

(* The parent is popped behind its sub-node 0: its character is taken back.*)
AfterPopStack(buf) ==
  IF purpose = "each" /\ stack # <<>> /\ stack[Len(stack)].next = 1
  THEN PopKeyItem(buf) ELSE buf

(* A node is left for its sub-node 0: its character is part of the keys    *)
(* below.                                                                  *)
OnPushStack(buf) ==
  IF purpose = "each" /\ i = 0 THEN PushKeyItem(buf, item[top.node]) ELSE buf

StartMapWalk(o, p) ==
  /\ ~Searching
  /\ StartWalk(o, p)
  /\ told' = <<>>
  /\ plain' = TRUE
  /\ reply' = None
  /\ UNCHANGED <<dataVars, tainted, keyBuf, tally, call>>

(* Bound: what exceptions left in the key buffer does not grow forever.    *)
MapForEach(o) ==
  /\ Len(keyBuf) <= MaxStaleKey + 1
  /\ StartMapWalk(o, "each")
  /\ UNCHANGED <<ref, refKey>>

(* The client drops its reference: the node is about to be destroyed.      *)
ClearNodes ==
  /\ StartMapWalk(-1, "clear")
  /\ ref' = Nil
  /\ refKey' = None

(* Clear() of a map without nodes only resets the count. *)
ClearCount ==
  /\ ~Searching
  /\ BetweenCalls
  /\ root = Nil
  /\ valCount' = 0
  /\ reply' = None
  /\ tally' = "even"
  /\ UNCHANGED <<nodeVars, item, val, ref, refKey, call>>

(* Clear() resets the count behind the traversal. *)
CountAfter ==
  IF purpose = "clear" /\ pc' = "idle" THEN valCount' = 0 /\ tally' = "even"
  ELSE UNCHANGED <<valCount, tally>>

MapWalk ==
  /\ pc # "idle"
  /\ top.node \in alive
  /\ \/ \E r \in Answers :
          VisitAt(r) /\ InvokeCallback(r) /\ keyBuf' = KeyBufAfter(r)
     \/ PassOrder /\ UNCHANGED tellVars
     \/ SkipNull /\ UNCHANGED tellVars
     \/ PushStack /\ keyBuf' = OnPushStack(keyBuf)
                  /\ UNCHANGED <<told, plain, tainted>>
     \/ Leave(FALSE) /\ keyBuf' = AfterPopStack(keyBuf)
                     /\ UNCHANGED <<told, plain, tainted>>
     \/ \E r \in Answers :
          /\ VisitAndLeave(r, FALSE)
          /\ InvokeCallback(r)
          /\ keyBuf' = IF r = "zero" THEN AfterPopStack(KeyBufAfter(r))
                                     ELSE KeyBufAfter(r)
  /\ CountAfter
  /\ item' = [n \in Node |-> IF n \in alive' THEN item[n] ELSE 0]
  /\ val' = [n \in Node |-> IF n \in alive' THEN val[n] ELSE Empty]
  /\ UNCHANGED <<ref, refKey, reply, call>>

MapNext ==
  \/ \E o \in {"get", "remove", "index"}, k \in Keys : Call(o, k)
  \/ Lookup
  \/ \E v \in Val \cup {Empty} : Assign(v)
  \/ \E o \in Orders : MapForEach(o)
  \/ ClearNodes
  \/ ClearCount
  \/ MapWalk

MapSpec == MapInit /\ [][MapNext]_mapVars

-----------------------------------------------------------------------------
(***************************************************************************)
(* What the nodes stand for.                                               *)
(***************************************************************************)
(* Every node below the root, with the key its place stands for.          *)
Prefixed(c, named) == {[node |-> e.node, key |-> <<c>> \o e.key] : e \in named}

Named ==
  LET below[n \in alive] ==
        LET Behind(k) == IF sub[n][k] = Nil THEN {} ELSE below[sub[n][k]]
        IN  {[node |-> n, key |-> <<item[n]>>]}
              \cup Prefixed(item[n], Behind(1)) \cup Behind(2) \cup Behind(3)
  IN  IF root = Nil THEN {} ELSE below[root]

(* The node of key k, searched for downwards.                              *)
NodeOf(k) ==
  LET find[n \in alive] ==
        [p \in 1..Len(k) |->
           LET Further(l, q) == IF sub[n][l] = Nil THEN Nil ELSE find[sub[n][l]][q]
           IN  IF k[p] < item[n] THEN Further(2, p)
               ELSE IF k[p] > item[n] THEN Further(3, p)
               ELSE IF p = Len(k) THEN n ELSE Further(1, p + 1)]
  IN  IF root = Nil THEN Nil ELSE find[root][1]

Content ==
  LET named == IF purpose = "clear" THEN {} ELSE Named
  IN  [k \in Keys |->
         IF \E e \in named : e.key = k
         THEN val[(CHOOSE e \in named : e.key = k).node]
         ELSE Empty]

(* Through all the rotations the map is the store its users see: an answer *)
(* is the value last assigned to that very key, Remove() empties that key  *)
(* and no other, and a reference from operator[] keeps its key             *)
(* (property_map.h, GetValue, Remove, operator[] and Clear).               *)
Store == INSTANCE PropertyStore WITH content <- Content
Implements == Store!Spec

(* No lookup loses a node or puts one where the search for its key does    *)
(* not come by: every node made is found under the key its place stands    *)
(* for (property_map.h, findNodeWithKeyItem and tree.h, Rotate).           *)
Findable ==
  purpose # "clear" =>
    LET named == Named
    IN  /\ alive = {e.node : e \in named}
        /\ \A e \in named : NodeOf(e.key) = e.node

(* The key ForEach tells is the key of the value it tells, as long as no   *)
(* exception has left characters in the buffer (property_map.h,            *)
(* for_each_callback_invoker, invokeCallback).                             *)
KeyNamed ==
  [][(Len(told') > Len(told) /\ ~tainted) => told'[Len(told')] \in Named]_mapVars

(* A ForEach whose callback always answered 0 has told every value, and    *)
(* none twice (property_map.h, ForEach and invokeCallback).                *)
TellsAll ==
  [][(pc # "idle" /\ purpose = "each" /\ stale = 0 /\ pc' = "idle" /\ plain') =>
       /\ {told'[t].node : t \in DOMAIN told'} = {n \in alive : Valid(n)}
       /\ Len(told') = Cardinality({n \in alive : Valid(n)})]_mapVars

(* For a client that assigns one valid value per operator[] of a key       *)
(* without one and removes only what is there, ValCount() is the number of *)
(* values; before the first Clear() only if the memory happened to hold a  *)
(* zero (property_map.h, mValCount).                                       *)
CountHonest ==
  (~Searching /\ purpose # "clear") =>
     LET values == Cardinality({n \in alive : Valid(n)})
     IN  /\ tally = "even" => valCount = values % CountModulus
         /\ tally = "owed" => valCount = (values + 1) % CountModulus

(* The nodes a lookup that stands at slot s may still come to. *)
Ahead(s) ==
  LET below[n \in alive] ==
        {n} \cup UNION {below[m] : m \in {sub[n][l] : l \in 1..3} \ {Nil}}
  IN  IF At(s) = Nil THEN {} ELSE below[At(s)]

(* Every lookup comes to an end: no step goes back, for all the nodes a    *)
(* rotation has just moved (property_map.h, findNodeWithKey).              *)
LookupDescends ==
  [][(Searching /\ Searching' /\ alive' = alive) =>
       /\ Ahead(call.cur)' \subseteq Ahead(call.cur)
       /\ Ahead(call.cur)' # Ahead(call.cur)]_mapVars
=============================================================================

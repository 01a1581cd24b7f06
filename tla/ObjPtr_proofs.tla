--------------------------- MODULE ObjPtr_proofs ---------------------------
(***************************************************************************)
(* Proofs about ObjPtr, for any number of contexts, handles and objects    *)
(* and any limit of the count.                                             *)
(*                                                                         *)
(* That no handle dangles follows from the count being exact, and that     *)
(* from what the cascade of destructors looks like: every context being    *)
(* freed has the count 0, no other handle than the one that began it, and  *)
(* no handle left in the objects already destroyed.                        *)
(*                                                                         *)
(* That nothing is kept too long needs what Reach computes: as many steps  *)
(* as there are contexts reach the least set that holds what the client's  *)
(* handles point to and all that its own slots point to.                   *)
(***************************************************************************)
EXTENDS ObjPtr, FiniteSetTheorems, WellFoundedInduction, TLAPS

(* The contexts being freed. *)
FramesOK ==
  /\ \A k \in DOMAIN frames :
       /\ frames[k].ctx \in alloc \ lost
       /\ count[frames[k].ctx] = 0
       /\ ptr[frames[k].by] \in {frames[k].ctx, Gone}
       /\ frames[k].next >= 1
       /\ \A j \in 1..MaxItems : j < frames[k].next => ptr[<<frames[k].ctx, j>>] = Gone
  /\ \A k, l \in DOMAIN frames : frames[k].ctx = frames[l].ctx => k = l

(* The release() of a nested freeCtx() is that of the object being         *)
(* destroyed one level up.                                                 *)
CascadeOK ==
  \A k \in DOMAIN frames : k > 1 =>
     /\ frames[k - 1].next \in 1..MaxItems
     /\ frames[k].by = <<frames[k - 1].ctx, frames[k - 1].next>>

SlotsOK == \A s \in Slot : Exists(s) => s[1] \in alloc /\ s[2] <= size[s[1]]
PointersOK == \A h \in Handle : ptr[h] \in Ctx => ptr[h] \in alloc \ lost

(* What the operation that runs has released is null in the end. *)
TaskOK == task # Idle => IF frames = <<>> THEN ptr[task.to] = Null ELSE frames[1].by = task.to

(* The source of an assignment is unchanged, or lies in what is freed. *)
SourceOK ==
  task.op = "assign" /\ task.from # task.to =>
    \/ ptr[task.from] \in {task.was, Gone}
    \/ \E k \in DOMAIN frames, j \in 1..MaxItems : task.from = <<frames[k].ctx, j>>

HeapOK == FramesOK /\ CascadeOK /\ SlotsOK /\ PointersOK /\ TaskOK /\ SourceOK
IInv == PtrTypeOK /\ CountExact /\ (fault = "none" => HeapOK)

-----------------------------------------------------------------------------
(***************************************************************************)
(* Handles, slots and sets of handles.                                     *)
(***************************************************************************)
LEMMA SlotIn ==
  ASSUME NEW c \in Ctx, NEW j \in 1..MaxItems
  PROVE  /\ <<c, j>> \in Slot
         /\ <<c, j>> \in Handle
         /\ <<c, j>>[1] = c
         /\ <<c, j>>[2] = j
BY DEF Slot, Handle

LEMMA SlotParts ==
  ASSUME NEW s \in Slot
  PROVE  /\ s \in Handle
         /\ s[1] \in Ctx
         /\ s[2] \in 1..MaxItems
         /\ s = <<s[1], s[2]>>
BY DEF Slot, Handle

LEMMA FramesAppend ==
  ASSUME NEW s \in Seq(Frame), NEW f \in Frame
  PROVE  /\ Append(s, f) \in Seq(Frame)
         /\ DOMAIN s = 1..Len(s) /\ Len(s) \in Nat
         /\ Len(Append(s, f)) = Len(s) + 1
         /\ DOMAIN Append(s, f) = DOMAIN s \cup {Len(s) + 1}
         /\ \A k \in DOMAIN s : Append(s, f)[k] = s[k]
         /\ Append(s, f)[Len(s) + 1] = f
OBVIOUS

LEMMA FramesFront ==
  ASSUME NEW s \in Seq(Frame), NEW n \in Nat \ {0}, Len(s) = n
  PROVE  /\ SubSeq(s, 1, n - 1) \in Seq(Frame)
         /\ Len(SubSeq(s, 1, n - 1)) = n - 1
         /\ DOMAIN SubSeq(s, 1, n - 1) = 1..n - 1
         /\ \A k \in 1..n - 1 : SubSeq(s, 1, n - 1)[k] = s[k] /\ k \in 1..n /\ k # n
<1>1. SubSeq(s, 1, n - 1) \in Seq(Frame) /\ Len(SubSeq(s, 1, n - 1)) = n - 1
  OBVIOUS
<1>2. \A k \in 1..n - 1 : SubSeq(s, 1, n - 1)[k] = s[k] /\ k \in 1..n /\ k # n
  OBVIOUS
<1> QED BY <1>1, <1>2

LEMMA FrameParts ==
  ASSUME NEW s \in Seq(Frame), NEW k \in DOMAIN s
  PROVE  s[k].by \in Handle /\ s[k].ctx \in Ctx /\ s[k].next \in Nat
<1>1. s[k] \in Frame
  OBVIOUS
<1> QED BY <1>1 DEF Frame

LEMMA HandlesFinite == IsFiniteSet(Handle)
<1>1. IsFiniteSet(1..MaxItems)
  BY FS_Interval, ObjPtrAssumption
<1>2. IsFiniteSet(Slot)
  BY <1>1, FS_Product, ObjPtrAssumption DEF Slot
<1> QED BY <1>2, FS_Union, ObjPtrAssumption DEF Handle

LEMMA SetsOfHandles ==
  ASSUME NEW S \in SUBSET Handle
  PROVE  IsFiniteSet(S) /\ Cardinality(S) \in Nat
<1>1. IsFiniteSet(S)
  BY HandlesFinite, FS_Subset
<1> QED BY <1>1, FS_CardinalityType

LEMMA AddHolder ==
  ASSUME NEW S \in SUBSET Handle, NEW x, x \notin S
  PROVE  Cardinality(S \cup {x}) = Cardinality(S) + 1
BY SetsOfHandles, FS_AddElement

LEMMA RemoveHolder ==
  ASSUME NEW S \in SUBSET Handle, NEW x \in S
  PROVE  Cardinality(S \ {x}) = Cardinality(S) - 1
BY SetsOfHandles, FS_RemoveElement

LEMMA NoHolders ==
  ASSUME NEW S \in SUBSET Handle
  PROVE  Cardinality(S) = 0 <=> S = {}
BY SetsOfHandles, FS_EmptySet

LEMMA HoldersSubset == \A c : Holders(c) \in SUBSET Handle
BY DEF Holders

(* While the code is on defined ground the counts are right. *)
LEMMA CountIs ==
  ASSUME IInv, fault = "none", NEW c \in alloc \ lost
  PROVE  count[c] = Cardinality(Holders(c))
BY DEF IInv, CountExact

(* A handle nobody is releasing is one of those counted. *)
LEMMA CountedIfHeld ==
  ASSUME IInv, fault = "none", NEW h \in Handle, ptr[h] \in Ctx, h \notin Releasing
  PROVE  count[ptr[h]] # 0
<1>1. ptr[h] \in alloc \ lost
  BY DEF IInv, HeapOK, PointersOK
<1>2. h \in Holders(ptr[h])
  BY DEF Holders
<1> QED BY <1>1, <1>2, CountIs, NoHolders, HoldersSubset

(* A handle being released is not counted. *)
LEMMA ReleasingUncounted ==
  ASSUME IInv, fault = "none", NEW h \in Releasing
  PROVE  ~Counted(h)
<1>1. PICK k \in DOMAIN frames : frames[k].by = h
  BY DEF Releasing
<1>2. ptr[h] \in {frames[k].ctx, Gone} /\ count[frames[k].ctx] = 0
  BY <1>1 DEF IInv, HeapOK, FramesOK
<1> QED BY <1>2, ObjPtrAssumption DEF Counted

-----------------------------------------------------------------------------
(***************************************************************************)
(* release() of a handle that counts.                                      *)
(***************************************************************************)
LEMMA ReleaseType ==
  ASSUME PtrTypeOK, NEW h \in Handle, Counted(h), Release(h),
         UNCHANGED <<alloc, size, lost, fault>>, task' \in Task
  PROVE  PtrTypeOK'
<1>1. ptr[h] \in Ctx /\ count[ptr[h]] \in 1..Limit
  BY ObjPtrAssumption DEF PtrTypeOK, Counted
<1>2. count' \in [Ctx -> 0..Limit]
  BY <1>1, ObjPtrAssumption DEF PtrTypeOK, Release
<1>3. ptr' \in [Handle -> Ctx \cup {Null, Gone}]
  BY DEF PtrTypeOK, Release
<1>4. [by |-> h, ctx |-> ptr[h], next |-> 1] \in Frame
  BY <1>1 DEF Frame
<1>5. frames' \in Seq(Frame)
  <2>1. frames \in Seq(Frame)
    BY DEF PtrTypeOK
  <2>2. CASE count[ptr[h]] = 1
    BY <1>4, <2>1, <2>2, FramesAppend DEF Release
  <2>3. CASE count[ptr[h]] # 1
    BY <2>1, <2>3 DEF Release
  <2> QED BY <2>2, <2>3
<1> QED BY <1>2, <1>3, <1>5 DEF PtrTypeOK

LEMMA ReleaseCount ==
  ASSUME IInv, fault = "none", NEW h \in Handle, Counted(h), Release(h),
         UNCHANGED <<alloc, size, lost, fault>>
  PROVE  CountExact'
<1> DEFINE c == ptr[h]
<1>1. /\ c \in alloc \ lost
      /\ c \in Ctx
      /\ c # Null
      /\ h \notin Releasing
      /\ h \in Holders(c)
      /\ count \in [Ctx -> 0..Limit]
      /\ ptr \in [Handle -> Ctx \cup {Null, Gone}]
      /\ frames \in Seq(Frame)
      /\ count' = [count EXCEPT ![c] = @ - 1]
  BY ReleasingUncounted, ObjPtrAssumption
  DEF IInv, HeapOK, PointersOK, PtrTypeOK, Counted, Holders, Release
<1>2. \A d \in Ctx : Holders(d)' = IF d = c THEN Holders(c) \ {h} ELSE Holders(d)
  <2>1. CASE count[c] = 1
    <3>1. ptr' = ptr /\ frames' = Append(frames, [by |-> h, ctx |-> c, next |-> 1])
      BY <2>1 DEF Release
    <3>2. Releasing' = Releasing \cup {h}
      <4>1. [by |-> h, ctx |-> c, next |-> 1] \in Frame
        BY <1>1 DEF Frame
      <4>2. /\ DOMAIN frames' = DOMAIN frames \cup {Len(frames) + 1}
            /\ \A k \in DOMAIN frames : frames'[k].by = frames[k].by
            /\ frames'[Len(frames) + 1].by = h
        BY <1>1, <3>1, <4>1, FramesAppend
      <4>3. \A k \in DOMAIN frames : frames[k].by \in Releasing'
        BY <4>2 DEF Releasing
      <4>4. h \in Releasing'
        BY <4>2 DEF Releasing
      <4>5. \A g \in Releasing' : g = h \/ g \in Releasing
        BY <4>2 DEF Releasing
      <4> QED BY <4>3, <4>4, <4>5 DEF Releasing
    <3> QED BY <1>1, <3>1, <3>2 DEF Holders
  <2>2. CASE count[c] # 1
    <3>1. ptr' = [ptr EXCEPT ![h] = Null] /\ frames' = frames
      BY <2>2 DEF Release
    <3> QED BY <1>1, <3>1, ObjPtrAssumption DEF Holders, Releasing
  <2> QED BY <2>1, <2>2
<1>3. ASSUME NEW d \in alloc \ lost
      PROVE  count'[d] = Cardinality(Holders(d)')
  <2>1. d \in Ctx /\ count[d] = Cardinality(Holders(d))
    BY CountIs DEF IInv, PtrTypeOK
  <2>2. CASE d = c
    <3>1. count'[d] = count[d] - 1
      BY <1>1, <2>1, <2>2
    <3> QED BY <1>1, <1>2, <2>1, <2>2, <3>1, RemoveHolder, HoldersSubset
  <2>3. CASE d # c
    BY <1>1, <1>2, <2>1, <2>3
  <2> QED BY <2>2, <2>3
<1> QED BY <1>3 DEF CountExact

LEMMA ReleaseFrames ==
  ASSUME IInv, fault = "none", NEW h \in Handle, Counted(h), Release(h),
         UNCHANGED <<alloc, size, lost, fault>>
  PROVE  FramesOK' /\ SlotsOK' /\ PointersOK'
<1> DEFINE c == ptr[h]
<1>1. /\ c \in alloc \ lost
      /\ c \in Ctx
      /\ c # Null /\ c # Gone
      /\ h \notin Releasing
      /\ count \in [Ctx -> 0..Limit]
      /\ ptr \in [Handle -> Ctx \cup {Null, Gone}]
      /\ frames \in Seq(Frame)
      /\ count' = [count EXCEPT ![c] = @ - 1]
      /\ alloc \subseteq Ctx
  BY ReleasingUncounted, ObjPtrAssumption
  DEF IInv, HeapOK, PointersOK, PtrTypeOK, Counted, Release
<1>2. FramesOK /\ SlotsOK /\ PointersOK
  BY DEF IInv, HeapOK
<1>3. \A k \in DOMAIN frames : /\ frames[k].ctx \in Ctx /\ frames[k].by \in Handle
                               /\ frames[k].ctx # c /\ frames[k].by # h
  BY <1>1, <1>2, FrameParts DEF FramesOK, Counted, Releasing
<1>4. CASE count[c] = 1
  <2>1. ptr' = ptr /\ frames' = Append(frames, [by |-> h, ctx |-> c, next |-> 1])
    BY <1>4 DEF Release
  <2>2. count'[c] = 0
    BY <1>1, <1>4
  <2>3. SlotsOK' /\ PointersOK'
    BY <1>2, <2>1 DEF SlotsOK, PointersOK, Exists
  <2>4. \A k \in DOMAIN frames' :
           IF k \in DOMAIN frames THEN frames'[k] = frames[k]
           ELSE k = Len(frames) + 1 /\ frames'[k] = [by |-> h, ctx |-> c, next |-> 1]
    BY <1>1, <2>1
  <2>5. ASSUME NEW k \in DOMAIN frames'
        PROVE  /\ frames'[k].ctx \in alloc \ lost
               /\ count'[frames'[k].ctx] = 0
               /\ ptr[frames'[k].by] \in {frames'[k].ctx, Gone}
               /\ frames'[k].next >= 1
               /\ \A j \in 1..MaxItems :
                    j < frames'[k].next => ptr[<<frames'[k].ctx, j>>] = Gone
    <3>1. CASE k \in DOMAIN frames
      BY <1>1, <1>2, <1>3, <2>4, <3>1 DEF FramesOK
    <3>2. CASE k \notin DOMAIN frames
      BY <1>1, <2>2, <2>4, <3>2
    <3> QED BY <3>1, <3>2
  <2>6. \A k, l \in DOMAIN frames' : frames'[k].ctx = frames'[l].ctx => k = l
    BY <1>2, <1>3, <2>4 DEF FramesOK
  <2> QED BY <2>1, <2>3, <2>5, <2>6 DEF FramesOK
<1>5. CASE count[c] # 1
  <2>1. ptr' = [ptr EXCEPT ![h] = Null] /\ frames' = frames
    BY <1>5 DEF Release
  <2>2. ptr'[h] = Null /\ \A g \in Handle : g # h => ptr'[g] = ptr[g]
    BY <1>1, <2>1
  <2>3. SlotsOK'
    <3>1. Exists(h)
      BY <1>1 DEF Exists
    <3>2. \A s \in Slot : Exists(s)' => Exists(s)
      BY <2>2, <3>1, SlotParts DEF Exists
    <3> QED BY <1>2, <3>2 DEF SlotsOK
  <2>4. PointersOK'
    BY <1>2, <2>2, ObjPtrAssumption DEF PointersOK
  <2>5. ASSUME NEW k \in DOMAIN frames
        PROVE  /\ frames[k].ctx \in alloc \ lost
               /\ count'[frames[k].ctx] = 0
               /\ ptr'[frames[k].by] \in {frames[k].ctx, Gone}
               /\ frames[k].next >= 1
    BY <1>1, <1>2, <1>3, <2>2 DEF FramesOK
  <2>6. ASSUME NEW k \in DOMAIN frames, NEW j \in 1..MaxItems, j < frames[k].next
        PROVE  ptr'[<<frames[k].ctx, j>>] = Gone
    <3>1. ptr[<<frames[k].ctx, j>>] = Gone
      BY <1>2, <2>6 DEF FramesOK
    <3>2. <<frames[k].ctx, j>> \in Handle
      BY <1>3, SlotIn
    <3> QED BY <1>1, <2>2, <3>1, <3>2
  <2> QED BY <1>2, <2>1, <2>3, <2>4, <2>5, <2>6 DEF FramesOK
<1> QED BY <1>4, <1>5

-----------------------------------------------------------------------------
(***************************************************************************)
(* The operations that begin between others.                               *)
(***************************************************************************)
LEMMA QuietHeap ==
  ASSUME Quiet', SlotsOK', PointersOK'
  PROVE  HeapOK'
<1>1. frames' = <<>> /\ DOMAIN frames' = {} /\ task' = Idle
  BY DEF Quiet
<1> QED BY <1>1 DEF HeapOK, FramesOK, CascadeOK, TaskOK, SourceOK, Idle

LEMMA QuietReleasing ==
  ASSUME frames = <<>>
  PROVE  Releasing = {}
BY DEF Releasing

(* A handle that pointed to nothing gets a value. *)
LEMMA SetPointer ==
  ASSUME PtrTypeOK, NEW h \in Handle, ptr[h] \notin Ctx, frames = <<>>, frames' = <<>>,
         NEW v, ptr' = [ptr EXCEPT ![h] = v], NEW c \in Ctx
  PROVE  /\ h \notin Holders(c)
         /\ Holders(c)' = IF v = c THEN Holders(c) \cup {h} ELSE Holders(c)
<1>1. /\ ptr \in [Handle -> Ctx \cup {Null, Gone}]
      /\ Releasing = {} /\ Releasing' = {}
  BY QuietReleasing DEF PtrTypeOK, Releasing
<1> QED BY <1>1 DEF Holders

LEMMA PointerSlots ==
  ASSUME PtrTypeOK, SlotsOK, NEW h \in Handle, NEW v, ptr' = [ptr EXCEPT ![h] = v],
         UNCHANGED <<alloc, size>>,
         v = Gone \/ Exists(h) \/ Room(h)
  PROVE  SlotsOK'
<1>1. ptr \in [Handle -> Ctx \cup {Null, Gone}]
  BY DEF PtrTypeOK
<1>2. ASSUME NEW s \in Slot, Exists(s)'
      PROVE  s[1] \in alloc /\ s[2] <= size[s[1]]
  <2>1. CASE s = h
    BY <1>1, <1>2, <2>1 DEF SlotsOK, Exists, Room, ObjCount
  <2>2. CASE s # h
    <3>1. ptr'[s] = ptr[s]
      BY <1>1, <2>2, SlotParts
    <3> QED BY <1>2, <3>1 DEF SlotsOK, Exists
  <2> QED BY <2>1, <2>2
<1> QED BY <1>2 DEF SlotsOK

LEMMA ConstructKeeps ==
  ASSUME IInv, NEW h \in Handle, Construct(h)
  PROVE  IInv'
<1>1. /\ fault = "none" /\ frames = <<>> /\ task = Idle
      /\ ptr' = [ptr EXCEPT ![h] = Null] /\ ptr[h] = Gone
      /\ PtrTypeOK /\ SlotsOK /\ PointersOK
      /\ UNCHANGED <<alloc, size, count, frames, task, lost, fault>>
  BY DEF IInv, HeapOK, Construct, Quiet, Room
<1>2. PtrTypeOK'
  BY <1>1 DEF PtrTypeOK
<1>3. CountExact'
  <2>1. ASSUME NEW c \in alloc \ lost
        PROVE  count[c] = Cardinality(Holders(c)')
    <3>1. c \in Ctx /\ Null # c
      BY <1>1, ObjPtrAssumption DEF PtrTypeOK
    <3> QED BY <1>1, <3>1, CountIs, SetPointer, ObjPtrAssumption
  <2> QED BY <1>1, <2>1 DEF CountExact
<1>4. SlotsOK'
  BY <1>1, PointerSlots DEF Construct
<1>5. PointersOK'
  BY <1>1, ObjPtrAssumption DEF PointersOK, PtrTypeOK
<1>6. Quiet'
  BY <1>1 DEF Quiet
<1> QED BY <1>2, <1>3, <1>4, <1>5, <1>6, QuietHeap DEF IInv

LEMMA CreateKeeps ==
  ASSUME IInv, NEW h \in Outer, NEW c \in Ctx, NEW n \in 0..MaxItems, Create(h, c, n)
  PROVE  IInv'
<1>1. /\ fault = "none" /\ frames = <<>> /\ task = Idle
      /\ h \in Handle /\ h \notin Slot
      /\ c \notin alloc /\ alloc' = alloc \cup {c}
      /\ ptr' = [ptr EXCEPT ![h] = c] /\ ptr[h] = Gone
      /\ size' = [size EXCEPT ![c] = n]
      /\ count' = [count EXCEPT ![c] = 1]
      /\ PtrTypeOK /\ SlotsOK /\ PointersOK
      /\ UNCHANGED <<frames, task, lost, fault>>
  BY ObjPtrAssumption DEF IInv, HeapOK, Create, Quiet, Room, Handle
<1>2. PtrTypeOK'
  BY <1>1, ObjPtrAssumption DEF PtrTypeOK
<1>3. CountExact'
  <2>1. ASSUME NEW d \in alloc' \ lost
        PROVE  count'[d] = Cardinality(Holders(d)')
    <3>1. d \in Ctx /\ ptr[h] \notin Ctx
      BY <1>1, ObjPtrAssumption DEF PtrTypeOK
    <3>2. CASE d = c
      <4>1. Holders(c) = {}
        BY <1>1 DEF Holders, PointersOK
      <4>2. Holders(c)' = Holders(c) \cup {h} /\ h \notin Holders(c)
        BY <1>1, <3>1, SetPointer
      <4>3. Cardinality(Holders(c)') = 1
        <5>1. Cardinality(Holders(c)) = 0
          BY <4>1, FS_EmptySet
        <5>2. Cardinality(Holders(c) \cup {h}) = Cardinality(Holders(c)) + 1
          BY <4>2, AddHolder, HoldersSubset
        <5> QED BY <4>2, <5>1, <5>2
      <4> QED BY <1>1, <3>2, <4>3 DEF PtrTypeOK
    <3>3. CASE d # c
      <4>1. Holders(d)' = Holders(d)
        BY <1>1, <3>1, <3>3, SetPointer
      <4> QED BY <1>1, <3>1, <3>3, <4>1, CountIs DEF PtrTypeOK
    <3> QED BY <3>2, <3>3
  <2> QED BY <1>1, <2>1 DEF CountExact
<1>4. SlotsOK'
  <2>1. ASSUME NEW s \in Slot, Exists(s)'
        PROVE  s[1] \in alloc' /\ s[2] <= size'[s[1]]
    <3>1. s \in Handle /\ s # h /\ s[1] \in Ctx
      BY <1>1, SlotParts
    <3>2. Exists(s)
      BY <1>1, <2>1, <3>1 DEF Exists, PtrTypeOK
    <3>3. s[1] \in alloc /\ s[2] <= size[s[1]]
      BY <1>1, <3>2 DEF SlotsOK
    <3> QED BY <1>1, <3>1, <3>3 DEF PtrTypeOK
  <2> QED BY <2>1 DEF SlotsOK
<1>5. PointersOK'
  <2>1. c \notin lost
    BY <1>1 DEF PtrTypeOK
  <2> QED BY <1>1, <2>1 DEF PointersOK, PtrTypeOK
<1>6. Quiet'
  BY <1>1 DEF Quiet
<1> QED BY <1>2, <1>3, <1>4, <1>5, <1>6, QuietHeap DEF IInv

LEMMA CreateFailsKeeps ==
  ASSUME IInv, NEW c \in Ctx, CreateFails(c)
  PROVE  IInv'
<1>1. /\ fault = "none" /\ frames = <<>> /\ task = Idle
      /\ c \notin alloc /\ alloc' = alloc \cup {c} /\ lost' = lost \cup {c}
      /\ size' = [size EXCEPT ![c] = 0]
      /\ count' = [count EXCEPT ![c] = 1]
      /\ PtrTypeOK /\ SlotsOK /\ PointersOK
      /\ UNCHANGED <<ptr, frames, task, fault>>
  BY DEF IInv, HeapOK, CreateFails, Quiet
<1>2. PtrTypeOK'
  BY <1>1, ObjPtrAssumption DEF PtrTypeOK
<1>3. CountExact'
  <2>1. ASSUME NEW d \in alloc' \ lost'
        PROVE  count'[d] = Cardinality(Holders(d)')
    <3>1. d \in alloc \ lost /\ d # c /\ d \in Ctx
      BY <1>1 DEF PtrTypeOK
    <3>2. Holders(d)' = Holders(d)
      BY <1>1 DEF Holders, Releasing
    <3>3. count'[d] = count[d]
      BY <1>1, <3>1 DEF PtrTypeOK
    <3> QED BY <1>1, <3>1, <3>2, <3>3, CountIs
  <2> QED BY <1>1, <2>1 DEF CountExact
<1>4. SlotsOK'
  BY <1>1, SlotParts DEF SlotsOK, Exists, PtrTypeOK
<1>5. PointersOK'
  BY <1>1 DEF PointersOK
<1>6. Quiet'
  BY <1>1 DEF Quiet
<1> QED BY <1>2, <1>3, <1>4, <1>5, <1>6, QuietHeap DEF IInv

LEMMA CopyKeeps ==
  ASSUME IInv, NEW h \in Handle, NEW s \in Handle, Copy(h, s)
  PROVE  IInv'
<1> DEFINE v == ptr[s]
<1>1. /\ fault = "none" /\ frames = <<>> /\ task = Idle
      /\ ptr[h] = Gone
      /\ PtrTypeOK /\ SlotsOK /\ PointersOK
      /\ UNCHANGED <<alloc, size, frames, task, lost, fault>>
  BY DEF IInv, HeapOK, Copy, Quiet, Room
<1>2. ptr[h] \notin Ctx
  BY <1>1, ObjPtrAssumption
<1>3. CASE v \in Ctx /\ count[v] # Limit
  <2>1. /\ count' = [count EXCEPT ![v] = @ + 1]
        /\ ptr' = [ptr EXCEPT ![h] = v]
    BY <1>3 DEF Copy
  <2>2. PtrTypeOK'
    <3>1. count[v] \in 0..Limit
      BY <1>1, <1>3 DEF PtrTypeOK
    <3>2. count[v] + 1 \in 0..Limit
      BY <1>3, <3>1, ObjPtrAssumption
    <3> QED BY <1>1, <1>3, <2>1, <3>2 DEF PtrTypeOK
  <2>3. CountExact'
    <3>1. ASSUME NEW c \in alloc \ lost
          PROVE  count'[c] = Cardinality(Holders(c)')
      <4>1. c \in Ctx /\ count[c] = Cardinality(Holders(c))
        BY <1>1, CountIs DEF PtrTypeOK
      <4>2. /\ h \notin Holders(c)
            /\ Holders(c)' = IF v = c THEN Holders(c) \cup {h} ELSE Holders(c)
        BY <1>1, <1>2, <2>1, <4>1, SetPointer
      <4>3. CASE c = v
        <5>1. Cardinality(Holders(c)') = Cardinality(Holders(c)) + 1
          BY <4>2, <4>3, AddHolder, HoldersSubset
        <5>2. count'[c] = count[c] + 1
          BY <1>1, <2>1, <4>1, <4>3 DEF PtrTypeOK
        <5> QED BY <4>1, <5>1, <5>2
      <4>4. CASE c # v
        BY <1>1, <2>1, <4>1, <4>2, <4>4 DEF PtrTypeOK
      <4> QED BY <4>3, <4>4
    <3> QED BY <1>1, <3>1 DEF CountExact
  <2>4. SlotsOK'
    BY <1>1, <2>1, PointerSlots DEF Copy
  <2>5. PointersOK'
    <3>1. v \in alloc \ lost
      BY <1>1, <1>3 DEF PointersOK
    <3> QED BY <1>1, <2>1, <3>1 DEF PointersOK, PtrTypeOK
  <2>6. Quiet'
    BY <1>1 DEF Quiet
  <2> QED BY <2>2, <2>3, <2>4, <2>5, <2>6, QuietHeap DEF IInv
<1>4. CASE ~(v \in Ctx /\ count[v] # Limit)
  <2>1. Construct(h)
    BY <1>4 DEF Copy, Construct
  <2> QED BY <2>1, ConstructKeeps
<1> QED BY <1>3, <1>4

LEMMA BeginKeeps ==
  ASSUME IInv, NEW o \in {"assign", "destroy"}, NEW h \in Handle, NEW s \in Handle,
         Begin(o, h, s)
  PROVE  IInv'
<1>1. /\ fault = "none" /\ frames = <<>>
      /\ ptr[h] # Gone /\ ptr[s] # Gone
      /\ PtrTypeOK /\ SlotsOK /\ PointersOK
      /\ task' = [op |-> o, to |-> h, from |-> s, was |-> ptr[s], doomed |-> Doomed(h, s)]
      /\ UNCHANGED <<alloc, size, lost, fault>>
  BY DEF IInv, HeapOK, Begin, Quiet, Exists
<1>2. /\ task' \in Task
      /\ task'.to = h /\ task'.from = s /\ task'.was = ptr[s]
  <2>1. Doomed(h, s) \in BOOLEAN
    BY DEF Doomed
  <2>2. ptr[s] \in Ctx \cup {Null}
    BY <1>1 DEF PtrTypeOK
  <2> QED BY <1>1, <2>1, <2>2 DEF Task
<1>3. CASE Counted(h)
  <2>1. Release(h)
    BY <1>3 DEF Begin
  <2>2. PtrTypeOK' /\ CountExact' /\ FramesOK' /\ SlotsOK' /\ PointersOK'
    BY <1>1, <1>2, <1>3, <2>1, ReleaseType, ReleaseCount, ReleaseFrames
  <2>3. CASE count[ptr[h]] = 1
    <3>1. /\ ptr' = ptr
          /\ frames' = <<[by |-> h, ctx |-> ptr[h], next |-> 1]>>
      BY <1>1, <2>1, <2>3 DEF Release
    <3>2. DOMAIN frames' = {1} /\ frames'[1].by = h /\ frames' # <<>>
      BY <3>1
    <3> QED BY <1>2, <2>2, <3>1, <3>2 DEF IInv, HeapOK, CascadeOK, TaskOK, SourceOK
  <2>4. CASE count[ptr[h]] # 1
    <3>1. /\ ptr' = [ptr EXCEPT ![h] = Null]
          /\ frames' = <<>>
      BY <1>1, <2>1, <2>4 DEF Release
    <3>2. ptr'[h] = Null /\ (s # h => ptr'[s] = ptr[s])
      BY <1>1, <3>1 DEF PtrTypeOK
    <3> QED BY <1>2, <2>2, <3>1, <3>2 DEF IInv, HeapOK, CascadeOK, TaskOK, SourceOK
  <2> QED BY <2>3, <2>4
<1>4. CASE ~Counted(h)
  <2>1. UNCHANGED <<count, ptr, frames>>
    BY <1>4 DEF Begin
  <2>2. ptr[h] = Null
    <3>1. h \notin Releasing
      BY <1>1, QuietReleasing
    <3> QED BY <1>1, <1>4, <3>1, CountedIfHeld DEF Counted, PtrTypeOK
  <2>3. PtrTypeOK'
    BY <1>1, <1>2, <2>1 DEF PtrTypeOK
  <2>4. CountExact'
    BY <1>1, <2>1 DEF IInv, CountExact, Holders, Releasing
  <2>5. SlotsOK' /\ PointersOK'
    BY <1>1, <2>1 DEF SlotsOK, PointersOK, Exists
  <2>6. FramesOK' /\ CascadeOK' /\ frames' = <<>>
    BY <1>1, <2>1 DEF FramesOK, CascadeOK
  <2>7. TaskOK' /\ SourceOK'
    BY <1>2, <2>1, <2>2, <2>6 DEF TaskOK, SourceOK
  <2> QED BY <2>3, <2>4, <2>5, <2>6, <2>7 DEF IInv, HeapOK
<1> QED BY <1>3, <1>4

-----------------------------------------------------------------------------
(***************************************************************************)
(* The cascade of freeCtx() calls.                                         *)
(***************************************************************************)
LEMMA TopIs ==
  ASSUME PtrTypeOK, frames # <<>>
  PROVE  /\ frames \in Seq(Frame)
         /\ Len(frames) \in DOMAIN frames
         /\ Len(frames) \in Nat \ {0}
         /\ DOMAIN frames = 1..Len(frames)
         /\ Top = frames[Len(frames)]
         /\ Top.by \in Handle /\ Top.ctx \in Ctx /\ Top.next \in Nat
<1>1. frames \in Seq(Frame)
  BY DEF PtrTypeOK
<1>2. Len(frames) \in DOMAIN frames /\ Len(frames) \in Nat \ {0} /\ DOMAIN frames = 1..Len(frames)
  BY <1>1
<1> QED BY <1>1, <1>2, FrameParts DEF Top

LEMMA SlotAtIs ==
  ASSUME IInv, fault = "none", frames # <<>>, Top.next <= ObjCount(Top.ctx)
  PROVE  /\ Top.next \in 1..MaxItems
         /\ SlotAt = <<Top.ctx, Top.next>>
         /\ SlotAt \in Slot /\ SlotAt \in Handle
<1>1. PtrTypeOK /\ FramesOK
  BY DEF IInv, HeapOK
<1>2. Top.next >= 1 /\ Top.ctx \in Ctx /\ Top.next \in Nat
  BY <1>1, TopIs DEF FramesOK
<1>3. size[Top.ctx] \in 0..MaxItems
  BY <1>1, <1>2 DEF PtrTypeOK
<1>4. Top.next \in 1..MaxItems
  BY <1>2, <1>3, ObjPtrAssumption DEF ObjCount
<1> QED BY <1>2, <1>4, SlotIn DEF SlotAt, ObjAt

LEMMA DestroyItemKeeps ==
  ASSUME IInv, DestroyItem
  PROVE  IInv'
<1> DEFINE h == SlotAt
           n == Len(frames)
<1>1. /\ fault = "none" /\ frames # <<>>
      /\ Top.next <= ObjCount(Top.ctx)
      /\ PtrTypeOK /\ CountExact /\ FramesOK /\ CascadeOK /\ SlotsOK /\ PointersOK
      /\ TaskOK /\ SourceOK
      /\ UNCHANGED <<alloc, size, task, lost, fault>>
  BY DEF IInv, HeapOK, DestroyItem
<1>2. /\ h \in Slot /\ h \in Handle
      /\ h = <<frames[n].ctx, frames[n].next>>
      /\ frames[n].next \in 1..MaxItems
      /\ frames[n].ctx \in Ctx
      /\ n \in DOMAIN frames /\ n \in Nat \ {0} /\ DOMAIN frames = 1..n
      /\ frames \in Seq(Frame)
      /\ ptr \in [Handle -> Ctx \cup {Null, Gone}]
  BY <1>1, TopIs, SlotAtIs DEF PtrTypeOK
<1>3. CASE Counted(h)
  <2>1. Release(h)
    BY <1>3 DEF DestroyItem
  <2>2. PtrTypeOK' /\ CountExact' /\ FramesOK' /\ SlotsOK' /\ PointersOK'
    <3>1. task' \in Task
      BY <1>1 DEF PtrTypeOK
    <3> QED BY <1>1, <1>2, <1>3, <2>1, <3>1, ReleaseType, ReleaseCount, ReleaseFrames
  <2>3. /\ \A g \in Handle : g # h => ptr'[g] = ptr[g]
        /\ frames' # <<>>
        /\ DOMAIN frames \subseteq DOMAIN frames'
        /\ \A k \in DOMAIN frames : frames'[k] = frames[k]
        /\ \A k \in DOMAIN frames' \ DOMAIN frames : k = n + 1 /\ frames'[k].by = h
    <3>1. CASE count[ptr[h]] = 1
      <4>1. ptr' = ptr /\ frames' = Append(frames, [by |-> h, ctx |-> ptr[h], next |-> 1])
        BY <2>1, <3>1 DEF Release
      <4>2. [by |-> h, ctx |-> ptr[h], next |-> 1] \in Frame
        BY <1>2, <1>3 DEF Frame, Counted
      <4>3. frames' # <<>>
        BY <1>2, <4>1, <4>2, FramesAppend
      <4> QED BY <1>2, <4>1, <4>2, <4>3, FramesAppend
    <3>2. CASE count[ptr[h]] # 1
      <4>1. ptr' = [ptr EXCEPT ![h] = Null] /\ frames' = frames
        BY <2>1, <3>2 DEF Release
      <4> QED BY <1>1, <1>2, <4>1
    <3> QED BY <3>1, <3>2
  <2>4. CascadeOK'
    <3>1. ASSUME NEW k \in DOMAIN frames', k > 1
          PROVE  /\ frames'[k - 1].next \in 1..MaxItems
                 /\ frames'[k].by = <<frames'[k - 1].ctx, frames'[k - 1].next>>
      <4>1. CASE k \in DOMAIN frames
        <5>1. k - 1 \in DOMAIN frames
          BY <1>2, <3>1, <4>1
        <5> QED BY <1>1, <2>3, <3>1, <4>1, <5>1 DEF CascadeOK
      <4>2. CASE k \notin DOMAIN frames
        <5>1. k = n + 1 /\ k - 1 = n /\ frames'[k].by = h /\ frames'[n] = frames[n]
          BY <1>2, <2>3, <4>2
        <5> QED BY <1>2, <5>1
      <4> QED BY <4>1, <4>2
    <3> QED BY <3>1 DEF CascadeOK
  <2>5. TaskOK'
    <3>1. 1 \in DOMAIN frames
      BY <1>2
    <3> QED BY <1>1, <2>3, <3>1 DEF TaskOK
  <2>6. SourceOK'
    <3>1. SUFFICES ASSUME task.op = "assign", task.from # task.to
                   PROVE  \/ ptr'[task.from] \in {task.was, Gone}
                          \/ \E k \in DOMAIN frames', j \in 1..MaxItems :
                                task.from = <<frames'[k].ctx, j>>
      BY <1>1 DEF SourceOK
    <3>2. task.from \in Handle
      BY <1>1, <3>1 DEF PtrTypeOK, Task, Idle
    <3>3. CASE task.from = h
      BY <1>2, <2>3, <3>3
    <3>4. CASE task.from # h
      BY <1>1, <2>3, <3>1, <3>2, <3>4 DEF SourceOK
    <3> QED BY <3>3, <3>4
  <2> QED BY <1>1, <2>2, <2>4, <2>5, <2>6 DEF IInv, HeapOK
<1>4. CASE ~Counted(h)
  <2>1. /\ ptr' = [ptr EXCEPT ![h] = Gone]
        /\ frames' = [frames EXCEPT ![n].next = @ + 1]
        /\ count' = count
    BY <1>4 DEF DestroyItem
  <2>2. /\ ptr'[h] = Gone
        /\ \A g \in Handle : g # h => ptr'[g] = ptr[g]
    BY <1>2, <2>1
  <2>3. /\ frames' \in Seq(Frame) /\ frames' # <<>>
        /\ DOMAIN frames' = DOMAIN frames
        /\ \A k \in DOMAIN frames :
             /\ frames'[k].by = frames[k].by
             /\ frames'[k].ctx = frames[k].ctx
             /\ frames'[k].next = IF k = n THEN frames[k].next + 1 ELSE frames[k].next
    <3>1. frames[n] \in Frame
      BY <1>2
    <3>2. [frames[n] EXCEPT !.next = @ + 1] \in Frame
      BY <3>1 DEF Frame
    <3>3. frames' = [frames EXCEPT ![n] = [frames[n] EXCEPT !.next = @ + 1]]
      BY <2>1
    <3>4. frames' \in Seq(Frame) /\ DOMAIN frames' = DOMAIN frames /\ Len(frames') = n
      BY <1>2, <3>2, <3>3
    <3>5. \A k \in DOMAIN frames :
             frames'[k] = IF k = n THEN [frames[n] EXCEPT !.next = @ + 1] ELSE frames[k]
      BY <1>2, <3>3
    <3>6. /\ [frames[n] EXCEPT !.next = @ + 1].by = frames[n].by
          /\ [frames[n] EXCEPT !.next = @ + 1].ctx = frames[n].ctx
          /\ [frames[n] EXCEPT !.next = @ + 1].next = frames[n].next + 1
      BY <3>1 DEF Frame
    <3>7. frames' # <<>>
      BY <1>2, <3>4
    <3> QED BY <3>4, <3>5, <3>6, <3>7
  <2>4. PtrTypeOK'
    <3>1. ptr' \in [Handle -> Ctx \cup {Null, Gone}]
      BY <1>2, <2>1
    <3> QED BY <1>1, <2>1, <2>3, <3>1 DEF PtrTypeOK
  <2>5. Releasing' = Releasing
    BY <2>3 DEF Releasing
  <2>6. h \in Releasing \/ ptr[h] \notin Ctx
    BY <1>1, <1>2, <1>4, CountedIfHeld DEF Counted
  <2>7. CountExact'
    <3>1. ASSUME NEW c \in alloc \ lost
          PROVE  count[c] = Cardinality(Holders(c)')
      <4>1. c \in Ctx /\ c # Gone
        BY <1>1, ObjPtrAssumption DEF PtrTypeOK
      <4>2. Holders(c)' = Holders(c)
        BY <2>2, <2>5, <2>6, <4>1 DEF Holders
      <4> QED BY <1>1, <4>2, CountIs
    <3> QED BY <1>1, <2>1, <3>1 DEF CountExact
  <2>8. FramesOK'
    <3>1. ASSUME NEW k \in DOMAIN frames
          PROVE  /\ frames[k].by \in Handle /\ frames[k].ctx \in Ctx /\ frames[k].next \in Nat
                 /\ frames[k].ctx \in alloc \ lost
                 /\ count[frames[k].ctx] = 0
                 /\ ptr'[frames[k].by] \in {frames[k].ctx, Gone}
                 /\ frames[k].next >= 1
      BY <1>1, <1>2, <2>2, FrameParts DEF FramesOK
    <3>2. ASSUME NEW k \in DOMAIN frames, NEW j \in 1..MaxItems, j < frames'[k].next
          PROVE  ptr'[<<frames[k].ctx, j>>] = Gone
      <4>1. <<frames[k].ctx, j>> \in Handle
        BY <3>1, SlotIn
      <4>2. CASE <<frames[k].ctx, j>> = h
        BY <2>2, <4>2
      <4>3. CASE <<frames[k].ctx, j>> # h
        <5>1. j < frames[k].next
          BY <1>2, <2>3, <3>1, <3>2, <4>3
        <5>2. ptr[<<frames[k].ctx, j>>] = Gone
          BY <1>1, <5>1 DEF FramesOK
        <5> QED BY <2>2, <4>1, <4>3, <5>2
      <4> QED BY <4>2, <4>3
    <3>3. \A k, l \in DOMAIN frames : frames[k].ctx = frames[l].ctx => k = l
      BY <1>1 DEF FramesOK
    <3>4. \A k \in DOMAIN frames' : frames'[k].next >= 1
      BY <2>3, <3>1
    <3> QED BY <1>1, <2>1, <2>3, <3>1, <3>2, <3>3, <3>4 DEF FramesOK
  <2>9. SlotsOK'
    BY <1>1, <1>2, <2>1, PointerSlots
  <2>10. PointersOK'
    BY <1>1, <2>2, ObjPtrAssumption DEF PointersOK
  <2>11. CascadeOK'
    <3>1. ASSUME NEW k \in DOMAIN frames, k > 1
          PROVE  k - 1 \in DOMAIN frames /\ k - 1 # n
      BY <1>2, <3>1
    <3> QED BY <1>1, <2>3, <3>1 DEF CascadeOK
  <2>12. TaskOK'
    <3>1. 1 \in DOMAIN frames
      BY <1>2
    <3> QED BY <1>1, <2>3, <3>1 DEF TaskOK
  <2>13. SourceOK'
    <3>1. SUFFICES ASSUME task.op = "assign", task.from # task.to
                   PROVE  \/ ptr'[task.from] \in {task.was, Gone}
                          \/ \E k \in DOMAIN frames', j \in 1..MaxItems :
                                task.from = <<frames'[k].ctx, j>>
      BY <1>1 DEF SourceOK
    <3>2. task.from \in Handle
      BY <1>1, <3>1 DEF PtrTypeOK, Task, Idle
    <3>3. CASE task.from = h
      BY <2>2, <3>3
    <3>4. CASE task.from # h
      BY <1>1, <2>2, <2>3, <3>1, <3>2, <3>4 DEF SourceOK
    <3> QED BY <3>3, <3>4
  <2> QED BY <1>1, <2>4, <2>7, <2>8, <2>9, <2>10, <2>11, <2>12, <2>13 DEF IInv, HeapOK
<1> QED BY <1>3, <1>4

(* When a context is recycled no object of it holds a handle, and none     *)
(* but the one being released points to it.                                *)
LEMMA LastOfContext ==
  ASSUME IInv, fault = "none", frames # <<>>, Top.next > ObjCount(Top.ctx)
  PROVE  /\ \A j \in 1..MaxItems : Exists(<<Top.ctx, j>>) => FALSE
         /\ \A h \in Handle : ptr[h] = Top.ctx => h = Top.by
<1> DEFINE n == Len(frames)
           c == Top.ctx
<1>1. /\ PtrTypeOK /\ FramesOK /\ SlotsOK
      /\ n \in DOMAIN frames /\ Top = frames[n]
      /\ c \in Ctx /\ Top.next \in Nat
      /\ size[c] \in 0..MaxItems
  BY TopIs DEF IInv, HeapOK, PtrTypeOK
<1>2. ASSUME NEW j \in 1..MaxItems, Exists(<<c, j>>)
      PROVE  FALSE
  <2>1. <<c, j>> \in Slot /\ <<c, j>>[1] = c /\ <<c, j>>[2] = j
    BY <1>1, SlotIn
  <2>2. j <= size[c]
    BY <1>1, <1>2, <2>1 DEF SlotsOK
  <2>3. j < Top.next
    BY <1>1, <2>2 DEF ObjCount
  <2>4. ptr[<<c, j>>] = Gone
    BY <1>1, <2>3 DEF FramesOK
  <2> QED BY <1>2, <2>4 DEF Exists
<1>3. ASSUME NEW h \in Handle, ptr[h] = c
      PROVE  h = Top.by
  <2>1. c \in alloc \ lost /\ count[c] = 0
    BY <1>1 DEF FramesOK
  <2>2. Holders(c) = {}
    BY <2>1, CountIs, NoHolders, HoldersSubset
  <2>3. h \in Releasing
    BY <1>3, <2>2 DEF Holders
  <2>4. PICK k \in DOMAIN frames : frames[k].by = h
    BY <2>3 DEF Releasing
  <2>5. frames[k].ctx = c
    BY <1>1, <1>3, <2>4, ObjPtrAssumption DEF FramesOK
  <2>6. k = n
    BY <1>1, <2>5 DEF FramesOK
  <2> QED BY <1>1, <2>4, <2>6
<1> QED BY <1>2, <1>3

LEMMA RecycleKeeps ==
  ASSUME IInv, Recycle
  PROVE  IInv'
<1> DEFINE n == Len(frames)
           c == Top.ctx
           h == Top.by
<1>1. /\ fault = "none" /\ frames # <<>>
      /\ PtrTypeOK /\ CountExact /\ FramesOK /\ CascadeOK /\ SlotsOK /\ PointersOK
      /\ TaskOK /\ SourceOK
      /\ alloc' = alloc \ {c}
      /\ size' = [size EXCEPT ![c] = 0]
      /\ frames' = SubSeq(frames, 1, n - 1)
      /\ UNCHANGED <<count, task, lost>>
  BY DEF IInv, HeapOK, Recycle
<1>2. /\ n \in DOMAIN frames /\ n \in Nat \ {0} /\ DOMAIN frames = 1..n
      /\ Top = frames[n]
      /\ frames \in Seq(Frame)
      /\ h \in Handle /\ c \in Ctx
      /\ ptr \in [Handle -> Ctx \cup {Null, Gone}]
      /\ c \in alloc \ lost
      /\ ptr[h] \in {c, Gone}
  BY <1>1, TopIs DEF PtrTypeOK, FramesOK
<1>3. /\ frames' \in Seq(Frame)
      /\ DOMAIN frames' = 1..n - 1
      /\ \A k \in 1..n - 1 : frames'[k] = frames[k]
      /\ n = 1 <=> frames' = <<>>
  <2>1. /\ frames' \in Seq(Frame) /\ Len(frames') = n - 1
        /\ DOMAIN frames' = 1..n - 1
        /\ \A k \in 1..n - 1 : frames'[k] = frames[k]
    BY <1>1, <1>2, FramesFront
  <2>2. Len(frames') = 0 <=> frames' = <<>>
    BY <2>1
  <2> QED BY <1>2, <2>1, <2>2
<1>4. /\ \A j \in 1..MaxItems : ~Exists(<<c, j>>)
      /\ \A g \in Handle : ptr[g] = c => g = h
  BY <1>1, LastOfContext DEF Recycle
<1>5. /\ \A g \in Handle : g # h => ptr'[g] = ptr[g]
      /\ IF Exists(h) THEN ptr'[h] = Null /\ fault' = "none"
         ELSE ptr'[h] = Gone /\ ptr' = ptr /\ fault' = "dead"
      /\ ptr' \in [Handle -> Ctx \cup {Null, Gone}]
  <2>1. CASE Exists(h)
    <3>1. ptr' = [ptr EXCEPT ![h] = Null] /\ fault' = "none"
      BY <1>1, <2>1 DEF Recycle
    <3> QED BY <1>2, <2>1, <3>1
  <2>2. CASE ~Exists(h)
    <3>1. ptr' = ptr /\ fault' = "dead"
      BY <2>2 DEF Recycle
    <3> QED BY <1>2, <2>2, <3>1 DEF Exists
  <2> QED BY <2>1, <2>2
<1>6. PtrTypeOK'
  <2>1. fault' \in Faults
    BY <1>5 DEF Faults
  <2>2. size' \in [Ctx -> 0..MaxItems]
    <3>1. 0 \in 0..MaxItems /\ size \in [Ctx -> 0..MaxItems]
      BY <1>1, ObjPtrAssumption DEF PtrTypeOK
    <3> QED BY <1>1, <3>1
  <2>3. alloc' \in SUBSET Ctx /\ lost' \in SUBSET alloc'
    BY <1>1, <1>2 DEF PtrTypeOK
  <2> QED BY <1>1, <1>3, <1>5, <2>1, <2>2, <2>3 DEF PtrTypeOK
<1>7. CountExact'
  <2>1. ASSUME NEW d \in alloc' \ lost
        PROVE  count[d] = Cardinality(Holders(d)')
    <3>1. d \in alloc \ lost /\ d # c /\ d \in Ctx
      BY <1>1 DEF PtrTypeOK
    <3>2. ptr[h] # d /\ ptr'[h] # d
      BY <1>2, <1>5, <3>1, ObjPtrAssumption
    <3>3. \A g \in Handle : g # h => (g \in Releasing <=> g \in Releasing')
      <4>1. ASSUME NEW g \in Handle, g # h, g \in Releasing
            PROVE  g \in Releasing'
        <5>1. PICK k \in DOMAIN frames : frames[k].by = g
          BY <4>1 DEF Releasing
        <5>2. k # n
          BY <1>2, <4>1, <5>1
        <5>3. k \in DOMAIN frames' /\ frames'[k].by = g
          BY <1>2, <1>3, <5>1, <5>2
        <5> QED BY <5>3 DEF Releasing
      <4>2. ASSUME NEW g \in Handle, g \in Releasing'
            PROVE  g \in Releasing
        <5>1. PICK k \in DOMAIN frames' : frames'[k].by = g
          BY <4>2 DEF Releasing
        <5>2. k \in DOMAIN frames /\ frames[k].by = g
          BY <1>2, <1>3, <5>1
        <5> QED BY <5>2 DEF Releasing
      <4> QED BY <4>1, <4>2
    <3>4. Holders(d)' = Holders(d)
      BY <1>5, <3>2, <3>3 DEF Holders
    <3> QED BY <1>1, <3>1, <3>4, CountIs
  <2> QED BY <1>1, <2>1 DEF CountExact
<1>8. ASSUME fault' = "none"
      PROVE  HeapOK'
  <2>1. /\ Exists(h) /\ ptr[h] = c /\ ptr'[h] = Null
    BY <1>2, <1>5, <1>8 DEF Exists
  <2>2. \A k \in 1..n - 1 : /\ frames[k].by \in Handle /\ frames[k].ctx \in Ctx
                           /\ frames[k].ctx # c /\ frames[k].by # h
    <3>1. ASSUME NEW k \in 1..n - 1
          PROVE  /\ frames[k].by \in Handle /\ frames[k].ctx \in Ctx
                 /\ frames[k].ctx # c /\ frames[k].by # h
      <4>1. k \in DOMAIN frames /\ k # n
        BY <1>2, FramesFront
      <4>2. frames[k].ctx # c
        BY <1>1, <1>2, <4>1 DEF FramesOK
      <4>3. ptr[frames[k].by] \in {frames[k].ctx, Gone}
        BY <1>1, <4>1 DEF FramesOK
      <4> QED BY <1>2, <2>1, <4>1, <4>2, <4>3, FrameParts, ObjPtrAssumption
    <3> QED BY <3>1
  <2>3. FramesOK'
    <3>1. ASSUME NEW k \in DOMAIN frames'
          PROVE  /\ frames'[k].ctx \in alloc' \ lost
                 /\ count[frames'[k].ctx] = 0
                 /\ ptr'[frames'[k].by] \in {frames'[k].ctx, Gone}
                 /\ frames'[k].next >= 1
      <4>1. k \in DOMAIN frames /\ k \in 1..n - 1 /\ frames'[k] = frames[k]
        BY <1>2, <1>3
      <4>2. /\ frames[k].ctx \in alloc \ lost
            /\ count[frames[k].ctx] = 0
            /\ ptr[frames[k].by] \in {frames[k].ctx, Gone}
            /\ frames[k].next >= 1
        BY <1>1, <4>1 DEF FramesOK
      <4>3. frames[k].ctx # c /\ ptr'[frames[k].by] = ptr[frames[k].by]
        BY <1>5, <2>2, <4>1
      <4> QED BY <1>1, <4>1, <4>2, <4>3
    <3>2. ASSUME NEW k \in DOMAIN frames', NEW j \in 1..MaxItems, j < frames'[k].next
          PROVE  ptr'[<<frames'[k].ctx, j>>] = Gone
      <4>1. k \in DOMAIN frames /\ k \in 1..n - 1 /\ frames'[k] = frames[k]
        BY <1>2, <1>3
      <4>2. ptr[<<frames[k].ctx, j>>] = Gone
        BY <1>1, <3>2, <4>1 DEF FramesOK
      <4>3. <<frames[k].ctx, j>> \in Handle /\ <<frames[k].ctx, j>> # h
        BY <2>1, <2>2, <4>1, <4>2, SlotIn DEF Exists
      <4> QED BY <1>5, <4>1, <4>2, <4>3
    <3>3. \A k, l \in DOMAIN frames' : frames'[k].ctx = frames'[l].ctx => k = l
      BY <1>1, <1>2, <1>3 DEF FramesOK
    <3> QED BY <1>1, <3>1, <3>2, <3>3 DEF FramesOK
  <2>4. CascadeOK'
    <3>1. ASSUME NEW k \in DOMAIN frames', k > 1
          PROVE  /\ k \in DOMAIN frames
                 /\ frames'[k] = frames[k] /\ frames'[k - 1] = frames[k - 1]
      BY <1>2, <1>3, <3>1
    <3> QED BY <1>1, <3>1 DEF CascadeOK
  <2>5. SlotsOK'
    <3>1. ASSUME NEW s \in Slot, Exists(s)'
          PROVE  s[1] \in alloc' /\ s[2] <= size'[s[1]]
      <4>1. s \in Handle /\ s[1] \in Ctx /\ s[2] \in 1..MaxItems /\ s = <<s[1], s[2]>>
        BY SlotParts
      <4>2. Exists(s)
        BY <1>5, <2>1, <3>1, <4>1 DEF Exists
      <4>3. s[1] # c
        BY <1>4, <4>1, <4>2
      <4>4. s[1] \in alloc /\ s[2] <= size[s[1]]
        BY <1>1, <4>2 DEF SlotsOK
      <4> QED BY <1>1, <4>1, <4>3, <4>4 DEF PtrTypeOK
    <3> QED BY <3>1 DEF SlotsOK
  <2>6. PointersOK'
    <3>1. ASSUME NEW g \in Handle, ptr'[g] \in Ctx
          PROVE  ptr'[g] \in alloc' \ lost
      <4>1. g # h
        BY <2>1, <3>1, ObjPtrAssumption
      <4>2. ptr'[g] = ptr[g] /\ ptr[g] # c
        BY <1>4, <1>5, <4>1
      <4> QED BY <1>1, <3>1, <4>2 DEF PointersOK
    <3> QED BY <1>1, <3>1 DEF PointersOK
  <2>7. TaskOK'
    <3>1. CASE n = 1
      BY <1>1, <1>2, <1>3, <2>1, <3>1 DEF TaskOK
    <3>2. CASE n # 1
      <4>1. 1 \in 1..n - 1 /\ frames'[1] = frames[1] /\ frames' # <<>>
        BY <1>2, <1>3, <3>2
      <4> QED BY <1>1, <4>1 DEF TaskOK
    <3> QED BY <3>1, <3>2
  <2>8. SourceOK'
    <3>1. SUFFICES ASSUME task.op = "assign", task.from # task.to
                   PROVE  \/ ptr'[task.from] \in {task.was, Gone}
                          \/ \E k \in DOMAIN frames', j \in 1..MaxItems :
                                task.from = <<frames'[k].ctx, j>>
      BY <1>1 DEF SourceOK
    <3>2. task.from \in Handle /\ task # Idle
      BY <1>1, <3>1 DEF PtrTypeOK, Task, Idle
    <3>3. CASE task.from = h
      <4>1. n # 1
        BY <1>1, <1>2, <3>1, <3>2, <3>3 DEF TaskOK
      <4>2. /\ frames[n - 1].next \in 1..MaxItems
            /\ h = <<frames[n - 1].ctx, frames[n - 1].next>>
        BY <1>1, <1>2, <4>1 DEF CascadeOK
      <4>3. n - 1 \in DOMAIN frames' /\ frames'[n - 1] = frames[n - 1]
        BY <1>2, <1>3, <4>1
      <4> QED BY <3>3, <4>2, <4>3
    <3>4. CASE task.from # h
      <4>1. ptr'[task.from] = ptr[task.from]
        BY <1>5, <3>2, <3>4
      <4>2. ASSUME NEW j \in 1..MaxItems, task.from = <<frames[n].ctx, j>>
            PROVE  ptr[task.from] = Gone
        BY <1>2, <1>4, <4>2 DEF Exists
      <4>3. ASSUME NEW k \in DOMAIN frames, NEW j \in 1..MaxItems, k # n,
                   task.from = <<frames[k].ctx, j>>
            PROVE  \E l \in DOMAIN frames' : task.from = <<frames'[l].ctx, j>>
        BY <1>2, <1>3, <4>3
      <4> QED BY <1>1, <3>1, <4>1, <4>2, <4>3 DEF SourceOK
    <3> QED BY <3>3, <3>4
  <2> QED BY <2>3, <2>4, <2>5, <2>6, <2>7, <2>8 DEF HeapOK
<1> QED BY <1>6, <1>7, <1>8 DEF IInv

-----------------------------------------------------------------------------
(***************************************************************************)
(* The end of an operation.                                                *)
(***************************************************************************)
LEMMA FinishBegins ==
  ASSUME IInv, Finish
  PROVE  /\ fault = "none" /\ frames = <<>> /\ frames' = <<>> /\ DOMAIN frames' = {}
         /\ task # Idle /\ task \in Task
         /\ task.to \in Handle /\ task.from \in Handle
         /\ ptr[task.to] = Null /\ ptr[task.to] \notin Ctx
         /\ PtrTypeOK /\ CountExact /\ FramesOK /\ SlotsOK /\ PointersOK /\ SourceOK
         /\ UNCHANGED <<alloc, size, frames, lost>>
<1>1. /\ fault = "none" /\ frames = <<>> /\ task # Idle
      /\ UNCHANGED <<alloc, size, frames, lost>>
  BY DEF Finish
<1>2. PtrTypeOK /\ CountExact /\ FramesOK /\ SlotsOK /\ PointersOK /\ SourceOK /\ TaskOK
  BY <1>1 DEF IInv, HeapOK
<1>3. task \in Task /\ task.to \in Handle /\ task.from \in Handle
  BY <1>1, <1>2 DEF PtrTypeOK, Task
<1>4. ptr[task.to] = Null
  BY <1>1, <1>2 DEF TaskOK
<1> QED BY <1>1, <1>2, <1>3, <1>4, ObjPtrAssumption

LEMMA DestroyedKeeps ==
  ASSUME IInv, Finish, Destroyed
  PROVE  IInv'
<1> DEFINE h == task.to
<1>1. /\ ptr' = [ptr EXCEPT ![h] = Gone]
      /\ task' = Idle
      /\ UNCHANGED <<count, fault>>
  BY DEF Destroyed
<1>2. PtrTypeOK'
  BY <1>1, FinishBegins DEF PtrTypeOK, Task
<1>3. CountExact'
  <2>1. ASSUME NEW c \in alloc \ lost
        PROVE  count[c] = Cardinality(Holders(c)')
    <3>1. c \in Ctx /\ c # Gone
      BY FinishBegins, ObjPtrAssumption DEF PtrTypeOK
    <3>2. Holders(c)' = Holders(c)
      BY <1>1, <3>1, FinishBegins, SetPointer
    <3> QED BY <3>2, FinishBegins, CountIs
  <2> QED BY <1>1, <2>1, FinishBegins DEF CountExact
<1>4. SlotsOK'
  BY <1>1, FinishBegins, PointerSlots
<1>5. PointersOK'
  BY <1>1, FinishBegins, ObjPtrAssumption DEF PointersOK, PtrTypeOK
<1>6. Quiet'
  BY <1>1, FinishBegins DEF Quiet
<1> QED BY <1>2, <1>3, <1>4, <1>5, <1>6, QuietHeap DEF IInv

LEMMA AssignedKeeps ==
  ASSUME IInv, Finish, Assigned
  PROVE  IInv'
<1> DEFINE h == task.to
           v == ptr[task.from]
<1>1. /\ ptr' = [ptr EXCEPT ![h] = v]
      /\ task' = Idle
      /\ v # Gone
      /\ v \in Ctx \cup {Null}
      /\ ptr \in [Handle -> Ctx \cup {Null, Gone}]
      /\ count \in [Ctx -> 0..Limit]
      /\ alloc \subseteq Ctx
      /\ fault = "none"
  BY FinishBegins DEF Assigned, Exists, PtrTypeOK
<1>2. \A c \in Ctx : /\ h \notin Holders(c)
                     /\ Holders(c)' = IF v = c THEN Holders(c) \cup {h} ELSE Holders(c)
  BY <1>1, FinishBegins, SetPointer
<1>3. SlotsOK'
  <2>1. Exists(h)
    BY FinishBegins, ObjPtrAssumption DEF Exists
  <2> QED BY <1>1, <2>1, FinishBegins, PointerSlots
<1>4. PointersOK'
  BY <1>1, FinishBegins, ObjPtrAssumption DEF PointersOK
<1>5. ptr' \in [Handle -> Ctx \cup {Null, Gone}] /\ task' \in Task
  BY <1>1 DEF Task
<1>6. \A c \in alloc \ lost : c \in Ctx /\ count[c] = Cardinality(Holders(c))
  BY <1>1, CountIs
<1>7. CASE v = Null
  <2>1. UNCHANGED <<count, fault>>
    BY <1>7, ObjPtrAssumption DEF Assigned
  <2>2. PtrTypeOK'
    BY <1>5, <2>1, FinishBegins DEF PtrTypeOK
  <2>3. CountExact'
    BY <1>2, <1>6, <1>7, <2>1, FinishBegins, ObjPtrAssumption DEF CountExact
  <2>4. Quiet'
    BY <1>1, <2>1, FinishBegins DEF Quiet
  <2> QED BY <1>3, <1>4, <2>2, <2>3, <2>4, QuietHeap DEF IInv
<1>8. CASE v \in Ctx /\ count[v] # Limit
  <2>1. count' = [count EXCEPT ![v] = @ + 1] /\ fault' = fault
    BY <1>8, ObjPtrAssumption DEF Assigned
  <2>2. PtrTypeOK'
    <3>1. count[v] \in 0..Limit
      BY <1>1, <1>8
    <3>2. count[v] + 1 \in 0..Limit
      BY <1>8, <3>1, ObjPtrAssumption
    <3>3. count' \in [Ctx -> 0..Limit]
      BY <1>1, <2>1, <3>2
    <3> QED BY <1>5, <2>1, <3>3, FinishBegins DEF PtrTypeOK
  <2>3. CountExact'
    <3>1. ASSUME NEW c \in alloc \ lost
          PROVE  count'[c] = Cardinality(Holders(c)')
      <4>1. CASE c = v
        <5>1. Cardinality(Holders(c)') = Cardinality(Holders(c)) + 1
          BY <1>2, <1>6, <4>1, AddHolder, HoldersSubset
        <5>2. count'[c] = count[c] + 1
          BY <1>1, <1>6, <2>1, <4>1
        <5> QED BY <1>6, <5>1, <5>2
      <4>2. CASE c # v
        BY <1>1, <1>2, <1>6, <2>1, <4>2
      <4> QED BY <4>1, <4>2
    <3> QED BY <3>1, FinishBegins DEF CountExact
  <2>4. Quiet'
    BY <1>1, <2>1, FinishBegins DEF Quiet
  <2> QED BY <1>3, <1>4, <2>2, <2>3, <2>4, QuietHeap DEF IInv
<1>9. CASE v \in Ctx /\ count[v] = Limit
  <2>1. count' = count /\ fault' = "overflow"
    BY <1>9, ObjPtrAssumption DEF Assigned
  <2>2. PtrTypeOK'
    BY <1>5, <2>1, FinishBegins DEF PtrTypeOK, Faults
  <2>3. CountExact'
    <3>1. ASSUME NEW c \in alloc \ lost
          PROVE  \/ count[c] = Cardinality(Holders(c)')
                 \/ count[c] = Limit /\ Cardinality(Holders(c)') = Limit + 1
      <4>1. CASE c = v
        <5>1. Cardinality(Holders(c)') = Cardinality(Holders(c)) + 1
          BY <1>2, <1>6, <4>1, AddHolder, HoldersSubset
        <5> QED BY <1>6, <1>9, <4>1, <5>1
      <4>2. CASE c # v
        BY <1>2, <1>6, <4>2
      <4> QED BY <4>1, <4>2
    <3> QED BY <2>1, <3>1, FinishBegins DEF CountExact
  <2> QED BY <2>1, <2>2, <2>3 DEF IInv
<1> QED BY <1>1, <1>7, <1>8, <1>9

LEMMA SourceDiedKeeps ==
  ASSUME IInv, Finish, SourceDied
  PROVE  IInv'
<1>1. fault' = "dead" /\ UNCHANGED <<count, ptr, task>>
  BY DEF SourceDied
<1>2. PtrTypeOK'
  BY <1>1, FinishBegins DEF PtrTypeOK, Faults
<1>3. CountExact'
  BY <1>1, FinishBegins DEF CountExact, Holders, Releasing
<1> QED BY <1>1, <1>2, <1>3 DEF IInv

-----------------------------------------------------------------------------
LEMMA InitInv == PtrInit => IInv
<1> SUFFICES ASSUME PtrInit PROVE IInv
  OBVIOUS
<1>1. PtrTypeOK
  <2>1. <<>> \in Seq(Frame)
    OBVIOUS
  <2> QED BY <2>1, ObjPtrAssumption DEF PtrInit, PtrTypeOK, Task, Faults
<1>2. CountExact
  BY DEF PtrInit, CountExact
<1>3. HeapOK
  <2>1. Quiet /\ DOMAIN frames = {} /\ alloc = {} /\ ptr = [h \in Handle |-> Gone]
    BY DEF PtrInit, Quiet
  <2>2. SlotsOK
    BY <2>1, SlotParts DEF SlotsOK, Exists
  <2>3. PointersOK
    BY <2>1, ObjPtrAssumption DEF PointersOK
  <2> QED BY <2>1, <2>2, <2>3
      DEF HeapOK, FramesOK, CascadeOK, TaskOK, SourceOK, Quiet, Idle
<1> QED BY <1>1, <1>2, <1>3 DEF IInv

LEMMA NextInv == IInv /\ [PtrNext]_ptrVars => IInv'
<1> SUFFICES ASSUME IInv, [PtrNext]_ptrVars PROVE IInv'
  OBVIOUS
<1>1. ASSUME NEW h \in Handle, Construct(h) PROVE IInv'
  BY <1>1, ConstructKeeps
<1>2. ASSUME NEW h \in Handle, Destroy(h) PROVE IInv'
  BY <1>2, BeginKeeps DEF Destroy
<1>3. ASSUME NEW h \in Outer, NEW c \in Ctx, NEW n \in 0..MaxItems, Create(h, c, n) PROVE IInv'
  BY <1>3, CreateKeeps
<1>4. ASSUME NEW c \in Ctx, CreateFails(c) PROVE IInv'
  BY <1>4, CreateFailsKeeps
<1>5. ASSUME NEW h \in Handle, NEW s \in Handle, Copy(h, s) PROVE IInv'
  BY <1>5, CopyKeeps
<1>6. ASSUME NEW h \in Handle, NEW s \in Handle, Assign(h, s) PROVE IInv'
  BY <1>6, BeginKeeps DEF Assign
<1>7. CASE DestroyItem
  BY <1>7, DestroyItemKeeps
<1>8. CASE Recycle
  BY <1>8, RecycleKeeps
<1>9. CASE Finish
  BY <1>9, DestroyedKeeps, AssignedKeeps, SourceDiedKeeps DEF Finish
<1>10. CASE UNCHANGED ptrVars
  <2>1. PtrTypeOK'
    BY <1>10 DEF IInv, PtrTypeOK, ptrVars
  <2>2. CountExact'
    BY <1>10 DEF IInv, CountExact, Holders, Releasing, ptrVars
  <2>3. fault' = "none" => FramesOK' /\ CascadeOK' /\ SlotsOK'
    BY <1>10 DEF IInv, HeapOK, FramesOK, CascadeOK, SlotsOK, Exists, ptrVars
  <2>4. fault' = "none" => PointersOK' /\ TaskOK' /\ SourceOK'
    BY <1>10 DEF IInv, HeapOK, PointersOK, TaskOK, SourceOK, ptrVars
  <2> QED BY <2>1, <2>2, <2>3, <2>4 DEF IInv, HeapOK
<1> QED BY <1>1, <1>2, <1>3, <1>4, <1>5, <1>6, <1>7, <1>8, <1>9, <1>10 DEF PtrNext, Free

LEMMA Invariance == PtrSpec => []IInv
BY InitInv, NextInv, PTL DEF PtrSpec

(* The model of the handles is well typed (obj_base.h, obj_ptr).           *)
THEOREM PtrTypeCorrect == PtrSpec => []PtrTypeOK
<1>1. IInv => PtrTypeOK
  BY DEF IInv
<1> QED BY <1>1, Invariance, PTL

(* For any number of contexts, objects and handles: no handle points to    *)
(* recycled memory, and no handle outlives the object it lies in, as long  *)
(* as the code is on defined ground (obj_base.h, operator =, release,      *)
(* freeCtx).                                                               *)
THEOREM NeverDangling == PtrSpec => []NoDangling
<1>1. IInv => NoDangling
  BY DEF IInv, HeapOK, PointersOK, SlotsOK, NoDangling
<1> QED BY <1>1, Invariance, PTL

(* mRefCount is exact for any number of handles and any limit, with the    *)
(* one exception addRef() throws for (obj_base.h, addRef and release).     *)
THEOREM CountsExactly == PtrSpec => []CountExact
<1>1. IInv => CountExact
  BY DEF IInv
<1> QED BY <1>1, Invariance, PTL

LEMMA AssignStep ==
  ASSUME IInv, [PtrNext]_ptrVars, task.op = "assign", task' = Idle
  PROVE  ptr'[task.to] = IF task.to = task.from THEN Null ELSE task.was
<1>1. task # Idle /\ task # task'
  BY DEF Idle
<1>2. /\ \A h \in Handle : ~Construct(h) /\ ~Destroy(h)
      /\ \A h, s \in Handle : ~Copy(h, s) /\ ~Assign(h, s)
      /\ \A h \in Outer, c \in Ctx, n \in 0..MaxItems : ~Create(h, c, n)
      /\ \A c \in Ctx : ~CreateFails(c)
  BY <1>1 DEF Construct, Destroy, Copy, Assign, Begin, Create, CreateFails, Quiet
<1>3. ~DestroyItem /\ ~Recycle /\ ~UNCHANGED ptrVars
  BY <1>1 DEF DestroyItem, Recycle, ptrVars
<1>4. Finish
  BY <1>2, <1>3 DEF PtrNext, Free
<1>5. Assigned
  BY <1>1, <1>4 DEF Finish, Destroyed, SourceDied
<1>6. ptr'[task.to] = ptr[task.from] /\ ptr[task.from] # Gone
  BY <1>4, <1>5, FinishBegins DEF Assigned, Exists, PtrTypeOK
<1>7. CASE task.to = task.from
  BY <1>4, <1>6, <1>7, FinishBegins
<1>8. CASE task.to # task.from
  <2>1. DOMAIN frames = {}
    BY <1>4, FinishBegins
  <2>2. ptr[task.from] \in {task.was, Gone}
    BY <1>4, <1>8, <2>1, FinishBegins DEF SourceOK
  <2> QED BY <1>6, <1>8, <2>2
<1> QED BY <1>7, <1>8

(* An assignment that comes to its end gives the target what the source    *)
(* pointed to when it began, however many objects were destroyed meanwhile;*)
(* only to itself a handle is not assigned but reset (obj_base.h,          *)
(* operator =).                                                            *)
THEOREM AssignsFaithfully == PtrSpec => AssignFaithful
<1>1. IInv /\ [PtrNext]_ptrVars =>
      [(task.op = "assign" /\ task' = Idle)
         => ptr'[task.to] = IF task.to = task.from THEN Null ELSE task.was]_ptrVars
  BY AssignStep
<1> QED BY <1>1, Invariance, PTL DEF PtrSpec, AssignFaithful

-----------------------------------------------------------------------------
(***************************************************************************)
(* Reach: the contexts that can be reached from the client's handles.      *)
(***************************************************************************)
(* A set of numbers with 0 and all successors is the set of all numbers.   *)
LEMMA AllNumbers ==
  ASSUME NEW S \in SUBSET Nat, 0 \in S, \A n \in S : n + 1 \in S
  PROVE  S = Nat
<1> DEFINE Before == {ss \in Nat \X Nat : ss[1] < ss[2]}
           T == Nat \ S
<1>1. IsWellFoundedOn(Before, Nat)
  <2>1. Before = OpToRel(<, Nat)
    BY Zenon DEF OpToRel
  <2> QED BY <2>1, NatLessThanWellFounded, Zenon
<1>2. \A n \in Nat : <<n, n + 1>> \in Before
  <2> SUFFICES ASSUME NEW n \in Nat
               PROVE  <<n, n + 1>> \in {ss \in Nat \X Nat : ss[1] < ss[2]}
    OBVIOUS
  <2> QED OBVIOUS
<1> HIDE DEF Before
<1>3. SUFFICES ASSUME T # {}  PROVE FALSE
  OBVIOUS
<1>4. PICK m \in T : \A n \in T : ~(<<n, m>> \in Before)
  BY <1>1, <1>3, WFMin, Zenon
<1>5. m - 1 \in Nat /\ m - 1 + 1 = m
  BY <1>4
<1>6. m - 1 \notin T
  BY <1>2, <1>4, <1>5
<1> QED BY <1>4, <1>5, <1>6

PointedBy(p, H) == {p[h] : h \in H} \cap Ctx
SlotsOf(X) == {s \in Slot : s[1] \in X}
Further(p, but, X) == X \cup PointedBy(p, SlotsOf(X) \ but)

(* The function Reach is the last value of. *)
Iterates(p, but, r, n) ==
  r = [k \in 0..n |-> IF k = 0 THEN PointedBy(p, Outer \ but)
                      ELSE Further(p, but, r[k - 1])]

LEMMA IteratesExist ==
  ASSUME NEW p, NEW but, NEW n \in Nat
  PROVE  \E r : Iterates(p, but, r, n)
<1> DEFINE S == {m \in Nat : \E r : Iterates(p, but, r, m)}
<1>1. 0 \in S
  <2> DEFINE r == [k \in 0..0 |-> PointedBy(p, Outer \ but)]
  <2>1. Iterates(p, but, r, 0)
    BY DEF Iterates
  <2> QED BY <2>1
<1>2. ASSUME NEW m \in S  PROVE m + 1 \in S
  <2>1. PICK q : Iterates(p, but, q, m)
    OBVIOUS
  <2> DEFINE r == [k \in 0..m + 1 |-> IF k = m + 1 THEN Further(p, but, q[m]) ELSE q[k]]
  <2>2. m \in Nat
    OBVIOUS
  <2>3. ASSUME NEW k \in 0..m + 1
        PROVE  r[k] = IF k = 0 THEN PointedBy(p, Outer \ but) ELSE Further(p, but, r[k - 1])
    <3>1. CASE k = m + 1
      <4>1. r[k - 1] = q[m] /\ k # 0 /\ r[k] = Further(p, but, q[m])
        BY <2>2, <3>1
      <4> QED BY <4>1
    <3>2. CASE k # m + 1
      <4>1. k \in 0..m /\ r[k] = q[k] /\ (k # 0 => k - 1 \in 0..m /\ r[k - 1] = q[k - 1])
        BY <2>2, <3>2
      <4>2. q[k] = IF k = 0 THEN PointedBy(p, Outer \ but) ELSE Further(p, but, q[k - 1])
        BY <2>1, <4>1 DEF Iterates
      <4> QED BY <4>1, <4>2
    <3> QED BY <3>1, <3>2
  <2> HIDE DEF r
  <2>4. r = [k \in 0..m + 1 |-> r[k]]
    BY DEF r
  <2>5. Iterates(p, but, r, m + 1)
    BY <2>3, <2>4, Zenon DEF Iterates
  <2> QED BY <2>2, <2>5
<1> HIDE DEF S
<1>3. S = Nat
  <2>1. S \in SUBSET Nat
    BY DEF S
  <2> QED BY <1>1, <1>2, <2>1, AllNumbers
<1> QED BY <1>3 DEF S

ReachBy(p, but) == (CHOOSE r : Iterates(p, but, r, Cardinality(Ctx)))[Cardinality(Ctx)]

LEMMA ReachIs == \A but : Reach(but) = ReachBy(ptr, but)
BY Zenon DEF Reach, ReachBy, Iterates, Further, PointedBy, SlotsOf

LEMMA ReachIsThen == \A but : Reach(but)' = ReachBy(ptr', but)
BY Zenon DEF Reach, ReachBy, Iterates, Further, PointedBy, SlotsOf

(* The values of that function, one after the other. *)
StepByStep(p, but, r, N) ==
  /\ N = Cardinality(Ctx) /\ N \in Nat
  /\ ReachBy(p, but) = r[N]
  /\ r[0] = PointedBy(p, Outer \ but)
  /\ \A k \in 0..N - 1 : r[k + 1] = Further(p, but, r[k])

LEMMA ReachSteps ==
  ASSUME NEW p, NEW but
  PROVE  \E r, N : StepByStep(p, but, r, N)
<1> DEFINE N == Cardinality(Ctx)
           r == CHOOSE q : Iterates(p, but, q, N)
<1>1. N \in Nat
  BY FS_CardinalityType, ObjPtrAssumption
<1>2. Iterates(p, but, r, N)
  BY <1>1, IteratesExist, Zenon
<1>3. ReachBy(p, but) = r[N]
  BY DEF ReachBy
<1> HIDE DEF r, N
<1>4. \A k \in 0..N : r[k] = IF k = 0 THEN PointedBy(p, Outer \ but)
                             ELSE Further(p, but, r[k - 1])
  BY <1>2, Zenon DEF Iterates
<1>5. ASSUME NEW k \in 0..N - 1  PROVE r[k + 1] = Further(p, but, r[k])
  <2>1. k + 1 \in 0..N /\ k + 1 # 0 /\ k + 1 - 1 = k
    BY <1>1
  <2>2. \A j \in 0..N : j # 0 => r[j] = Further(p, but, r[j - 1])
    BY <1>4
  <2> DEFINE j == k + 1
  <2>3. r[j] = Further(p, but, r[j - 1]) /\ j - 1 = k
    BY <2>1, <2>2
  <2> QED BY <2>3
<1>6. r[0] = PointedBy(p, Outer \ but)
  BY <1>1, <1>4
<1>7. StepByStep(p, but, r, N)
  <2>1. N = Cardinality(Ctx)
    BY DEF N
  <2> QED BY <1>1, <1>3, <1>5, <1>6, <2>1 DEF StepByStep
<1> QED BY <1>7

Closed(p, but, X) ==
  /\ X \subseteq Ctx
  /\ PointedBy(p, Outer \ but) \subseteq X
  /\ PointedBy(p, SlotsOf(X) \ but) \subseteq X

(* It is the least set that is closed: in as many steps as there are       *)
(* contexts everything that can be reached is reached.                     *)
LEMMA ReachLeast ==
  ASSUME NEW p, NEW but, NEW X, Closed(p, but, X)
  PROVE  ReachBy(p, but) \subseteq X
<1>0. PICK r, N : StepByStep(p, but, r, N)
  BY ReachSteps
<1>1. /\ N = Cardinality(Ctx) /\ N \in Nat
      /\ ReachBy(p, but) = r[N]
      /\ r[0] = PointedBy(p, Outer \ but)
      /\ \A k \in 0..N - 1 : r[k + 1] = Further(p, but, r[k])
  BY <1>0 DEF StepByStep
<1> DEFINE S == {m \in Nat : m <= N => r[m] \subseteq X}
<1>2. 0 \in S
  BY <1>1 DEF Closed
<1>3. ASSUME NEW m \in S  PROVE m + 1 \in S
  <2>1. SUFFICES ASSUME m + 1 <= N  PROVE r[m + 1] \subseteq X
    OBVIOUS
  <2>2. m \in Nat /\ m <= N /\ m \in 0..N - 1
    BY <1>1, <2>1
  <2>3. r[m] \subseteq X /\ r[m + 1] = Further(p, but, r[m])
    BY <1>1, <2>2
  <2>4. PointedBy(p, SlotsOf(r[m]) \ but) \subseteq PointedBy(p, SlotsOf(X) \ but)
    BY <2>3 DEF PointedBy, SlotsOf
  <2> QED BY <2>3, <2>4 DEF Further, Closed
<1> HIDE DEF S
<1>4. S = Nat
  <2>1. S \in SUBSET Nat
    BY DEF S
  <2> QED BY <1>2, <1>3, <2>1, AllNumbers
<1> QED BY <1>1, <1>4 DEF S

LEMMA ReachClosed ==
  ASSUME NEW p, NEW but
  PROVE  Closed(p, but, ReachBy(p, but))
<1>0. PICK r, N : StepByStep(p, but, r, N)
  BY ReachSteps
<1>1. /\ N = Cardinality(Ctx) /\ N \in Nat
      /\ ReachBy(p, but) = r[N]
      /\ r[0] = PointedBy(p, Outer \ but)
      /\ \A k \in 0..N - 1 : r[k + 1] = Further(p, but, r[k])
  BY <1>0 DEF StepByStep
<1> DEFINE Full(m) == /\ r[m] \subseteq Ctx
                      /\ PointedBy(p, Outer \ but) \subseteq r[m]
                      /\ PointedBy(p, SlotsOf(r[m]) \ but) \subseteq r[m] \/ Cardinality(r[m]) >= m
           S == {m \in Nat : m <= N => Full(m)}
<1>2. 0 \in S
  <2>1. r[0] \subseteq Ctx
    BY <1>1 DEF PointedBy
  <2>2. Cardinality(r[0]) \in Nat
    BY <2>1, FS_Subset, FS_CardinalityType, ObjPtrAssumption
  <2>3. Cardinality(r[0]) >= 0 /\ PointedBy(p, Outer \ but) \subseteq r[0]
    BY <1>1, <2>2
  <2>4. Full(0)
    BY <2>1, <2>3
  <2> QED BY <2>4
<1>3. ASSUME NEW m \in S  PROVE m + 1 \in S
  <2>1. SUFFICES ASSUME m + 1 <= N  PROVE Full(m + 1)
    OBVIOUS
  <2>2. m \in Nat /\ m <= N /\ m \in 0..N - 1
    BY <1>1, <2>1
  <2>3. Full(m) /\ r[m + 1] = Further(p, but, r[m])
    BY <1>1, <2>2
  <2>4. r[m] \subseteq r[m + 1] /\ r[m + 1] \subseteq Ctx
    BY <2>3 DEF Further, PointedBy
  <2>5. CASE PointedBy(p, SlotsOf(r[m]) \ but) \subseteq r[m]
    <3>1. r[m + 1] = r[m]
      BY <2>3, <2>5 DEF Further
    <3>2. PointedBy(p, SlotsOf(r[m + 1]) \ but) \subseteq r[m + 1]
      BY <2>5, <3>1
    <3> QED BY <2>3, <2>4, <3>2
  <2>6. CASE ~(PointedBy(p, SlotsOf(r[m]) \ but) \subseteq r[m])
    <3>1. PICK c \in r[m + 1] : c \notin r[m]
      BY <2>3, <2>6 DEF Further
    <3>2. IsFiniteSet(r[m]) /\ IsFiniteSet(r[m + 1])
      BY <2>3, <2>4, FS_Subset, ObjPtrAssumption
    <3>3. Cardinality(r[m] \cup {c}) = Cardinality(r[m]) + 1
      BY <3>1, <3>2, FS_AddElement
    <3>4. Cardinality(r[m] \cup {c}) <= Cardinality(r[m + 1])
      <4>1. r[m] \cup {c} \subseteq r[m + 1]
        BY <2>4, <3>1
      <4> QED BY <3>2, <4>1, FS_Subset
    <3>5. Cardinality(r[m]) \in Nat /\ Cardinality(r[m + 1]) \in Nat
      BY <3>2, FS_CardinalityType
    <3>6. Cardinality(r[m]) >= m
      BY <2>3, <2>6
    <3>7. Cardinality(r[m + 1]) >= m + 1
      BY <2>2, <3>3, <3>4, <3>5, <3>6
    <3> QED BY <2>3, <2>4, <3>7
  <2> QED BY <2>5, <2>6
<1> HIDE DEF S
<1>4. S = Nat
  <2>1. S \in SUBSET Nat
    BY DEF S
  <2> QED BY <1>2, <1>3, <2>1, AllNumbers
<1>5. Full(N)
  <2>1. N \in S /\ N <= N
    BY <1>1, <1>4
  <2> QED BY <2>1 DEF S
<1>6. PointedBy(p, SlotsOf(r[N]) \ but) \subseteq r[N]
  <2>1. CASE Cardinality(r[N]) >= N
    <3>1. r[N] = Ctx
      BY <1>1, <1>5, <2>1, FS_Subset, FS_CardinalityType, ObjPtrAssumption
    <3> QED BY <3>1 DEF PointedBy
  <2> QED BY <1>5, <2>1
<1> QED BY <1>1, <1>5, <1>6 DEF Closed

(* What changes no handle on the way changes nothing. *)
LEMMA ReachStable ==
  ASSUME NEW p, NEW q, NEW but,
         \A h \in Outer \ but : p[h] = q[h],
         \A s \in Slot \ but : s[1] \in ReachBy(p, but) => p[s] = q[s]
  PROVE  ReachBy(q, but) = ReachBy(p, but)
<1> DEFINE R == ReachBy(p, but)
           Q == ReachBy(q, but)
<1>1. Closed(p, but, R) /\ Closed(q, but, Q)
  BY ReachClosed
<1> HIDE DEF R, Q
<1>2. \A h \in Outer \ but : p[h] = q[h]
  OBVIOUS
<1>3. \A s \in Slot \ but : s[1] \in R => p[s] = q[s]
  BY DEF R
<1>4. Closed(q, but, R)
  BY <1>1, <1>2, <1>3 DEF Closed, PointedBy, SlotsOf
<1>5. Q \subseteq R
  BY <1>4, ReachLeast DEF Q
<1>6. Closed(p, but, Q)
  BY <1>1, <1>2, <1>3, <1>5 DEF Closed, PointedBy, SlotsOf
<1>7. R \subseteq Q
  BY <1>6, ReachLeast DEF R
<1> QED BY <1>5, <1>7 DEF R, Q

(* Nothing is reached that no handle on the way points to. *)
LEMMA ReachHeld ==
  ASSUME NEW p, NEW but, NEW c \in ReachBy(p, but)
  PROVE  \E h \in Handle \ but : /\ p[h] = c
                                 /\ h \in Outer \/ (h \in Slot /\ h[1] \in ReachBy(p, but))
<1> DEFINE R == ReachBy(p, but)
           X == {d \in R : \E h \in Handle \ but : /\ p[h] = d
                                                   /\ h \in Outer \/ (h \in Slot /\ h[1] \in R)}
<1>1. Closed(p, but, R)
  BY ReachClosed
<1> HIDE DEF R
<1>2. Closed(p, but, X)
  <2>1. X \subseteq Ctx
    BY <1>1 DEF Closed
  <2>2. PointedBy(p, Outer \ but) \subseteq X
    <3>1. ASSUME NEW h \in Outer \ but, p[h] \in Ctx  PROVE p[h] \in X
      <4>1. p[h] \in R
        BY <1>1, <3>1 DEF Closed, PointedBy
      <4>2. h \in Handle \ but
        BY DEF Handle
      <4> QED BY <4>1, <4>2
    <3> HIDE DEF X
    <3> QED BY <3>1 DEF PointedBy
  <2>3. PointedBy(p, SlotsOf(X) \ but) \subseteq X
    BY <1>1 DEF Closed, PointedBy, SlotsOf, Handle
  <2> QED BY <2>1, <2>2, <2>3 DEF Closed
<1>3. R \subseteq X
  BY <1>2, ReachLeast DEF R
<1> QED BY <1>3 DEF R

-----------------------------------------------------------------------------
(***************************************************************************)
(* Between operations exactly what can be reached is left.                 *)
(***************************************************************************)
(* A context without handles is being freed, and one that was lost has no  *)
(* objects.                                                                *)
CountsLive ==
  fault = "none" =>
     /\ \A c \in alloc \ lost : count[c] = 0 => \E k \in DOMAIN frames : frames[k].ctx = c
     /\ \A c \in lost : size[c] = 0

(* What is freed is what a handle in the context one level up pointed to,  *)
(* and that handle is still there.                                         *)
NestedOK ==
  fault = "none" =>
     /\ frames # <<>> => task # Idle
     /\ \A k \in DOMAIN frames : k > 1 => ptr[frames[k].by] = frames[k].ctx

(* What the two handles of an operation lie in is not freed on the way, if *)
(* other handles than the target lead there.                               *)
Spared ==
  fault = "none" /\ task # Idle /\ ~task.doomed =>
     /\ Exists(task.to) /\ Exists(task.from)
     /\ \A x \in {task.to, task.from} \cap Slot : x[1] \in Reach({task.to})
     /\ \A k \in DOMAIN frames : frames[k].ctx \notin Reach({task.to})

KeepInv == CountsLive /\ NestedOK /\ Spared /\ DeadOnlyIfDoomed

LEMMA KeptIfLive ==
  ASSUME IInv, CountsLive
  PROVE  KeptExactly
<1> SUFFICES ASSUME Quiet, Acyclic  PROVE alloc \ lost = Reach({})
  BY DEF KeptExactly
<1> DEFINE R == ReachBy(ptr, {})
           U == (alloc \ lost) \ R
<1>1. /\ fault = "none" /\ frames = <<>> /\ DOMAIN frames = {}
      /\ SlotsOK /\ PointersOK
      /\ alloc \subseteq Ctx /\ lost \subseteq alloc
      /\ ptr \in [Handle -> Ctx \cup {Null, Gone}]
      /\ Releasing = {}
  BY QuietReleasing DEF Quiet, IInv, HeapOK, PtrTypeOK
<1>2. Closed(ptr, {}, R)
  BY ReachClosed
<1>3. R \subseteq alloc \ lost
  <2>1. Closed(ptr, {}, alloc \ lost)
    BY <1>1, SlotParts DEF Closed, PointedBy, SlotsOf, PointersOK, Handle
  <2> QED BY <2>1, ReachLeast
<1> HIDE DEF R
<1>4. ASSUME NEW c \in U
      PROVE  \E s \in Slot : s[1] \in U /\ ptr[s] = c
  <2>1. count[c] # 0
    BY <1>1, <1>4 DEF CountsLive
  <2>2. PICK h \in Handle : ptr[h] = c
    <3>1. Holders(c) # {}
      BY <1>1, <2>1, CountIs, NoHolders, HoldersSubset
    <3> QED BY <3>1 DEF Holders
  <2>3. c \in Ctx /\ c \notin R /\ c # Gone
    BY <1>1, ObjPtrAssumption
  <2>4. h \notin Outer
    BY <1>2, <2>2, <2>3 DEF Closed, PointedBy
  <2>5. h \in Slot
    BY <2>4 DEF Handle
  <2>6. h[1] \notin R
    BY <1>2, <2>2, <2>3, <2>5 DEF Closed, PointedBy, SlotsOf
  <2>7. h[1] \in alloc /\ h[2] <= size[h[1]]
    BY <1>1, <2>2, <2>3, <2>5 DEF SlotsOK, Exists
  <2>8. h[1] \notin lost
    <3>1. h[2] \in Nat /\ h[2] # 0
      BY <2>5, SlotParts, ObjPtrAssumption
    <3>2. h[1] \in lost => size[h[1]] = 0
      BY <1>1 DEF CountsLive
    <3> QED BY <2>7, <3>1, <3>2
  <2> QED BY <2>2, <2>5, <2>6, <2>7, <2>8
<1>5. U = {}
  <2>1. U \in SUBSET alloc
    OBVIOUS
  <2>2. \A c \in U : c \in Ctx
    BY <1>1
  <2> HIDE DEF U
  <2>3. U \subseteq {ptr[s] : s \in {t \in Slot : t[1] \in U}} \cap Ctx
    BY <1>4, <2>2
  <2> QED BY <2>1, <2>3 DEF Acyclic
<1> QED BY <1>3, <1>5, ReachIs DEF R

-----------------------------------------------------------------------------
(***************************************************************************)
(* The steps.                                                              *)
(***************************************************************************)
LEMMA QuietKeeps ==
  ASSUME CountsLive', frames' = <<>>, task' = Idle, fault' # "dead"
  PROVE  KeepInv'
<1>1. frames' = <<>> /\ \A k \in DOMAIN frames' : FALSE
  OBVIOUS
<1> QED BY <1>1 DEF KeepInv, NestedOK, Spared, DeadOnlyIfDoomed

(* release() of a handle: contexts that are let go are freed.              *)
LEMMA ReleaseLive ==
  ASSUME IInv, CountsLive, fault = "none", NEW h \in Handle, Counted(h), Release(h),
         UNCHANGED <<alloc, size, lost, fault>>
  PROVE  CountsLive'
<1> DEFINE c == ptr[h]
<1>1. /\ c \in Ctx /\ count \in [Ctx -> 0..Limit] /\ alloc \subseteq Ctx
      /\ frames \in Seq(Frame)
      /\ count' = [count EXCEPT ![c] = @ - 1]
  BY DEF IInv, PtrTypeOK, Counted, Release
<1>2. ASSUME NEW d \in alloc \ lost, count'[d] = 0
      PROVE  \E k \in DOMAIN frames' : frames'[k].ctx = d
  <2>1. CASE d # c
    <3>1. count[d] = 0
      BY <1>1, <1>2, <2>1
    <3>2. PICK k \in DOMAIN frames : frames[k].ctx = d
      BY <3>1 DEF CountsLive
    <3>3. CASE count[c] = 1
      <4> DEFINE f == [by |-> h, ctx |-> c, next |-> 1]
      <4>1. f \in Frame /\ frames' = Append(frames, f)
        BY <1>1, <3>3 DEF Release, Frame
      <4>2. k \in DOMAIN frames' /\ frames'[k] = frames[k]
        BY <1>1, <4>1, FramesAppend
      <4> QED BY <3>2, <4>2
    <3>4. CASE count[c] # 1
      BY <3>2, <3>4 DEF Release
    <3> QED BY <3>3, <3>4
  <2>2. CASE d = c
    <3>1. count[c] = 1
      BY <1>1, <1>2, <2>2, ObjPtrAssumption
    <3> DEFINE f == [by |-> h, ctx |-> c, next |-> 1]
    <3>2. f \in Frame /\ frames' = Append(frames, f)
      BY <1>1, <3>1 DEF Release, Frame
    <3>3. Len(frames) + 1 \in DOMAIN frames' /\ frames'[Len(frames) + 1] = f
      BY <1>1, <3>2, FramesAppend
    <3> QED BY <2>2, <3>3
  <2> QED BY <2>1, <2>2
<1> QED BY <1>2 DEF CountsLive

LEMMA OperationsKeep ==
  ASSUME IInv, KeepInv
  PROVE  /\ \A h \in Handle : Construct(h) => KeepInv'
         /\ \A h \in Outer, c \in Ctx, n \in 0..MaxItems : Create(h, c, n) => KeepInv'
         /\ \A c \in Ctx : CreateFails(c) => KeepInv'
         /\ \A h, s \in Handle : Copy(h, s) => KeepInv'
<1>1. /\ count \in [Ctx -> 0..Limit] /\ size \in [Ctx -> 0..MaxItems]
      /\ alloc \subseteq Ctx /\ lost \subseteq alloc
  BY DEF IInv, PtrTypeOK
<1>2. fault = "none" =>
        /\ \A c \in alloc \ lost : count[c] = 0 => \E k \in DOMAIN frames : frames[k].ctx = c
        /\ \A c \in lost : size[c] = 0
  BY DEF KeepInv, CountsLive
<1>3. ASSUME NEW h \in Handle, Construct(h)  PROVE KeepInv'
  BY <1>2, <1>3, QuietKeeps DEF Construct, Quiet, CountsLive
<1>4. ASSUME NEW h \in Outer, NEW c \in Ctx, NEW n \in 0..MaxItems, Create(h, c, n)
      PROVE  KeepInv'
  <2>1. /\ fault = "none" /\ frames = <<>> /\ c \notin alloc
        /\ alloc' = alloc \cup {c} /\ size' = [size EXCEPT ![c] = n]
        /\ count' = [count EXCEPT ![c] = 1]
        /\ task' = Idle /\ UNCHANGED <<frames, lost, fault>>
    BY <1>4 DEF Create, Quiet
  <2>2. CountsLive'
    BY <1>1, <1>2, <2>1 DEF CountsLive
  <2> QED BY <2>1, <2>2, QuietKeeps
<1>5. ASSUME NEW c \in Ctx, CreateFails(c)  PROVE KeepInv'
  <2>1. /\ fault = "none" /\ frames = <<>> /\ c \notin alloc
        /\ alloc' = alloc \cup {c} /\ size' = [size EXCEPT ![c] = 0]
        /\ count' = [count EXCEPT ![c] = 1] /\ lost' = lost \cup {c}
        /\ task' = Idle /\ UNCHANGED <<frames, fault>>
    BY <1>5 DEF CreateFails, Quiet
  <2>2. CountsLive'
    BY <1>1, <1>2, <2>1 DEF CountsLive
  <2> QED BY <2>1, <2>2, QuietKeeps
<1>6. ASSUME NEW h \in Handle, NEW s \in Handle, Copy(h, s)  PROVE KeepInv'
  <2>1. /\ fault = "none" /\ frames = <<>>
        /\ \/ count' = count
           \/ ptr[s] \in Ctx /\ count' = [count EXCEPT ![ptr[s]] = @ + 1]
        /\ task' = Idle /\ UNCHANGED <<alloc, size, frames, lost, fault>>
    BY <1>6 DEF Copy, Quiet
  <2>2. \A c \in Ctx : count'[c] = 0 => count[c] = 0
    BY <1>1, <2>1, ObjPtrAssumption
  <2>3. CountsLive'
    BY <1>1, <1>2, <2>1, <2>2 DEF CountsLive
  <2> QED BY <2>1, <2>3, QuietKeeps
<1> QED BY <1>3, <1>4, <1>5, <1>6

LEMMA BeginSpares ==
  ASSUME IInv, KeepInv, NEW o \in {"assign", "destroy"}, NEW h \in Handle, NEW s \in Handle,
         Begin(o, h, s)
  PROVE  KeepInv'
<1> DEFINE R == ReachBy(ptr, {h})
           c == ptr[h]
<1>1. /\ fault = "none" /\ frames = <<>> /\ task = Idle
      /\ ptr[h] # Gone /\ ptr[s] # Gone
      /\ task'.to = h /\ task'.from = s /\ task'.doomed = Doomed(h, s) /\ task' # Idle
      /\ UNCHANGED <<alloc, size, lost, fault>>
      /\ ptr \in [Handle -> Ctx \cup {Null, Gone}]
      /\ Releasing = {}
      /\ CountsLive
  BY QuietReleasing DEF IInv, PtrTypeOK, KeepInv, Begin, Quiet, Exists, Idle
<1>2. /\ \A g \in Handle : g # h => ptr'[g] = ptr[g]
      /\ ptr'[h] # Gone
      /\ \/ frames' = <<>>
         \/ /\ frames' = <<[by |-> h, ctx |-> c, next |-> 1]>>
            /\ Counted(h) /\ count[c] = 1
  <2>1. CASE Counted(h)
    BY <1>1, <2>1, ObjPtrAssumption DEF Begin, Release
  <2>2. CASE ~Counted(h)
    BY <1>1, <2>2 DEF Begin
  <2> QED BY <2>1, <2>2
<1>3. Reach({h})' = R
  <2>1. ReachBy(ptr', {h}) = ReachBy(ptr, {h})
    <3>1. \A g \in Outer \ {h} : ptr[g] = ptr'[g]
      BY <1>2 DEF Handle
    <3>2. \A g \in Slot \ {h} : ptr[g] = ptr'[g]
      BY <1>2 DEF Handle
    <3> QED BY <3>1, <3>2, ReachStable
  <2> QED BY <2>1, ReachIsThen
<1>4. CountsLive'
  <2>1. CASE Counted(h)
    BY <1>1, <2>1, ReleaseLive DEF Begin
  <2>2. CASE ~Counted(h)
    <3>1. UNCHANGED <<count, frames>>
      BY <2>2 DEF Begin
    <3> QED BY <1>1, <3>1 DEF CountsLive
  <2> QED BY <2>1, <2>2
<1>5. NestedOK'
  <2>1. \A k \in DOMAIN frames' : ~(k > 1)
    BY <1>2
  <2> QED BY <1>1, <2>1 DEF NestedOK
<1>6. ASSUME frames' # <<>>  PROVE c \notin R
  <2>1. /\ c \in Ctx /\ count[c] = 1 /\ c \in alloc \ lost
    BY <1>1, <1>2, <1>6 DEF Counted, IInv, HeapOK, PointersOK
  <2>2. Cardinality(Holders(c)) = 1
    BY <1>1, <2>1, CountIs
  <2>3. SUFFICES ASSUME NEW g \in Handle \ {h}, ptr[g] = c  PROVE FALSE
    BY ReachHeld
  <2>4. {g, h} \subseteq Holders(c)
    BY <1>1, <2>3 DEF Holders
  <2>5. Cardinality(Holders(c) \ {g}) = 0
    BY <2>2, <2>4, RemoveHolder, HoldersSubset
  <2>6. Holders(c) \ {g} = {}
    BY <2>5, HoldersSubset, NoHolders
  <2> QED BY <2>3, <2>4, <2>6
<1>7. Spared'
  <2>1. SUFFICES ASSUME ~Doomed(h, s)
                 PROVE  /\ Exists(h)' /\ Exists(s)'
                        /\ \A x \in {h, s} \cap Slot : x[1] \in R
                        /\ \A k \in DOMAIN frames' : frames'[k].ctx \notin R
    BY <1>1, <1>3 DEF Spared
  <2>2. Exists(h)' /\ Exists(s)'
    BY <1>1, <1>2 DEF Exists
  <2>3. \A x \in {h, s} \cap Slot : x[1] \in R
    BY <2>1, ReachIs DEF Doomed
  <2>4. \A k \in DOMAIN frames' : frames'[k].ctx \notin R
    BY <1>2, <1>6
  <2> QED BY <2>2, <2>3, <2>4
<1> QED BY <1>1, <1>4, <1>5, <1>7 DEF KeepInv, DeadOnlyIfDoomed

(* A step that changes only the target's pointer, or one that lies in what *)
(* is freed, leaves what can be reached without the target alone.          *)
LEMMA FreeingStable ==
  ASSUME NEW but, NEW x \in Handle,
         ptr \in [Handle -> Ctx \cup {Null, Gone}],
         \A g \in Handle : g # x => ptr'[g] = ptr[g],
         x \in but \/ (x \in Slot /\ x[1] \notin Reach(but))
  PROVE  ReachBy(ptr', but) = ReachBy(ptr, but)
<1>1. \A h \in Outer \ but : ptr[h] = ptr'[h]
  BY ObjPtrAssumption DEF Handle
<1>2. \A s \in Slot \ but : s[1] \in ReachBy(ptr, but) => ptr[s] = ptr'[s]
  BY ReachIs DEF Handle
<1>3. ReachBy(ptr', but) = ReachBy(ptr, but)
  BY <1>1, <1>2, ReachStable
<1> QED BY <1>3

LEMMA DestroyItemSpares ==
  ASSUME IInv, KeepInv, DestroyItem
  PROVE  KeepInv'
<1> DEFINE h == SlotAt
           n == Len(frames)
           c == ptr[h]
           f == [by |-> h, ctx |-> c, next |-> 1]
           R == Reach({task.to})
<1>1. /\ fault = "none" /\ frames # <<>> /\ task # Idle
      /\ Top.next <= ObjCount(Top.ctx)
      /\ FramesOK /\ CascadeOK /\ TaskOK /\ PtrTypeOK
      /\ CountsLive /\ NestedOK /\ Spared
      /\ UNCHANGED <<alloc, size, task, lost, fault>>
  BY DEF IInv, HeapOK, KeepInv, NestedOK, DestroyItem
<1>2. /\ h \in Slot /\ h \in Handle /\ h[1] = frames[n].ctx
      /\ h = <<frames[n].ctx, frames[n].next>>
      /\ n \in DOMAIN frames /\ n \in Nat \ {0} /\ DOMAIN frames = 1..n
      /\ frames \in Seq(Frame)
      /\ ptr \in [Handle -> Ctx \cup {Null, Gone}]
      /\ count \in [Ctx -> 0..Limit]
      /\ alloc \subseteq Ctx
  BY <1>1, TopIs, SlotAtIs DEF PtrTypeOK
<1>3. /\ \A g \in Handle : g # h => ptr'[g] = ptr[g]
      /\ \A k \in DOMAIN frames : k \in DOMAIN frames' /\ frames'[k].by = frames[k].by
                                  /\ frames'[k].ctx = frames[k].ctx
      /\ \/ DOMAIN frames' = DOMAIN frames
         \/ /\ DOMAIN frames' = 1..n + 1 /\ frames'[n + 1] = f
            /\ Counted(h) /\ count[c] = 1 /\ ptr'[h] = c
  <2>1. CASE Counted(h)
    <3>1. Release(h) /\ c \in Ctx
      BY <2>1 DEF DestroyItem, Counted
    <3>2. CASE count[c] = 1
      <4>1. frames' = Append(frames, f) /\ ptr' = ptr /\ f \in Frame
        BY <1>2, <3>1, <3>2 DEF Release, Frame
      <4>2. /\ DOMAIN frames' = 1..n + 1 /\ frames'[n + 1] = f
            /\ \A k \in DOMAIN frames : k \in DOMAIN frames' /\ frames'[k] = frames[k]
        BY <1>2, <4>1, FramesAppend
      <4> QED BY <2>1, <3>2, <4>1, <4>2
    <3>3. CASE count[c] # 1
      BY <1>2, <3>1, <3>3 DEF Release
    <3> QED BY <3>2, <3>3
  <2>2. CASE ~Counted(h)
    <3>1. /\ ptr' = [ptr EXCEPT ![h] = Gone]
          /\ frames' = [frames EXCEPT ![n].next = @ + 1]
      BY <2>2 DEF DestroyItem
    <3>2. \A k \in DOMAIN frames : frames[k] \in Frame
      BY <1>2
    <3>3. /\ DOMAIN frames' = DOMAIN frames
          /\ \A k \in DOMAIN frames : /\ frames'[k].by = frames[k].by
                                      /\ frames'[k].ctx = frames[k].ctx
      BY <1>2, <3>1, <3>2 DEF Frame
    <3> QED BY <1>2, <3>1, <3>3
  <2> QED BY <2>1, <2>2
<1> HIDE DEF h, n, f
<1>4. CountsLive'
  <2>1. CASE Counted(SlotAt)
    BY <1>1, <1>2, <2>1, ReleaseLive DEF DestroyItem, h
  <2>2. CASE ~Counted(SlotAt)
    <3>1. UNCHANGED count
      BY <2>2 DEF DestroyItem
    <3> QED BY <1>1, <1>3, <3>1 DEF CountsLive
  <2> QED BY <2>1, <2>2
<1>5. NestedOK'
  <2>1. ASSUME NEW k \in DOMAIN frames', k > 1
        PROVE  ptr'[frames'[k].by] = frames'[k].ctx
    <3>1. CASE k \in DOMAIN frames
      <4>1. k \in 1..n /\ k - 1 \in DOMAIN frames /\ k - 1 # n
        BY <1>2, <2>1, <3>1
      <4>2. frames[k].by = <<frames[k - 1].ctx, frames[k - 1].next>>
        BY <1>1, <2>1, <3>1 DEF CascadeOK
      <4>3. frames[k - 1].ctx # frames[n].ctx
        BY <1>1, <1>2, <4>1 DEF FramesOK
      <4>4. frames[k].by # h
        <5>1. frames[k].by[1] = frames[k - 1].ctx
          BY <4>2
        <5> QED BY <1>2, <4>3, <5>1
      <4>6. frames[k].by \in Handle
        BY <1>2, <3>1, FrameParts
      <4>5. ptr[frames[k].by] = frames[k].ctx
        BY <1>1, <2>1, <3>1 DEF NestedOK
      <4> QED BY <1>3, <3>1, <4>4, <4>5, <4>6
    <3>2. CASE k \notin DOMAIN frames
      <4>1. k = n + 1 /\ frames'[k] = f /\ ptr'[h] = c
        BY <1>2, <1>3, <2>1, <3>2
      <4> QED BY <4>1 DEF f
    <3> QED BY <3>1, <3>2
  <2> QED BY <1>1, <2>1 DEF NestedOK
<1>6. ASSUME ~task.doomed
      PROVE  /\ Exists(task.to)' /\ Exists(task.from)'
             /\ R' = R
             /\ \A k \in DOMAIN frames' : frames'[k].ctx \notin R
  <2>1. /\ Exists(task.to) /\ Exists(task.from)
        /\ \A x \in {task.to, task.from} \cap Slot : x[1] \in R
        /\ \A k \in DOMAIN frames : frames[k].ctx \notin R
    BY <1>1, <1>6 DEF Spared
  <2>2. task.to \in Handle /\ task.from \in Handle
    BY <1>1 DEF PtrTypeOK, Task
  <2>3. h[1] \notin R
    BY <1>2, <2>1
  <2>4. task.to # h /\ task.from # h
    BY <1>2, <2>1, <2>3
  <2>5. Exists(task.to)' /\ Exists(task.from)'
    BY <1>1, <1>3, <2>1, <2>2, <2>4 DEF Exists
  <2>6. R' = R
    <3>1. h \in {task.to} \/ (h \in Slot /\ h[1] \notin R)
      BY <1>2, <2>3
    <3>2. Reach({task.to}) = ReachBy(ptr, {task.to}) /\ R' = ReachBy(ptr', {task'.to})
      BY ReachIs, ReachIsThen
    <3>3. ReachBy(ptr', {task.to}) = ReachBy(ptr, {task.to})
      BY <1>2, <1>3, <3>1, FreeingStable, ReachIs
    <3> QED BY <1>1, <3>2, <3>3
  <2>7. ASSUME Counted(h), count[c] = 1  PROVE c \notin R
    <3>1. c \in Ctx /\ c \in alloc \ lost
      <4>1. ptr[h] \in Ctx
        BY <2>7 DEF Counted
      <4>2. PointersOK
        BY <1>1 DEF IInv, HeapOK
      <4> QED BY <1>2, <4>1, <4>2 DEF PointersOK
    <3>2. Cardinality(Holders(c)) = 1
      BY <1>1, <2>7, <3>1, CountIs
    <3>3. SUFFICES ASSUME NEW g \in Handle \ {task.to}, ptr[g] = c,
                          g \in Outer \/ (g \in Slot /\ g[1] \in R)
                   PROVE  FALSE
      <4>1. ASSUME c \in ReachBy(ptr, {task.to})
            PROVE  \E g \in Handle \ {task.to} : /\ ptr[g] = c
                                                 /\ g \in Outer \/ (g \in Slot /\ g[1] \in ReachBy(ptr, {task.to}))
        BY <4>1, ReachHeld
      <4> QED BY <4>1, ReachIs
    <3>4. g # h
      BY <1>2, <2>3, <3>3, ObjPtrAssumption
    <3>5. g \notin Releasing
      <4>1. SUFFICES ASSUME NEW k \in DOMAIN frames, frames[k].by = g  PROVE FALSE
        BY DEF Releasing
      <4>2. CASE k = 1
        BY <1>1, <3>3, <4>1, <4>2 DEF TaskOK
      <4>3. CASE k # 1
        <5>1. k > 1 /\ k - 1 \in DOMAIN frames
          BY <1>2, <4>3
        <5>2. g = <<frames[k - 1].ctx, frames[k - 1].next>> /\ frames[k - 1].next \in 1..MaxItems
          BY <1>1, <4>1, <5>1 DEF CascadeOK
        <5>3. g \in Slot /\ g[1] = frames[k - 1].ctx
          BY <1>2, <5>1, <5>2, SlotIn, FrameParts
        <5> QED BY <2>1, <3>3, <5>1, <5>3, ObjPtrAssumption
      <4> QED BY <4>2, <4>3
    <3>6. h \notin Releasing
      BY <1>1, <2>7, ReleasingUncounted
    <3>7. {g, h} \subseteq Holders(c)
      BY <1>2, <3>3, <3>5, <3>6 DEF Holders
    <3>8. Cardinality(Holders(c) \ {g}) = 0
      BY <3>2, <3>7, RemoveHolder, HoldersSubset
    <3>9. Holders(c) \ {g} = {}
      BY <3>8, HoldersSubset, NoHolders
    <3> QED BY <3>4, <3>7, <3>9
  <2>8. \A k \in DOMAIN frames' : frames'[k].ctx \notin R
    <3>1. ASSUME NEW k \in DOMAIN frames'  PROVE frames'[k].ctx \notin R
      <4>1. CASE k \in DOMAIN frames
        BY <1>3, <2>1, <4>1
      <4>2. CASE k \notin DOMAIN frames
        <5>1. k = n + 1 /\ frames'[k] = f /\ Counted(h) /\ count[c] = 1
          BY <1>2, <1>3, <3>1, <4>2
        <5> QED BY <2>7, <5>1 DEF f
      <4> QED BY <4>1, <4>2
    <3> QED BY <3>1
  <2> QED BY <2>5, <2>6, <2>8
<1>7. Spared'
  <2> HIDE DEF R
  <2>1. SUFFICES ASSUME ~task.doomed
                 PROVE  /\ Exists(task.to)' /\ Exists(task.from)'
                        /\ \A x \in {task.to, task.from} \cap Slot : x[1] \in R'
                        /\ \A k \in DOMAIN frames' : frames'[k].ctx \notin R'
    BY <1>1 DEF Spared, R
  <2>2. \A x \in {task.to, task.from} \cap Slot : x[1] \in R
    BY <1>1, <2>1 DEF Spared, R
  <2> QED BY <1>6, <2>1, <2>2
<1> QED BY <1>1, <1>4, <1>5, <1>7 DEF KeepInv, DeadOnlyIfDoomed

LEMMA RecycleSpares ==
  ASSUME IInv, KeepInv, Recycle
  PROVE  KeepInv'
<1> DEFINE n == Len(frames)
           c == Top.ctx
           h == Top.by
           R == Reach({task.to})
<1>1. /\ fault = "none" /\ frames # <<>> /\ task # Idle
      /\ FramesOK /\ CascadeOK /\ TaskOK /\ PtrTypeOK
      /\ CountsLive /\ NestedOK /\ Spared
      /\ alloc' = alloc \ {c}
      /\ size' = [size EXCEPT ![c] = 0]
      /\ frames' = SubSeq(frames, 1, n - 1)
      /\ UNCHANGED <<count, task, lost>>
  BY DEF IInv, HeapOK, KeepInv, NestedOK, Recycle
<1>2. /\ n \in DOMAIN frames /\ n \in Nat \ {0} /\ DOMAIN frames = 1..n
      /\ Top = frames[n]
      /\ frames \in Seq(Frame)
      /\ h \in Handle /\ c \in Ctx
      /\ ptr \in [Handle -> Ctx \cup {Null, Gone}]
      /\ size \in [Ctx -> 0..MaxItems]
      /\ lost \subseteq Ctx /\ alloc \subseteq Ctx
  BY <1>1, TopIs DEF PtrTypeOK
<1>3. DOMAIN frames' = 1..n - 1 /\ \A k \in 1..n - 1 : frames'[k] = frames[k]
  BY <1>1, <1>2, FramesFront
<1>4. \A g \in Handle : g # h => ptr'[g] = ptr[g]
  BY <1>2 DEF Recycle
<1>5. ASSUME n # 1
      PROVE  /\ h = <<frames[n - 1].ctx, frames[n - 1].next>> /\ n - 1 \in DOMAIN frames
             /\ h \in Slot /\ h[1] = frames[n - 1].ctx
             /\ ptr[h] = c
  <2>1. n > 1 /\ n - 1 \in DOMAIN frames
    BY <1>2, <1>5
  <2>2. h = <<frames[n - 1].ctx, frames[n - 1].next>> /\ frames[n - 1].next \in 1..MaxItems
    BY <1>1, <1>2, <2>1 DEF CascadeOK
  <2>3. ptr[h] = c
    BY <1>1, <1>2, <2>1 DEF NestedOK
  <2> QED BY <1>2, <2>1, <2>2, <2>3, SlotIn, FrameParts
<1>6. h = task.to \/ n # 1
  BY <1>1, <1>2 DEF TaskOK
<1> HIDE DEF n, c, h
<1>7. CountsLive'
  <2>1. ASSUME NEW d \in alloc \ lost, d # c, count[d] = 0
        PROVE  \E k \in DOMAIN frames' : frames'[k].ctx = d
    <3>1. PICK k \in DOMAIN frames : frames[k].ctx = d
      BY <1>1, <2>1 DEF CountsLive
    <3>2. k # n
      BY <1>2, <2>1, <3>1 DEF c
    <3> QED BY <1>2, <1>3, <3>1, <3>2
  <2>2. \A d \in lost : size'[d] = 0
    BY <1>1, <1>2 DEF CountsLive
  <2> QED BY <1>1, <2>1, <2>2 DEF CountsLive
<1>8. NestedOK'
  <2>1. ASSUME NEW k \in DOMAIN frames', k > 1
        PROVE  ptr'[frames'[k].by] = frames'[k].ctx
    <3>1. /\ k \in DOMAIN frames /\ k - 1 \in DOMAIN frames /\ k - 1 # n - 1 /\ n # 1
          /\ frames'[k] = frames[k] /\ n - 1 \in DOMAIN frames
      BY <1>2, <1>3, <2>1
    <3>2. frames[k].by = <<frames[k - 1].ctx, frames[k - 1].next>>
      BY <1>1, <2>1, <3>1 DEF CascadeOK
    <3>3. frames[k - 1].ctx # frames[n - 1].ctx
      BY <1>1, <3>1 DEF FramesOK
    <3>4. frames[k].by # h
      <4>1. frames[k].by[1] = frames[k - 1].ctx
        BY <3>2
      <4> QED BY <1>5, <3>1, <3>3, <4>1
    <3>6. frames[k].by \in Handle
      BY <1>2, <3>1, FrameParts
    <3>5. ptr[frames[k].by] = frames[k].ctx
      BY <1>1, <2>1, <3>1 DEF NestedOK
    <3> QED BY <1>4, <3>1, <3>4, <3>5, <3>6
  <2> QED BY <1>1, <2>1 DEF NestedOK
<1>9. ASSUME ~task.doomed
      PROVE  /\ Exists(h) /\ Exists(task.to)' /\ Exists(task.from)'
             /\ R' = R
             /\ \A k \in DOMAIN frames' : frames'[k].ctx \notin R
  <2>1. /\ Exists(task.to) /\ Exists(task.from)
        /\ \A k \in DOMAIN frames : frames[k].ctx \notin R
    BY <1>1, <1>9 DEF Spared
  <2>2. Exists(h)
    BY <1>2, <1>5, <1>6, <2>1, ObjPtrAssumption DEF Exists
  <2>3. ptr' = [ptr EXCEPT ![h] = Null]
    BY <2>2 DEF Recycle, h
  <2>4. task.to \in Handle /\ task.from \in Handle
    BY <1>1 DEF PtrTypeOK, Task
  <2>5. Exists(task.to)' /\ Exists(task.from)'
    BY <1>1, <1>2, <2>1, <2>3, <2>4, ObjPtrAssumption DEF Exists
  <2>6. h \in {task.to} \/ (h \in Slot /\ h[1] \notin R)
    BY <1>5, <1>6, <2>1
  <2>7. R' = R
    <3>2. Reach({task.to}) = ReachBy(ptr, {task.to}) /\ R' = ReachBy(ptr', {task'.to})
      BY ReachIs, ReachIsThen
    <3>3. ReachBy(ptr', {task.to}) = ReachBy(ptr, {task.to})
      BY <1>2, <1>4, <2>6, FreeingStable, ReachIs
    <3> QED BY <1>1, <3>2, <3>3
  <2>8. ASSUME NEW k \in DOMAIN frames'
        PROVE  frames'[k].ctx \notin R
    <3>1. k \in DOMAIN frames /\ frames'[k] = frames[k]
      BY <1>2, <1>3
    <3> QED BY <2>1, <3>1
  <2> QED BY <2>2, <2>5, <2>7, <2>8
<1>10. Spared'
  <2> HIDE DEF R
  <2>1. SUFFICES ASSUME ~task.doomed
                 PROVE  /\ Exists(task.to)' /\ Exists(task.from)'
                        /\ \A x \in {task.to, task.from} \cap Slot : x[1] \in R'
                        /\ \A k \in DOMAIN frames' : frames'[k].ctx \notin R'
    BY <1>1 DEF Spared, R
  <2>2. \A x \in {task.to, task.from} \cap Slot : x[1] \in R
    BY <1>1, <2>1 DEF Spared, R
  <2> QED BY <1>9, <2>1, <2>2
<1>11. DeadOnlyIfDoomed'
  <2>1. fault' = "dead" => ~Exists(h)
    BY <1>1 DEF Recycle, h
  <2> QED BY <1>1, <1>9, <2>1 DEF DeadOnlyIfDoomed
<1> QED BY <1>7, <1>8, <1>10, <1>11 DEF KeepInv

(* The end of an operation counts no handle less.                          *)
LEMMA FinishSpares ==
  ASSUME IInv, KeepInv, Finish
  PROVE  KeepInv'
<1>1. /\ fault = "none" /\ frames = <<>> /\ task # Idle
      /\ CountsLive /\ Spared
      /\ PtrTypeOK
      /\ count \in [Ctx -> 0..Limit]
      /\ alloc \subseteq Ctx
      /\ UNCHANGED <<alloc, size, frames, lost>>
  BY DEF IInv, KeepInv, Finish, PtrTypeOK
<1>2. CASE Destroyed
  <2>1. CountsLive'
    BY <1>1, <1>2 DEF Destroyed, CountsLive
  <2> QED BY <1>1, <1>2, <2>1, QuietKeeps DEF Destroyed
<1>3. CASE Assigned
  <2> DEFINE v == ptr[task.from]
  <2>1. task' = Idle /\ v \in Ctx \cup {Null}
    BY <1>1, <1>3 DEF Assigned, Exists, PtrTypeOK, Task
  <2>2. /\ \A c \in Ctx : count'[c] = 0 => count[c] = 0
        /\ fault' # "dead"
    <3>1. CASE v = Null
      BY <1>1, <1>3, <3>1, ObjPtrAssumption DEF Assigned
    <3>2. CASE v \in Ctx /\ count[v] = Limit
      BY <1>1, <1>3, <3>2, ObjPtrAssumption DEF Assigned
    <3>3. CASE v \in Ctx /\ count[v] # Limit
      <4>1. count' = [count EXCEPT ![v] = @ + 1] /\ UNCHANGED fault
        BY <1>1, <1>3, <3>3, ObjPtrAssumption DEF Assigned
      <4> QED BY <1>1, <3>3, <4>1
    <3> QED BY <2>1, <3>1, <3>2, <3>3
  <2>3. CountsLive'
    BY <1>1, <2>2 DEF CountsLive
  <2> QED BY <1>1, <2>1, <2>2, <2>3, QuietKeeps
<1>4. CASE SourceDied
  <2>1. fault' = "dead" /\ UNCHANGED task /\ task.doomed
    BY <1>1, <1>4 DEF SourceDied, Spared
  <2> QED BY <2>1 DEF KeepInv, CountsLive, NestedOK, Spared, DeadOnlyIfDoomed
<1> QED BY <1>2, <1>3, <1>4 DEF Finish

LEMMA KeepInit == PtrInit => KeepInv
<1> SUFFICES ASSUME PtrInit  PROVE KeepInv
  OBVIOUS
<1>1. alloc = {} /\ lost = {} /\ frames = <<>> /\ task = Idle /\ fault = "none"
  BY DEF PtrInit
<1> QED BY <1>1 DEF KeepInv, CountsLive, NestedOK, Spared, DeadOnlyIfDoomed

LEMMA KeepNext == IInv /\ KeepInv /\ [PtrNext]_ptrVars => KeepInv'
<1> SUFFICES ASSUME IInv, KeepInv, [PtrNext]_ptrVars  PROVE KeepInv'
  OBVIOUS
<1>1. ASSUME NEW h \in Handle, Construct(h) \/ Destroy(h)  PROVE KeepInv'
  BY <1>1, OperationsKeep, BeginSpares DEF Destroy
<1>2. ASSUME NEW h \in Outer, NEW c \in Ctx, NEW n \in 0..MaxItems, Create(h, c, n)
      PROVE  KeepInv'
  BY <1>2, OperationsKeep
<1>3. ASSUME NEW c \in Ctx, CreateFails(c)  PROVE KeepInv'
  BY <1>3, OperationsKeep
<1>4. ASSUME NEW h \in Handle, NEW s \in Handle, Copy(h, s) \/ Assign(h, s)
      PROVE  KeepInv'
  BY <1>4, OperationsKeep, BeginSpares DEF Assign
<1>5. CASE Free
  BY <1>5, DestroyItemSpares, RecycleSpares, FinishSpares DEF Free
<1>6. CASE UNCHANGED ptrVars
  <2>1. \A but : Reach(but)' = Reach(but)
    BY <1>6, ReachIs, ReachIsThen DEF ptrVars
  <2>2. UNCHANGED <<alloc, size, count, ptr, frames, task, lost, fault>>
    BY <1>6 DEF ptrVars
  <2>3. CountsLive' /\ NestedOK' /\ DeadOnlyIfDoomed'
    BY <2>2 DEF KeepInv, CountsLive, NestedOK, DeadOnlyIfDoomed
  <2>4. Spared'
    <3>1. Reach({task.to})' = Reach({task.to})
      BY <2>2, ReachIs, ReachIsThen
    <3> QED BY <2>2, <3>1 DEF KeepInv, Spared, Exists
  <2> QED BY <2>3, <2>4 DEF KeepInv
<1> QED BY <1>1, <1>2, <1>3, <1>4, <1>5, <1>6 DEF PtrNext

LEMMA AlwaysKeeps == PtrSpec => [](IInv /\ KeepInv)
<1>1. PtrSpec => []IInv
  BY Invariance
<1>2. PtrInit => KeepInv
  BY KeepInit
<1>3. IInv /\ KeepInv /\ [PtrNext]_ptrVars => KeepInv'
  BY KeepNext
<1> QED BY <1>1, <1>2, <1>3, PTL DEF PtrSpec

(* obj_base.h, obj_ptr: between operations exactly the contexts that can   *)
(* be reached from a handle of the client exist, as long as no objects     *)
(* hold each other in a circle: none is freed while it is needed, and no   *)
(* order of copies, assignments and destructors, nested ones included,     *)
(* leaves one behind.                                                      *)
THEOREM KeepsExactly == PtrSpec => []KeptExactly
<1>1. IInv /\ KeepInv => KeptExactly
  BY KeptIfLive DEF KeepInv
<1> QED BY <1>1, AlwaysKeeps, PTL

(* obj_base.h, operator = and freeCtx: a handle that is gone is touched    *)
(* only in an assignment whose source or target lay in an object kept by   *)
(* nothing but the target.                                                 *)
THEOREM OnlyDoomedDie == PtrSpec => []DeadOnlyIfDoomed
<1>1. KeepInv => DeadOnlyIfDoomed
  BY DEF KeepInv
<1> QED BY <1>1, AlwaysKeeps, PTL
=============================================================================

-------------------------- MODULE ValueObj_proofs --------------------------
(***************************************************************************)
(* Proofs about ValueObj: it uses the handles as ObjPtr describes them, so *)
(* what is proved there holds here; memory finds its way home; and a value *)
(* is a handle exactly as long as its slot exists.                         *)
(***************************************************************************)
EXTENDS ValueObj, ObjPtr_proofs

(* The values of value_obj.h use their handles as obj_ptr allows: every    *)
(* step of ValueObj is one of ObjPtr or none for it (value_obj.h, obj_val; *)
(* value_obj.cpp, Reset).                                                  *)
THEOREM ValuesUseHandles == ValSpec => PtrSpec
<1>1. ValInit => PtrInit
  BY DEF ValInit
<1>2. [ValNext]_allVars => [PtrNext]_ptrVars
  <2>1. SUFFICES ASSUME ValNext PROVE PtrNext \/ UNCHANGED ptrVars
    BY DEF allVars
  <2>2. CASE OverlayAll \/ OverlayVal
    BY <2>2 DEF OverlayAll, OverlayVal
  <2>3. ASSUME NEW s \in Slot, NEW t \in {"INT_VAL", "OBJ_VAL"}, GetInterface(s, t)
        PROVE  PtrNext \/ UNCHANGED ptrVars
    BY <2>3, SlotParts DEF GetInterface, PtrNext
  <2>4. ASSUME NEW s \in Slot, ResetObj(s) \/ ResetPlain(s)
        PROVE  PtrNext \/ UNCHANGED ptrVars
    BY <2>4, SlotParts DEF ResetObj, ResetPlain, PtrNext
  <2>5. ASSUME NEW h \in Outer, NEW c \in Ctx, NEW n \in 0..MaxItems, CreateValues(h, c, n)
        PROVE  PtrNext
    BY <2>5 DEF CreateValues, PtrNext
  <2>6. CASE HandleOps
    BY <2>6 DEF HandleOps, PtrNext, Handle
  <2>7. CASE FreeValues
    BY <2>7 DEF FreeValues, DestroyValue, RecycleCtx, FinishValue, PtrNext, Free
  <2> QED BY <2>1, <2>2, <2>3, <2>4, <2>5, <2>6, <2>7 DEF ValNext
<1> QED BY <1>1, <1>2, PTL DEF ValSpec, PtrSpec

LEMMA ValuesInvariance == ValSpec => []IInv
BY ValuesUseHandles, Invariance, PTL

-----------------------------------------------------------------------------
(* As long as no allocator was overlaid with its memory in use, all memory *)
(* in use is from the allocator that is asked to take it back.             *)
HomeType ==
  /\ homeCtx \in [Ctx -> Nat]
  /\ homeVal \in [Slot -> Nat]
  /\ DOMAIN valType = Slot
  /\ overlaid \in [mem : Nat, val : Nat]

AtHome ==
  ~abrupt =>
    /\ ~strayed
    /\ \A c \in alloc \ lost : homeCtx[c] = overlaid.mem
    /\ \A s \in InUse : homeVal[s] = overlaid.val

HomeInv == HomeType /\ AtHome

LEMMA RecycleValHome ==
  ASSUME HomeInv, NEW s \in Slot, RecycleVal(s), UNCHANGED <<alloc, lost>>
  PROVE  HomeInv'
<1>1. /\ valType' = [valType EXCEPT ![s] = "NUL_VAL"]
      /\ homeVal' = [homeVal EXCEPT ![s] = 0]
      /\ strayed' = (strayed \/ (valType[s] # "NUL_VAL" /\ homeVal[s] # overlaid.val))
      /\ UNCHANGED <<overlaid, homeCtx, abrupt, alloc, lost>>
  BY DEF RecycleVal
<1>2. HomeType'
  BY <1>1 DEF HomeInv, HomeType
<1>3. ASSUME ~abrupt
      PROVE  ~strayed' /\ \A t \in InUse' : homeVal'[t] = overlaid.val
  <2>1. ~strayed /\ \A t \in InUse : homeVal[t] = overlaid.val
    BY <1>3 DEF HomeInv, AtHome
  <2>2. ~strayed'
    BY <1>1, <2>1 DEF InUse
  <2>3. ASSUME NEW t \in InUse'
        PROVE  homeVal'[t] = overlaid.val
    <3>1. t \in Slot /\ t # s /\ t \in InUse
      BY <1>1 DEF InUse, HomeInv, HomeType
    <3> QED BY <1>1, <2>1, <3>1 DEF HomeInv, HomeType
  <2> QED BY <2>2, <2>3
<1>4. AtHome'
  BY <1>1, <1>3 DEF HomeInv, AtHome
<1> QED BY <1>2, <1>4 DEF HomeInv

LEMMA SameHome ==
  ASSUME HomeInv, UNCHANGED valVars, alloc' \ lost' \subseteq alloc \ lost
  PROVE  HomeInv'
BY DEF HomeInv, HomeType, AtHome, InUse, valVars

(* What the steps of the handles do to the contexts. *)
LEMMA HandlesLeaveContexts ==
  ASSUME \/ \E h \in Handle : Construct(h) \/ Destroy(h)
         \/ \E h, s \in Handle : Copy(h, s) \/ Assign(h, s)
         \/ DestroyItem
         \/ Finish
  PROVE  UNCHANGED <<alloc, lost>>
BY DEF Construct, Destroy, Begin, Copy, Assign, DestroyItem, Finish

LEMMA GetInterfaceHome ==
  ASSUME HomeInv, NEW s \in Slot, NEW t, GetInterface(s, t)
  PROVE  HomeInv'
<1>1. /\ valType' = [valType EXCEPT ![s] = t]
      /\ homeVal' = [homeVal EXCEPT ![s] = overlaid.val]
      /\ UNCHANGED <<overlaid, homeCtx, strayed, abrupt>>
  BY DEF GetInterface
<1>2. UNCHANGED <<alloc, lost>>
  BY SlotParts, HandlesLeaveContexts DEF GetInterface, ptrVars
<1>3. HomeType'
  BY <1>1 DEF HomeInv, HomeType
<1>4. ASSUME ~abrupt, NEW u \in InUse'
      PROVE  homeVal'[u] = overlaid.val
  <2>1. u \in Slot /\ (u = s \/ u \in InUse)
    BY <1>1 DEF InUse, HomeInv, HomeType
  <2> QED BY <1>1, <1>4, <2>1 DEF HomeInv, HomeType, AtHome
<1> QED BY <1>1, <1>2, <1>3, <1>4 DEF HomeInv, AtHome

LEMMA CreateValuesHome ==
  ASSUME HomeInv, NEW h \in Outer, NEW c \in Ctx, NEW n \in 0..MaxItems, CreateValues(h, c, n)
  PROVE  HomeInv'
<1>1. /\ alloc' = alloc \cup {c}
      /\ homeCtx' = [homeCtx EXCEPT ![c] = overlaid.mem]
      /\ UNCHANGED <<lost, valType, overlaid, homeVal, strayed, abrupt>>
  BY DEF CreateValues, Create
<1>2. HomeType'
  BY <1>1 DEF HomeInv, HomeType
<1>3. ASSUME ~abrupt, NEW d \in alloc' \ lost
      PROVE  homeCtx'[d] = overlaid.mem
  <2>1. homeCtx \in [Ctx -> Nat]
    BY DEF HomeInv, HomeType
  <2>2. CASE d = c
    BY <1>1, <2>1, <2>2
  <2>3. CASE d # c
    BY <1>1, <1>3, <2>1, <2>3 DEF HomeInv, AtHome
  <2> QED BY <2>2, <2>3
<1> QED BY <1>1, <1>2, <1>3 DEF HomeInv, AtHome, InUse

LEMMA RecycleCtxHome ==
  ASSUME IInv, HomeInv, RecycleCtx
  PROVE  HomeInv'
<1> DEFINE c == Top.ctx
<1>1. /\ fault = "none" /\ frames # <<>>
      /\ alloc' = alloc \ {c} /\ lost' = lost
      /\ strayed' = (strayed \/ homeCtx[c] # overlaid.mem)
      /\ homeCtx' = [homeCtx EXCEPT ![c] = 0]
      /\ UNCHANGED <<valType, overlaid, homeVal, abrupt>>
  BY DEF RecycleCtx, Recycle
<1>2. c \in Ctx /\ c \in alloc \ lost
  BY <1>1, TopIs DEF IInv, HeapOK, FramesOK
<1>3. HomeType'
  BY <1>1 DEF HomeInv, HomeType
<1>4. ASSUME ~abrupt
      PROVE  ~strayed' /\ \A d \in alloc' \ lost : homeCtx'[d] = overlaid.mem
  <2>1. \A d \in alloc' \ lost : homeCtx'[d] = homeCtx[d]
    BY <1>1 DEF HomeInv, HomeType
  <2> QED BY <1>1, <1>2, <1>4, <2>1 DEF HomeInv, AtHome
<1> QED BY <1>1, <1>3, <1>4 DEF HomeInv, AtHome, InUse

LEMMA OverlayHome ==
  ASSUME HomeInv, OverlayAll \/ OverlayVal
  PROVE  HomeInv'
<1>1. UNCHANGED <<alloc, lost, valType, homeCtx, homeVal, strayed>>
  BY DEF OverlayAll, OverlayVal, ptrVars
<1>2. HomeType'
  BY <1>1 DEF HomeInv, HomeType, OverlayAll, OverlayVal
<1>3. CASE OverlayAll
  <2>1. abrupt' \/ (~abrupt /\ alloc = {} /\ InUse = {})
    BY <1>3 DEF OverlayAll
  <2> QED BY <1>1, <1>2, <2>1 DEF HomeInv, AtHome, InUse
<1>4. CASE OverlayVal
  <2>1. abrupt' \/ (~abrupt /\ InUse = {})
    BY <1>4 DEF OverlayVal
  <2>2. overlaid'.mem = overlaid.mem
    BY <1>4 DEF OverlayVal, HomeInv, HomeType
  <2> QED BY <1>1, <1>2, <2>1, <2>2 DEF HomeInv, AtHome, InUse
<1> QED BY <1>3, <1>4

LEMMA HomeNext ==
  ASSUME IInv, HomeInv, [ValNext]_allVars
  PROVE  HomeInv'
<1>1. CASE OverlayAll \/ OverlayVal
  BY <1>1, OverlayHome
<1>2. ASSUME NEW s \in Slot, NEW t \in {"INT_VAL", "OBJ_VAL"}, GetInterface(s, t)
      PROVE  HomeInv'
  BY <1>2, GetInterfaceHome
<1>3. ASSUME NEW s \in Slot, ResetObj(s)
      PROVE  HomeInv'
  <2>1. UNCHANGED <<alloc, lost>> /\ UNCHANGED valVars
    BY <1>3, SlotParts, HandlesLeaveContexts DEF ResetObj
  <2> QED BY <2>1, SameHome
<1>4. ASSUME NEW s \in Slot, ResetPlain(s)
      PROVE  HomeInv'
  BY <1>4, RecycleValHome DEF ResetPlain, ptrVars
<1>5. ASSUME NEW h \in Outer, NEW c \in Ctx, NEW n \in 0..MaxItems, CreateValues(h, c, n)
      PROVE  HomeInv'
  BY <1>5, CreateValuesHome
<1>6. CASE HandleOps
  <2>1. alloc' \ lost' \subseteq alloc \ lost
    <3>1. ASSUME NEW c \in Ctx, CreateFails(c)
          PROVE  alloc' \ lost' \subseteq alloc \ lost
      BY <3>1 DEF CreateFails
    <3>2. (\E c \in Ctx : CreateFails(c)) \/ UNCHANGED <<alloc, lost>>
      BY <1>6, HandlesLeaveContexts DEF HandleOps, Handle
    <3> QED BY <3>1, <3>2
  <2> QED BY <1>6, <2>1, SameHome DEF HandleOps
<1>7. CASE DestroyValue
  <2>1. DestroyItem /\ UNCHANGED <<alloc, lost>>
    BY <1>7, HandlesLeaveContexts DEF DestroyValue
  <2>2. SlotAt \in Slot
    BY <2>1, SlotAtIs DEF DestroyItem
  <2> QED BY <1>7, <2>1, <2>2, SameHome, RecycleValHome DEF DestroyValue
<1>8. CASE RecycleCtx
  BY <1>8, RecycleCtxHome
<1>9. CASE FinishValue
  <2>1. UNCHANGED <<alloc, lost>>
    BY <1>9, HandlesLeaveContexts DEF FinishValue
  <2> QED BY <1>9, <2>1, SameHome, RecycleValHome DEF FinishValue
<1>10. CASE UNCHANGED allVars
  BY <1>10, SameHome DEF allVars, ptrVars
<1> QED BY <1>1, <1>2, <1>3, <1>4, <1>5, <1>6, <1>7, <1>8, <1>9, <1>10
        DEF ValNext, FreeValues

(* Memory goes back to the allocator it was taken from, whatever the       *)
(* handles and values do, if the client overlays an allocator only while   *)
(* none of its memory is in use (obj_base.cpp, Overlay; value_obj.cpp,     *)
(* OverlayAllocator and Reset; obj_base.h, createCtx and freeCtx).         *)
THEOREM MemoryComesHome == ValSpec => []HomeIfSettled
<1>1. ValInit => HomeInv
  BY DEF ValInit, PtrInit, HomeInv, HomeType, AtHome, InUse
<1>2. IInv /\ HomeInv /\ [ValNext]_allVars => HomeInv'
  BY HomeNext
<1>3. HomeInv => HomeIfSettled
  BY DEF HomeInv, AtHome, HomeIfSettled
<1> QED BY <1>1, <1>2, <1>3, ValuesInvariance, PTL DEF ValSpec

-----------------------------------------------------------------------------
(***************************************************************************)
(* A value is a handle exactly as long as its slot exists.                 *)
(***************************************************************************)
(* What freeCtx() has passed has no type any more, so that the memory it   *)
(* recycles in the end has no values.                                      *)
PassedOK ==
  fault = "none" =>
     \A k \in DOMAIN frames, j \in 1..MaxItems :
        j < frames[k].next => valType[<<frames[k].ctx, j>>] = "NUL_VAL"

ValueInv ==
  /\ valType \in [Slot -> ValTypes]
  /\ \A s \in Slot : Exists(s) <=> valType[s] = "OBJ_VAL"
  /\ \A s \in InUse : IsItem(s)
  /\ overlaid \in [mem : 0..MaxOverlay, val : 0..MaxOverlay]
  /\ PassedOK

(* These change the pointers of slots, but no slot comes or goes. *)
LEMMA SlotsStay ==
  ASSUME IInv,
         \/ \E h \in Outer : Construct(h)
         \/ \E h \in Outer, s \in Handle : Copy(h, s)
         \/ \E o \in {"assign", "destroy"}, h, s \in Handle : Begin(o, h, s)
         \/ \E h \in Outer, c \in Ctx, n \in 0..MaxItems : Create(h, c, n)
         \/ DestroyItem /\ Counted(SlotAt)
         \/ Recycle
         \/ Finish /\ ~(task.op = "destroy" /\ task.to \in Slot)
  PROVE  \A s \in Slot : Exists(s)' <=> Exists(s)
<1>1. /\ ptr \in [Handle -> Ctx \cup {Null, Gone}]
      /\ \A s \in Slot : s \in Handle /\ s \notin Outer
  BY ObjPtrAssumption DEF IInv, PtrTypeOK, Handle
<1>2. ASSUME NEW h \in Outer, Construct(h)
      PROVE  \A s \in Slot : Exists(s)' <=> Exists(s)
  BY <1>1, <1>2 DEF Construct, Exists, Handle
<1>3. ASSUME NEW h \in Outer, NEW g \in Handle, Copy(h, g)
      PROVE  \A s \in Slot : Exists(s)' <=> Exists(s)
  BY <1>1, <1>3 DEF Copy, Exists, Handle
<1>4. ASSUME NEW h \in Handle, Counted(h), Release(h)
      PROVE  \A s \in Slot : Exists(s)' <=> Exists(s)
  <2>1. ptr[h] # Gone
    BY <1>4, ObjPtrAssumption DEF Counted
  <2>2. ptr' = ptr \/ ptr' = [ptr EXCEPT ![h] = Null]
    BY <1>4 DEF Release
  <2> QED BY <1>1, <2>1, <2>2, ObjPtrAssumption DEF Exists
<1>5. ASSUME NEW o, NEW h \in Handle, NEW g \in Handle, Begin(o, h, g)
      PROVE  \A s \in Slot : Exists(s)' <=> Exists(s)
  <2>1. CASE Counted(h)
    BY <1>4, <1>5, <2>1 DEF Begin
  <2>2. CASE ~Counted(h)
    BY <1>5, <2>2 DEF Begin, Exists
  <2> QED BY <2>1, <2>2
<1>6. ASSUME NEW h \in Outer, NEW c \in Ctx, NEW n \in 0..MaxItems, Create(h, c, n)
      PROVE  \A s \in Slot : Exists(s)' <=> Exists(s)
  BY <1>1, <1>6 DEF Create, Exists, Handle
<1>7. ASSUME DestroyItem, Counted(SlotAt)
      PROVE  \A s \in Slot : Exists(s)' <=> Exists(s)
  <2>1. SlotAt \in Handle
    BY <1>7, SlotAtIs DEF DestroyItem
  <2> QED BY <1>4, <1>7, <2>1 DEF DestroyItem
<1>8. ASSUME Recycle
      PROVE  \A s \in Slot : Exists(s)' <=> Exists(s)
  <2>1. ptr' = ptr \/ (Exists(Top.by) /\ ptr' = [ptr EXCEPT ![Top.by] = Null])
    BY <1>8 DEF Recycle
  <2> QED BY <1>1, <2>1, ObjPtrAssumption DEF Exists
<1>9. ASSUME Finish, ~(task.op = "destroy" /\ task.to \in Slot)
      PROVE  \A s \in Slot : Exists(s)' <=> Exists(s)
  <2>1. ptr[task.to] = Null /\ task.to \in Handle
    BY <1>9, FinishBegins
  <2>2. CASE Destroyed
    <3>1. task.to \notin Slot /\ ptr' = [ptr EXCEPT ![task.to] = Gone]
      BY <1>9, <2>2 DEF Destroyed
    <3> QED BY <1>1, <3>1 DEF Exists
  <2>3. CASE Assigned
    <3>1. ptr' = [ptr EXCEPT ![task.to] = ptr[task.from]] /\ ptr[task.from] # Gone
      BY <2>3 DEF Assigned, Exists
    <3> QED BY <1>1, <2>1, <3>1, ObjPtrAssumption DEF Exists
  <2>4. CASE SourceDied
    BY <2>4 DEF SourceDied, Exists
  <2> QED BY <1>9, <2>2, <2>3, <2>4 DEF Finish
<1> QED BY <1>2, <1>3, <1>5, <1>6, <1>7, <1>8, <1>9

(* If no slot comes or goes and no object goes, nothing is to be shown but *)
(* what has been passed.                                                   *)
LEMMA ValuesStay ==
  ASSUME ValueInv, UNCHANGED valType,
         overlaid' \in [mem : 0..MaxOverlay, val : 0..MaxOverlay],
         \A s \in Slot : Exists(s)' <=> Exists(s),
         \A s \in Slot : IsItem(s) => IsItem(s)',
         PassedOK'
  PROVE  ValueInv'
BY DEF ValueInv, InUse

(* Of the operations that begin when all is quiet none has passed anything.*)
LEMMA NonePassed ==
  ASSUME \/ frames' = <<>>
         \/ \E h, c : frames' = <<[by |-> h, ctx |-> c, next |-> 1]>>
  PROVE  PassedOK'
<1>1. CASE frames' = <<>>
  <2>1. DOMAIN frames' = {}
    BY <1>1
  <2> QED BY <2>1 DEF PassedOK
<1>2. ASSUME NEW h, NEW c, frames' = <<[by |-> h, ctx |-> c, next |-> 1]>>
      PROVE  PassedOK'
  <2>1. \A k \in DOMAIN frames' : frames'[k].next = 1
    BY <1>2
  <2>2. \A j \in 1..MaxItems : ~(j < 1)
    BY ObjPtrAssumption
  <2> QED BY <2>1, <2>2 DEF PassedOK
<1> QED BY <1>1, <1>2

LEMMA BeginValues ==
  ASSUME IInv, ValueInv, NEW o \in {"assign", "destroy"}, NEW h \in Handle, NEW s \in Handle,
         Begin(o, h, s), UNCHANGED valVars
  PROVE  ValueInv'
<1>1. /\ frames = <<>> /\ UNCHANGED <<alloc, size, valType, overlaid>>
  BY DEF Begin, Quiet, valVars
<1>2. \/ frames' = <<>>
      \/ \E g, c : frames' = <<[by |-> g, ctx |-> c, next |-> 1]>>
  BY <1>1 DEF Begin, Release
<1>3. \A g \in Slot : Exists(g)' <=> Exists(g)
  BY SlotsStay
<1>4. overlaid' \in [mem : 0..MaxOverlay, val : 0..MaxOverlay]
  BY <1>1 DEF ValueInv
<1> QED BY <1>1, <1>2, <1>3, <1>4, NonePassed, ValuesStay DEF IsItem

LEMMA GetInterfaceValues ==
  ASSUME IInv, ValueInv, NEW s \in Slot, NEW t \in {"INT_VAL", "OBJ_VAL"}, GetInterface(s, t)
  PROVE  ValueInv'
<1>1. /\ IsItem(s) /\ valType[s] = "NUL_VAL"
      /\ valType' = [valType EXCEPT ![s] = t]
      /\ overlaid' = overlaid /\ frames = <<>>
      /\ UNCHANGED <<alloc, size, frames>>
      /\ \/ t = "OBJ_VAL" /\ ptr' = [ptr EXCEPT ![s] = Null]
         \/ t = "INT_VAL" /\ ptr' = ptr
      /\ ptr \in [Handle -> Ctx \cup {Null, Gone}]
      /\ s \in Handle
  BY SlotParts DEF GetInterface, Construct, ptrVars, Quiet, IInv, PtrTypeOK
<1>2. valType' \in [Slot -> ValTypes]
  BY <1>1 DEF ValueInv, ValTypes
<1>3. \A u \in Slot : Exists(u)' <=> valType'[u] = "OBJ_VAL"
  BY <1>1, SlotParts, ObjPtrAssumption DEF ValueInv, Exists
<1>4. \A u \in InUse' : IsItem(u)'
  BY <1>1 DEF ValueInv, InUse, IsItem
<1> QED BY <1>1, <1>2, <1>3, <1>4, NonePassed DEF ValueInv

(* A value without type: its slot does not exist.                          *)
LEMMA RecycleValValues ==
  ASSUME ValueInv, NEW s \in Slot, RecycleVal(s),
         \A u \in Slot : u # s => (ptr'[u] # Gone <=> Exists(u)),
         ptr'[s] = Gone,
         UNCHANGED <<alloc, size>>, PassedOK'
  PROVE  ValueInv'
<1>1. /\ valType' = [valType EXCEPT ![s] = "NUL_VAL"]
      /\ overlaid' = overlaid
      /\ valType \in [Slot -> ValTypes]
  BY DEF RecycleVal, ValueInv
<1>2. valType' \in [Slot -> ValTypes]
  BY <1>1 DEF ValTypes
<1>3. \A u \in Slot : Exists(u)' <=> valType'[u] = "OBJ_VAL"
  BY <1>1 DEF ValueInv, Exists
<1>4. \A u \in InUse' : IsItem(u)'
  BY <1>1 DEF ValueInv, InUse, IsItem
<1> QED BY <1>1, <1>2, <1>3, <1>4 DEF ValueInv

LEMMA DestroyValueValues ==
  ASSUME IInv, ValueInv, DestroyValue
  PROVE  ValueInv'
<1> DEFINE n == Len(frames)
<1>1. /\ fault = "none" /\ frames # <<>> /\ DestroyItem
      /\ PtrTypeOK /\ FramesOK
      /\ PassedOK
      /\ valType \in [Slot -> ValTypes]
      /\ UNCHANGED <<alloc, size, fault>>
  BY DEF DestroyValue, DestroyItem, IInv, HeapOK, ValueInv
<1>2. /\ SlotAt = <<Top.ctx, Top.next>> /\ SlotAt \in Slot /\ SlotAt \in Handle
      /\ Top = frames[n] /\ n \in DOMAIN frames /\ n \in Nat
      /\ Top.next \in 1..MaxItems
      /\ frames \in Seq(Frame) /\ DOMAIN frames = 1..n
      /\ ptr \in [Handle -> Ctx \cup {Null, Gone}]
  BY <1>1, TopIs, SlotAtIs DEF DestroyItem, PtrTypeOK
<1>3. CASE Counted(SlotAt)
  <2>1. \A s \in Slot : Exists(s)' <=> Exists(s)
    BY <1>1, <1>3, SlotsStay
  <2>2. UNCHANGED <<valType, overlaid>>
    BY <1>3 DEF DestroyValue, valVars
  <2>3. PassedOK'
    <3>1. Release(SlotAt)
      BY <1>1, <1>3 DEF DestroyItem
    <3>2. CASE count[ptr[SlotAt]] = 1
      <4> DEFINE f == [by |-> SlotAt, ctx |-> ptr[SlotAt], next |-> 1]
      <4>1. f \in Frame /\ frames' = Append(frames, f)
        BY <1>2, <1>3, <3>1, <3>2 DEF Release, Frame, Counted
      <4>2. /\ DOMAIN frames' = DOMAIN frames \cup {n + 1}
            /\ \A k \in DOMAIN frames : frames'[k] = frames[k]
            /\ frames'[n + 1].next = 1
        BY <1>2, <4>1, FramesAppend
      <4>3. \A j \in 1..MaxItems : ~(j < 1)
        BY ObjPtrAssumption
      <4> QED BY <1>1, <2>2, <4>2, <4>3 DEF PassedOK
    <3>3. CASE count[ptr[SlotAt]] # 1
      <4>1. frames' = frames
        BY <3>1, <3>3 DEF Release
      <4> QED BY <1>1, <2>2, <4>1 DEF PassedOK
    <3> QED BY <3>2, <3>3
  <2>4. overlaid' \in [mem : 0..MaxOverlay, val : 0..MaxOverlay]
    BY <2>2 DEF ValueInv
  <2> QED BY <1>1, <2>1, <2>2, <2>3, <2>4, ValuesStay DEF IsItem
<1>4. CASE ~Counted(SlotAt)
  <2>1. /\ ptr' = [ptr EXCEPT ![SlotAt] = Gone]
        /\ frames' = [frames EXCEPT ![n].next = @ + 1]
        /\ RecycleVal(SlotAt)
        /\ valType' = [valType EXCEPT ![SlotAt] = "NUL_VAL"]
    BY <1>1, <1>4 DEF DestroyItem, DestroyValue, RecycleVal
  <2>2. /\ \A u \in Slot : u # SlotAt => (ptr'[u] # Gone <=> Exists(u))
        /\ ptr'[SlotAt] = Gone
    BY <1>2, <2>1 DEF Exists, Handle
  <2>3. PassedOK'
    <3>1. ASSUME NEW k \in DOMAIN frames', NEW j \in 1..MaxItems, j < frames'[k].next
          PROVE  valType'[<<frames'[k].ctx, j>>] = "NUL_VAL"
      <4>1. k \in DOMAIN frames /\ frames[k] \in Frame
        BY <1>2, <2>1
      <4>2. /\ frames'[k].ctx = frames[k].ctx
            /\ frames'[k].next = IF k = n THEN frames[k].next + 1 ELSE frames[k].next
        BY <1>2, <2>1, <4>1 DEF Frame
      <4>3. <<frames[k].ctx, j>> \in Slot
        BY <4>1, SlotIn DEF Frame
      <4>4. CASE j < frames[k].next
        <5>1. valType[<<frames[k].ctx, j>>] = "NUL_VAL"
          BY <1>1, <4>1, <4>4 DEF PassedOK
        <5> QED BY <1>1, <2>1, <4>2, <4>3, <5>1
      <4>5. CASE ~(j < frames[k].next)
        <5>1. k = n /\ j = frames[n].next
          <6>1. frames[k].next \in Nat
            BY <4>1 DEF Frame
          <6> QED BY <3>1, <4>2, <4>5, <6>1
        <5>2. <<frames[k].ctx, j>> = SlotAt
          BY <1>2, <5>1
        <5> QED BY <1>1, <1>2, <2>1, <4>2, <5>2
      <4> QED BY <4>4, <4>5
    <3> QED BY <3>1 DEF PassedOK
  <2> QED BY <1>1, <1>2, <2>1, <2>2, <2>3, RecycleValValues
<1> QED BY <1>3, <1>4

LEMMA RecycleCtxValues ==
  ASSUME IInv, ValueInv, RecycleCtx
  PROVE  ValueInv'
<1> DEFINE n == Len(frames)
           c == Top.ctx
<1>1. /\ fault = "none" /\ frames # <<>> /\ Recycle
      /\ Top.next > ObjCount(c)
      /\ alloc' = alloc \ {c}
      /\ size' = [size EXCEPT ![c] = 0]
      /\ frames' = SubSeq(frames, 1, n - 1)
      /\ UNCHANGED <<valType, overlaid>>
      /\ PtrTypeOK /\ PassedOK
  BY DEF RecycleCtx, Recycle, IInv, ValueInv
<1>2. /\ frames \in Seq(Frame) /\ n \in DOMAIN frames /\ n \in Nat \ {0}
      /\ DOMAIN frames = 1..n
      /\ Top = frames[n] /\ c \in Ctx /\ Top.next \in Nat
      /\ size \in [Ctx -> 0..MaxItems]
  BY <1>1, TopIs DEF PtrTypeOK
<1>3. \A s \in Slot : Exists(s)' <=> Exists(s)
  BY <1>1, SlotsStay
<1>4. PassedOK'
  <2>1. \A k \in DOMAIN frames' : k \in DOMAIN frames /\ frames'[k] = frames[k]
    BY <1>1, <1>2, FramesFront
  <2> QED BY <1>1, <2>1 DEF PassedOK
<1>5. ASSUME NEW s \in InUse'
      PROVE  IsItem(s)'
  <2>1. s \in Slot /\ s \in InUse /\ s[1] \in Ctx /\ s[2] \in 1..MaxItems /\ s = <<s[1], s[2]>>
    BY <1>1, SlotParts DEF InUse
  <2>2. s[1] \in alloc /\ s[2] <= size[s[1]]
    BY <2>1 DEF ValueInv, IsItem
  <2>3. s[1] # c
    <3>1. SUFFICES ASSUME s[1] = c  PROVE FALSE
      OBVIOUS
    <3>2. s[2] < Top.next
      <4>1. size[c] \in Nat
        BY <1>2, ObjPtrAssumption
      <4> QED BY <1>1, <1>2, <2>1, <2>2, <3>1, <4>1 DEF ObjCount
    <3>3. valType[<<c, s[2]>>] = "NUL_VAL"
      BY <1>1, <1>2, <2>1, <3>2 DEF PassedOK
    <3> QED BY <2>1, <3>1, <3>3 DEF InUse
  <2> QED BY <1>1, <1>2, <2>1, <2>2, <2>3 DEF IsItem
<1> QED BY <1>1, <1>3, <1>4, <1>5 DEF ValueInv

LEMMA FinishValues ==
  ASSUME IInv, ValueInv, FinishValue
  PROVE  ValueInv'
<1>1. /\ Finish /\ frames' = <<>>
      /\ UNCHANGED <<alloc, size>>
      /\ ptr \in [Handle -> Ctx \cup {Null, Gone}]
      /\ PassedOK'
  BY FinishBegins, NonePassed DEF FinishValue, PtrTypeOK
<1>2. CASE task.op = "destroy" /\ task.to \in Slot
  <2>1. RecycleVal(task.to) /\ ptr' = [ptr EXCEPT ![task.to] = Gone]
    BY <1>1, <1>2 DEF FinishValue, Finish, Destroyed, Assigned, SourceDied
  <2>2. /\ \A u \in Slot : u # task.to => (ptr'[u] # Gone <=> Exists(u))
        /\ ptr'[task.to] = Gone
    BY <1>1, <1>2, <2>1 DEF Exists, Handle
  <2> QED BY <1>1, <1>2, <2>1, <2>2, RecycleValValues
<1>3. CASE ~(task.op = "destroy" /\ task.to \in Slot)
  <2>1. UNCHANGED <<valType, overlaid>>
    BY <1>3 DEF FinishValue, valVars
  <2>2. \A s \in Slot : Exists(s)' <=> Exists(s)
    BY <1>1, <1>3, SlotsStay
  <2>3. overlaid' \in [mem : 0..MaxOverlay, val : 0..MaxOverlay]
    BY <2>1 DEF ValueInv
  <2> QED BY <1>1, <2>1, <2>2, <2>3, ValuesStay DEF IsItem
<1> QED BY <1>2, <1>3

(* Construction of contexts: their objects are new.                        *)
LEMMA CreateKeepsValues ==
  ASSUME IInv, ValueInv, UNCHANGED <<valType, overlaid>>,
         NEW c \in Ctx, c \notin alloc, NEW n,
         alloc' = alloc \cup {c}, size' = [size EXCEPT ![c] = n], frames' = <<>>,
         \A s \in Slot : Exists(s)' <=> Exists(s)
  PROVE  ValueInv'
<1>1. size \in [Ctx -> 0..MaxItems]
  BY DEF IInv, PtrTypeOK
<1>2. \A s \in Slot : IsItem(s) => IsItem(s)'
  BY <1>1, SlotParts DEF IsItem
<1>3. overlaid' \in [mem : 0..MaxOverlay, val : 0..MaxOverlay]
  BY DEF ValueInv
<1> QED BY <1>2, <1>3, NonePassed, ValuesStay

LEMMA ValuesNext ==
  ASSUME IInv, ValueInv, [ValNext]_allVars
  PROVE  ValueInv'
<1>0. overlaid \in [mem : 0..MaxOverlay, val : 0..MaxOverlay] /\ PassedOK
  BY DEF ValueInv
<1>1. CASE OverlayAll \/ OverlayVal
  <2>1. overlaid' \in [mem : 0..MaxOverlay, val : 0..MaxOverlay]
    <3>1. CASE OverlayAll
      BY <1>0, <3>1, ValueObjAssumption DEF OverlayAll
    <3>2. CASE OverlayVal
      BY <1>0, <3>2, ValueObjAssumption DEF OverlayVal
    <3> QED BY <1>1, <3>1, <3>2
  <2>2. UNCHANGED <<alloc, size, ptr, frames, fault, valType>>
    BY <1>1 DEF OverlayAll, OverlayVal, ptrVars
  <2> QED BY <1>0, <2>1, <2>2, ValuesStay DEF Exists, IsItem, PassedOK
<1>2. ASSUME NEW s \in Slot, NEW t \in {"INT_VAL", "OBJ_VAL"}, GetInterface(s, t)
      PROVE  ValueInv'
  BY <1>2, GetInterfaceValues
<1>3. ASSUME NEW s \in Slot, ResetObj(s)
      PROVE  ValueInv'
  BY <1>3, SlotParts, BeginValues DEF ResetObj, Destroy
<1>4. ASSUME NEW s \in Slot, ResetPlain(s)
      PROVE  ValueInv'
  <2>1. /\ RecycleVal(s) /\ UNCHANGED <<alloc, size, ptr, frames>> /\ frames = <<>>
        /\ ~Exists(s)
    BY <1>4 DEF ResetPlain, ptrVars, Quiet, ValueInv
  <2> QED BY <2>1, NonePassed, RecycleValValues DEF Exists
<1>5. ASSUME NEW h \in Outer, NEW c \in Ctx, NEW n \in 0..MaxItems, CreateValues(h, c, n)
      PROVE  ValueInv'
  <2>1. /\ UNCHANGED <<valType, overlaid>> /\ Create(h, c, n)
        /\ c \notin alloc /\ alloc' = alloc \cup {c} /\ size' = [size EXCEPT ![c] = n]
        /\ frames' = <<>>
    BY <1>5 DEF CreateValues, Create, Quiet
  <2>2. \A s \in Slot : Exists(s)' <=> Exists(s)
    BY <2>1, SlotsStay
  <2> QED BY <2>1, <2>2, CreateKeepsValues
<1>6. CASE HandleOps
  <2>0. UNCHANGED valVars /\ UNCHANGED <<valType, overlaid>>
    BY <1>6 DEF HandleOps, valVars
  <2>1. ASSUME NEW h \in Outer, Construct(h)
        PROVE  ValueInv'
    <3>1. frames' = <<>> /\ UNCHANGED <<alloc, size>>
      BY <2>1 DEF Construct, Quiet
    <3> QED BY <1>0, <2>0, <2>1, <3>1, SlotsStay, NonePassed, ValuesStay DEF IsItem
  <2>2. ASSUME NEW h \in Outer, NEW s \in Handle, Copy(h, s)
        PROVE  ValueInv'
    <3>1. frames' = <<>> /\ UNCHANGED <<alloc, size>>
      BY <2>2 DEF Copy, Quiet
    <3> QED BY <1>0, <2>0, <2>2, <3>1, SlotsStay, NonePassed, ValuesStay DEF IsItem
  <2>3. ASSUME NEW h \in Handle, NEW s \in Handle, Assign(h, s) \/ (Destroy(h) /\ s = h)
        PROVE  ValueInv'
    BY <2>0, <2>3, BeginValues DEF Assign, Destroy
  <2>4. ASSUME NEW c \in Ctx, CreateFails(c)
        PROVE  ValueInv'
    <3>1. /\ c \notin alloc /\ alloc' = alloc \cup {c} /\ size' = [size EXCEPT ![c] = 0]
          /\ frames' = <<>> /\ UNCHANGED ptr
      BY <2>4 DEF CreateFails, Quiet
    <3> QED BY <2>0, <3>1, CreateKeepsValues DEF Exists
  <2> QED BY <1>6, <2>1, <2>2, <2>3, <2>4 DEF HandleOps, Handle
<1>7. CASE FreeValues
  BY <1>7, DestroyValueValues, RecycleCtxValues, FinishValues DEF FreeValues
<1>8. CASE UNCHANGED allVars
  BY <1>0, <1>8, ValuesStay DEF allVars, ptrVars, valVars, Exists, IsItem, PassedOK
<1> QED BY <1>1, <1>2, <1>3, <1>4, <1>5, <1>6, <1>7, <1>8 DEF ValNext

LEMMA ValuesInit == ValInit => ValueInv
<1> SUFFICES ASSUME ValInit  PROVE ValueInv
  OBVIOUS
<1>1. /\ frames = <<>> /\ DOMAIN frames = {} /\ alloc = {} /\ ptr = [h \in Handle |-> Gone]
      /\ valType = [s \in Slot |-> "NUL_VAL"] /\ overlaid = [mem |-> 0, val |-> 0]
  BY DEF ValInit, PtrInit
<1> QED BY <1>1, SlotParts, ValueObjAssumption
        DEF ValueInv, ValTypes, Exists, InUse, PassedOK

(* A value holds a handle exactly while its type says so, through every    *)
(* Reset(), every cascade of destructors and every fault, and only objects *)
(* of living contexts have a type (value_obj.h, val_itf_binder;            *)
(* value_obj.cpp, Reset).                                                  *)
THEOREM ValTypeCorrect == ValSpec => []ValTypeOK
<1>1. ValInit => ValueInv
  BY ValuesInit
<1>2. IInv /\ ValueInv /\ [ValNext]_allVars => ValueInv'
  BY ValuesNext
<1>3. IInv /\ ValueInv => ValTypeOK
  BY DEF IInv, ValueInv, ValTypeOK
<1> QED BY <1>1, <1>2, <1>3, ValuesInvariance, PTL DEF ValSpec
=============================================================================

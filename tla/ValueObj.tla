------------------------------ MODULE ValueObj ------------------------------
(***************************************************************************)
(* value_obj.h: the tagged value, as the objects obj_ptr holds (ObjPtr):   *)
(* every object of a context is a value_obj, and its slot is the handle in *)
(* the obj_val it may contain.  The tags of the other classes differ in    *)
(* nothing but their data, one of them stands for all.                     *)
(*                                                                         *)
(* With it the allocators of obj_base.cpp and value_obj.cpp: global        *)
(* pointers, which a client may overlay at any time, and which are asked   *)
(* when memory is taken and again when it is given back.                   *)
(***************************************************************************)
EXTENDS ObjPtr

CONSTANT MaxOverlay  (* bound: how often an allocator is overlaid          *)

ASSUME ValueObjAssumption == MaxOverlay \in Nat

VARIABLES
  valType,   (* mValType of every object                                   *)
  overlaid,  (* gMemAllocator and gValObjAllocator, numbered as overlaid   *)
  homeCtx,   (* the allocator the memory of a context is from              *)
  homeVal,   (* the allocator the memory of mValImp is from                *)
  strayed,   (* history: memory was recycled to another allocator          *)
  abrupt     (* history: an allocator was overlaid with its memory in use  *)

valVars == <<valType, overlaid, homeCtx, homeVal, strayed, abrupt>>
allVars == <<ptrVars, valVars>>
ValTypes == {"NUL_VAL", "INT_VAL", "OBJ_VAL"}

ValInit ==
  /\ PtrInit
  /\ valType = [s \in Slot |-> "NUL_VAL"]
  /\ overlaid = [mem |-> 0, val |-> 0]
  /\ homeCtx = [c \in Ctx |-> 0]
  /\ homeVal = [s \in Slot |-> 0]
  /\ strayed = FALSE
  /\ abrupt = FALSE

IsItem(s) == s[1] \in alloc /\ s[2] <= size[s[1]]
InUse == {s \in Slot : valType[s] # "NUL_VAL"}

-----------------------------------------------------------------------------
(* mem_allocator::Overlay sets every pointer, value_obj::OverlayAllocator  *)
(* only its own.                                                           *)
OverlayAll ==
  /\ Quiet /\ overlaid.mem < MaxOverlay
  /\ overlaid' = [mem |-> overlaid.mem + 1, val |-> overlaid.mem + 1]
  /\ abrupt' = (abrupt \/ alloc # {} \/ InUse # {})
  /\ UNCHANGED <<ptrVars, valType, homeCtx, homeVal, strayed>>

OverlayVal ==
  /\ Quiet /\ overlaid.val < MaxOverlay
  /\ overlaid' = [overlaid EXCEPT !.val = @ + 1]
  /\ abrupt' = (abrupt \/ InUse # {})
  /\ UNCHANGED <<ptrVars, valType, homeCtx, homeVal, strayed>>

GetInterface_OtherAllocator(s, t) ==
  /\ Quiet /\ IsItem(s)
  /\ valType[s] = "NUL_VAL"
  /\ valType' = [valType EXCEPT ![s] = t]
  /\ homeVal' = [homeVal EXCEPT ![s] = overlaid.mem]
  /\ IF t = "OBJ_VAL" THEN Construct(s) ELSE UNCHANGED ptrVars
  /\ UNCHANGED <<overlaid, homeCtx, strayed, abrupt>>

(* val_itf_binder::GetInterface: a value without a type becomes one of the *)
(* type asked for; a value of another type gives no interface and stays.   *)
GetInterface(s, t) ==
  /\ Quiet /\ IsItem(s)
  /\ valType[s] = "NUL_VAL"
  /\ valType' = [valType EXCEPT ![s] = t]
  /\ homeVal' = [homeVal EXCEPT ![s] = overlaid.val]
  /\ IF t = "OBJ_VAL" THEN Construct(s) ELSE UNCHANGED ptrVars
  /\ UNCHANGED <<overlaid, homeCtx, strayed, abrupt>>

RecycleVal_KeepsType(s) ==
  /\ strayed' = (strayed \/ (valType[s] # "NUL_VAL" /\ homeVal[s] # overlaid.val))
  /\ UNCHANGED <<valType, overlaid, homeCtx, homeVal, abrupt>>

(* The end of value_obj::Reset(), the destructor of mValImp having run.    *)
RecycleVal(s) ==
  /\ valType' = [valType EXCEPT ![s] = "NUL_VAL"]
  /\ strayed' = (strayed \/ (valType[s] # "NUL_VAL" /\ homeVal[s] # overlaid.val))
  /\ homeVal' = [homeVal EXCEPT ![s] = 0]
  /\ UNCHANGED <<overlaid, homeCtx, abrupt>>

(* Reset() of a value that is a handle, and of any other.                  *)
ResetObj(s) ==
  /\ valType[s] = "OBJ_VAL"
  /\ Destroy(s)
  /\ UNCHANGED valVars

ResetPlain(s) ==
  /\ Quiet /\ valType[s] = "INT_VAL"
  /\ RecycleVal(s)
  /\ UNCHANGED ptrVars

(* The handles and their contexts (ObjPtr), with what becomes of the       *)
(* values: ~value_obj() resets.                                            *)
CreateValues(h, c, n) ==
  /\ Create(h, c, n)
  /\ homeCtx' = [homeCtx EXCEPT ![c] = overlaid.mem]
  /\ UNCHANGED <<valType, overlaid, homeVal, strayed, abrupt>>

DestroyValue ==
  /\ DestroyItem
  /\ IF Counted(SlotAt) THEN UNCHANGED valVars ELSE RecycleVal(SlotAt)

RecycleCtx ==
  /\ Recycle
  /\ strayed' = (strayed \/ homeCtx[Top.ctx] # overlaid.mem)
  /\ homeCtx' = [homeCtx EXCEPT ![Top.ctx] = 0]
  /\ UNCHANGED <<valType, overlaid, homeVal, abrupt>>

FinishValue ==
  /\ Finish
  /\ IF task.op = "destroy" /\ task.to \in Slot
     THEN RecycleVal(task.to)
     ELSE UNCHANGED valVars

HandleOps ==
  /\ \/ \E h \in Outer : Construct(h) \/ Destroy(h)
     \/ \E h \in Outer, s \in Handle : Copy(h, s)
     \/ \E h, s \in Handle : Assign(h, s)
     \/ \E c \in Ctx : CreateFails(c)
  /\ UNCHANGED valVars

FreeValues == DestroyValue \/ RecycleCtx \/ FinishValue

(* Memory that went to the wrong allocator is the end of defined behaviour. *)
ValNext ==
  /\ ~strayed
  /\ \/ OverlayAll
     \/ OverlayVal
     \/ \E s \in Slot, t \in {"INT_VAL", "OBJ_VAL"} : GetInterface(s, t)
     \/ \E s \in Slot : ResetObj(s) \/ ResetPlain(s)
     \/ \E h \in Outer, c \in Ctx, n \in 0..MaxItems : CreateValues(h, c, n)
     \/ HandleOps
     \/ FreeValues

ValSpec == ValInit /\ [][ValNext]_allVars

-----------------------------------------------------------------------------
(* Types, and: a value is a handle exactly as long as its slot exists.     *)
ValTypeOK ==
  /\ PtrTypeOK
  /\ valType \in [Slot -> ValTypes]
  /\ \A s \in Slot : Exists(s) <=> valType[s] = "OBJ_VAL"
  /\ \A s \in InUse : IsItem(s)
  /\ overlaid \in [mem : 0..MaxOverlay, val : 0..MaxOverlay]

(* Memory goes back to the allocator it is from, if the client overlays an *)
(* allocator only while none of its memory is in use; value_obj's pointer  *)
(* and that of obj_base are two (value_obj.cpp, Reset; obj_base.cpp,       *)
(* Overlay; obj_base.h, createCtx and freeCtx).                            *)
HomeIfSettled == strayed => abrupt
=============================================================================

------------------------------- MODULE ObjPtr -------------------------------
(***************************************************************************)
(* obj_base.h: obj_ptr, the reference-counted handle every object of the   *)
(* library is held by.  A context is the block a handle points to: the     *)
(* count of its handles and an array of objects.                           *)
(*                                                                         *)
(* An object may hold one handle itself (a slot, as obj_val of value_obj.h *)
(* does), so that dropping the last handle of a context destroys handles   *)
(* in turn.  That recursion of destructors is the stack of frames; a step  *)
(* is one iteration of the loop in freeCtx().                              *)
(***************************************************************************)
EXTENDS Integers, Sequences, FiniteSets

CONSTANTS
  Ctx,       (* the addresses of contexts                                  *)
  Outer,     (* the client's own handles: variables, members               *)
  Null,      (* mCtx = 0                                                   *)
  Gone,      (* the handle does not exist: not constructed, or destroyed   *)
  MaxItems,  (* bound: the objects of one context                          *)
  Limit      (* the largest mRefCount, 2^32 - 1 in the code                *)

(* The handles inside the objects: object k of context c holds <<c, k>>. *)
Slot == Ctx \X (1..MaxItems)
Handle == Outer \cup Slot

ASSUME ObjPtrAssumption ==
  /\ IsFiniteSet(Ctx) /\ IsFiniteSet(Outer)
  /\ Null \notin Ctx /\ Gone \notin Ctx /\ Null # Gone
  /\ Outer \cap Slot = {}
  /\ MaxItems \in Nat
  /\ Limit \in Nat \ {0}

VARIABLES
  alloc,   (* the contexts allocated and not recycled yet                  *)
  size,    (* the objects freeCtx() will destroy in each of them           *)
  count,   (* mRefCount                                                    *)
  ptr,     (* mCtx of every handle                                         *)
  frames,  (* the freeCtx() calls going on, the innermost last             *)
  task,    (* the operation whose release() they belong to                 *)
  lost,    (* history: contexts whose construction was left by an          *)
           (* exception, so that no handle ever got them                   *)
  fault    (* why the behaviour stops: the code has left defined ground    *)

ptrVars == <<alloc, size, count, ptr, frames, task, lost, fault>>

Frame == [by : Handle, ctx : Ctx, next : Nat]
Idle == [op |-> "none", to |-> Null, from |-> Null, was |-> Null,
         doomed |-> FALSE]
Task == {Idle} \cup [op : {"assign", "destroy"}, to : Handle, from : Handle,
                     was : Ctx \cup {Null}, doomed : BOOLEAN]
Faults == {"none", "dead", "overflow"}

PtrInit ==
  /\ alloc = {}
  /\ size = [c \in Ctx |-> 0]
  /\ count = [c \in Ctx |-> 0]
  /\ ptr = [h \in Handle |-> Gone]
  /\ frames = <<>>
  /\ task = Idle
  /\ lost = {}
  /\ fault = "none"

Quiet == frames = <<>> /\ task = Idle /\ fault = "none"
Exists(h) == ptr[h] # Gone

(* The objects of a context, as freeCtx() counts and finds them. *)
ObjCount(c) == size[c]
ObjAt(c, k) == <<c, k>>

(* Memory a handle can be constructed in. *)
Room(h) ==
  /\ ptr[h] = Gone
  /\ h \in Slot => h[1] \in alloc /\ h[2] <= ObjCount(h[1])

-----------------------------------------------------------------------------
(* obj_ptr(). *)
Construct(h) ==
  /\ Quiet /\ Room(h)
  /\ ptr' = [ptr EXCEPT ![h] = Null]
  /\ UNCHANGED <<alloc, size, count, frames, task, lost, fault>>

(* obj_ptr(objConstructor, n): createCtx().  n = 0 stands for a context    *)
(* of obj_ptr<obj_base *, IT> that frees nothing: mObjects is null or not  *)
(* the first of its array.                                                 *)
Create(h, c, n) ==
  /\ Quiet /\ Room(h)
  /\ c \notin alloc
  /\ alloc' = alloc \cup {c}
  /\ size' = [size EXCEPT ![c] = n]
  /\ count' = [count EXCEPT ![c] = 1]
  /\ ptr' = [ptr EXCEPT ![h] = c]
  /\ UNCHANGED <<frames, task, lost, fault>>

(* The constructor of an object throws: the handle does not come to exist, *)
(* so nobody destroys what createCtx() had made.                           *)
CreateFails(c) ==
  /\ Quiet
  /\ c \notin alloc
  /\ alloc' = alloc \cup {c}
  /\ size' = [size EXCEPT ![c] = 0]
  /\ count' = [count EXCEPT ![c] = 1]
  /\ lost' = lost \cup {c}
  /\ UNCHANGED <<ptr, frames, task, fault>>

Copy_Uncounted(h, s) ==
  /\ Quiet /\ Room(h) /\ Exists(s)
  /\ ptr' = [ptr EXCEPT ![h] = ptr[s]]
  /\ UNCHANGED <<alloc, size, count, frames, task, lost, fault>>

(* obj_ptr(src): at the limit the copy is null, without a word. *)
Copy(h, s) ==
  /\ Quiet /\ Room(h) /\ Exists(s)
  /\ IF ptr[s] \in Ctx /\ count[ptr[s]] # Limit
     THEN /\ count' = [count EXCEPT ![ptr[s]] = @ + 1]
          /\ ptr' = [ptr EXCEPT ![h] = ptr[s]]
     ELSE /\ ptr' = [ptr EXCEPT ![h] = Null]
          /\ UNCHANGED count
  /\ UNCHANGED <<alloc, size, frames, task, lost, fault>>

(* What ~obj_ptr asks before it releases.  operator = (obj_base.h:488) only *)
(* asks for a context; release() would throw for a count of 0 there.  The  *)
(* two differ for a handle to a context with no handle, which CountExact   *)
(* excludes: one guard serves both.                                        *)
Counted(h) == ptr[h] \in Ctx /\ count[ptr[h]] # 0

(* Mutant: the context is freed when one handle is left. *)
Release_Early(h) ==
  LET c == ptr[h]
  IN  /\ count' = [count EXCEPT ![c] = @ - 1]
      /\ IF count[c] <= 2
         THEN /\ frames' = Append(frames, [by |-> h, ctx |-> c, next |-> 1])
              /\ UNCHANGED ptr
         ELSE /\ ptr' = [ptr EXCEPT ![h] = Null]
              /\ UNCHANGED frames

(* release(): the last handle frees the context, and only then becomes     *)
(* null.                                                                   *)
Release(h) ==
  LET c == ptr[h]
  IN  /\ count' = [count EXCEPT ![c] = @ - 1]
      /\ IF count[c] = 1
         THEN /\ frames' = Append(frames, [by |-> h, ctx |-> c, next |-> 1])
              /\ UNCHANGED ptr
         ELSE /\ ptr' = [ptr EXCEPT ![h] = Null]
              /\ UNCHANGED frames

(* The contexts the client's handles lead to without those in "but".       *)
Reach(but) ==
  LET PointedBy(H) == {ptr[h] : h \in H \ but} \cap Ctx
      r[n \in 0..Cardinality(Ctx)] ==
        IF n = 0 THEN PointedBy(Outer)
        ELSE r[n - 1] \cup PointedBy({s \in Slot : s[1] \in r[n - 1]})
  IN  r[Cardinality(Ctx)]

(* h or s lies in an object that is only kept by what h lets go.           *)
Doomed(h, s) == \E x \in {h, s} \cap Slot : x[1] \notin Reach({h})

(* operator = and the destructor both begin with release().  For h = s the *)
(* source is null by the time it is read.                                  *)
Begin(o, h, s) ==
  /\ Quiet /\ Exists(h) /\ Exists(s)
  /\ task' = [op |-> o, to |-> h, from |-> s, was |-> ptr[s],
              doomed |-> Doomed(h, s)]
  /\ IF Counted(h) THEN Release(h) ELSE UNCHANGED <<count, ptr, frames>>
  /\ UNCHANGED <<alloc, size, lost, fault>>

Assign(h, s) == Begin("assign", h, s)
Destroy(h) == Begin("destroy", h, h)

(* An iteration of the loop in freeCtx(): ~OT() of the next object, which  *)
(* destroys its handle.                                                    *)
Top == frames[Len(frames)]
SlotAt == ObjAt(Top.ctx, Top.next)

DestroyItem_NoRelease ==
  /\ fault = "none" /\ frames # <<>>
  /\ Top.next <= ObjCount(Top.ctx)
  /\ ptr' = [ptr EXCEPT ![SlotAt] = Gone]
  /\ frames' = [frames EXCEPT ![Len(frames)].next = @ + 1]
  /\ UNCHANGED <<alloc, size, count, task, lost, fault>>

DestroyItem ==
  /\ fault = "none" /\ frames # <<>>
  /\ Top.next <= ObjCount(Top.ctx)
  /\ IF Counted(SlotAt) THEN Release(SlotAt)
     ELSE /\ ptr' = [ptr EXCEPT ![SlotAt] = Gone]
          /\ frames' = [frames EXCEPT ![Len(frames)].next = @ + 1]
          /\ UNCHANGED count
  /\ UNCHANGED <<alloc, size, task, lost, fault>>

(* The end of freeCtx(), and of the release() that called it.  The handle  *)
(* set to null there must still exist.                                     *)
Recycle ==
  /\ fault = "none" /\ frames # <<>>
  /\ Top.next > ObjCount(Top.ctx)
  /\ alloc' = alloc \ {Top.ctx}
  /\ size' = [size EXCEPT ![Top.ctx] = 0]
  /\ frames' = SubSeq(frames, 1, Len(frames) - 1)
  /\ IF Exists(Top.by)
     THEN /\ ptr' = [ptr EXCEPT ![Top.by] = Null]
          /\ UNCHANGED fault
     ELSE /\ fault' = "dead"
          /\ UNCHANGED ptr
  /\ UNCHANGED <<count, task, lost>>

(* The destructor is done. *)
Destroyed ==
  /\ task.op = "destroy"
  /\ ptr' = [ptr EXCEPT ![task.to] = Gone]
  /\ task' = Idle
  /\ UNCHANGED <<count, fault>>

Assigned_NullAtLimit ==
  LET v == ptr[task.from]
      full == v \in Ctx /\ count[v] = Limit
  IN  /\ task.op = "assign"
      /\ Exists(task.from)
      /\ ptr' = [ptr EXCEPT ![task.to] = IF full THEN Null ELSE v]
      /\ task' = Idle
      /\ count' = IF v \in Ctx /\ ~full
                  THEN [count EXCEPT ![v] = @ + 1] ELSE count
      /\ UNCHANGED fault

Assigned_Wraps ==
  LET v == ptr[task.from]
  IN  /\ task.op = "assign"
      /\ Exists(task.from)
      /\ ptr' = [ptr EXCEPT ![task.to] = v]
      /\ task' = Idle
      /\ count' = IF v \in Ctx
                  THEN [count EXCEPT ![v] = (@ + 1) % (Limit + 1)] ELSE count
      /\ UNCHANGED fault

(* operator = goes on: it reads the source only now, takes its pointer and *)
(* then counts it.  At the limit addRef() throws, the pointer being taken. *)
Assigned ==
  LET v == ptr[task.from]
  IN  /\ task.op = "assign"
      /\ Exists(task.from)
      /\ ptr' = [ptr EXCEPT ![task.to] = v]
      /\ task' = Idle
      /\ CASE v = Null -> UNCHANGED <<count, fault>>
           [] v \in Ctx /\ count[v] = Limit ->
                fault' = "overflow" /\ UNCHANGED count
           [] v \in Ctx /\ count[v] # Limit ->
                count' = [count EXCEPT ![v] = @ + 1] /\ UNCHANGED fault

(* The source has been destroyed together with what the target let go. *)
SourceDied ==
  /\ task.op = "assign"
  /\ ~Exists(task.from)
  /\ fault' = "dead"
  /\ UNCHANGED <<count, ptr, task>>

Finish ==
  /\ fault = "none" /\ frames = <<>> /\ task # Idle
  /\ Destroyed \/ Assigned \/ SourceDied
  /\ UNCHANGED <<alloc, size, frames, lost>>

Free == DestroyItem \/ Recycle \/ Finish

PtrNext ==
  \/ \E h \in Handle : Construct(h) \/ Destroy(h)
  \/ \E h \in Outer, c \in Ctx, n \in 0..MaxItems : Create(h, c, n)
  \/ \E c \in Ctx : CreateFails(c)
  \/ \E h, s \in Handle : Copy(h, s) \/ Assign(h, s)
  \/ Free

PtrSpec == PtrInit /\ [][PtrNext]_ptrVars

-----------------------------------------------------------------------------
PtrTypeOK ==
  /\ alloc \in SUBSET Ctx
  /\ lost \in SUBSET alloc
  /\ size \in [Ctx -> 0..MaxItems]
  /\ count \in [Ctx -> 0..Limit]
  /\ ptr \in [Handle -> Ctx \cup {Null, Gone}]
  /\ frames \in Seq(Frame)
  /\ task \in Task
  /\ fault \in Faults

(* No handle that exists points to recycled memory, in the middle of a     *)
(* cascade of destructors included, and no object holds a handle outside   *)
(* its life (obj_base.h, operator =, release, freeCtx).                    *)
NoDangling ==
  fault = "none" =>
     \A h \in Handle : Exists(h) =>
        /\ ptr[h] \in Ctx => ptr[h] \in alloc
        /\ h \in Slot => h[1] \in alloc

(* mRefCount is the number of handles, but for those a release() is about  *)
(* to set to null, and but for the one addRef() threw for (obj_base.h,     *)
(* addRef and release).                                                    *)
Releasing == {frames[k].by : k \in DOMAIN frames}
Holders(c) == {h \in Handle \ Releasing : ptr[h] = c}

CountExact ==
  \A c \in alloc \ lost :
     LET n == Cardinality(Holders(c))
     IN  count[c] = n \/ (fault = "overflow" /\ count[c] = Limit /\ n = Limit + 1)

(* No objects hold each other in a circle. *)
Acyclic ==
  LET Held(S) == {ptr[s] : s \in {t \in Slot : t[1] \in S}} \cap Ctx
  IN  ~\E S \in SUBSET alloc : S # {} /\ S \subseteq Held(S)

(* Between operations exactly the contexts somebody can still reach exist: *)
(* none is freed while it is needed, none stays behind, unless objects     *)
(* hold each other in a circle (obj_base.h, obj_ptr).                      *)
KeptExactly == Quiet /\ Acyclic => alloc \ lost = Reach({})

(* After "to = from", to points to what from pointed to, unless it was     *)
(* assigned to itself, which makes it null (obj_base.h, operator =).       *)
AssignFaithful ==
  [][(task.op = "assign" /\ task' = Idle)
       => ptr'[task.to] = IF task.to = task.from THEN Null ELSE task.was]_ptrVars

(* The code touches a handle that is gone only if the client assigned from *)
(* (or to) a handle inside an object that nothing but the target kept, the *)
(* "list = list->next" of its users (obj_base.h, operator =).              *)
DeadOnlyIfDoomed == fault = "dead" => task.doomed
=============================================================================

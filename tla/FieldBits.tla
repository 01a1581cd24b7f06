----------------------------- MODULE FieldBits -----------------------------
(***************************************************************************)
(* The bits under the fields: bit_ref and copyBits (field_des.h/.cpp), the *)
(* growing buf_val they work on (value_obj.cpp), and the leaf descriptors  *)
(* of the test program (field_des.cpp): int_field, and bm_bits_field whose *)
(* FieldCount() reads the fields it depends on.                            *)
(*                                                                         *)
(* A buffer is the sequence of its bits, the most significant of a byte    *)
(* first.  Memory that nobody has written holds Unset bits, which may read *)
(* as either.  Byte is 8 in the code.  Sizes are not taken modulo 2^32: a  *)
(* buffer of 2^29 bytes would be needed.                                   *)
(***************************************************************************)
EXTENDS Integers, Sequences, FiniteSets, SequencesExt

CONSTANTS
  Byte,         (* bits per byte                                           *)
  Fields,       (* the leaf fields: offset, size in bits and type          *)
  Width, Height, Counted,  (* two of them and the one whose count they give*)
  Ints,         (* the integers that are encoded                           *)
  MaxBytes,     (* bound: the sizes of the buffers                         *)
  Ranges,       (* the <<source offset, destination offset, length>> copied*)
  Modulus       (* uint32_t counts modulo this                             *)

Buffers == {"msg", "out"}

ASSUME BitsAssumption ==
  /\ Byte \in Nat \ {0}
  /\ MaxBytes \in [Buffers -> Nat]
  /\ {Width, Height, Counted} \subseteq DOMAIN Fields
  /\ Modulus \in Nat \ {0}

Unset == 2
None == -1

VARIABLES
  buf,     (* the bits of the buffers; fields are encoded into "msg"       *)
  told,    (* history: the value last encoded into every field             *)
  cut      (* history: the fields whose value did not fit the buffer       *)

bitsVars == <<buf, told, cut>>

Bits(v, n) == [k \in 1..n |-> (v \div 2^(n - k)) % 2]

(* The numbers some bits may be read as. *)
Possible(bits) ==
  {v \in 0..(2^Len(bits) - 1) : \A k \in DOMAIN bits : bits[k] \in {Unset, Bits(v, Len(bits))[k]}}

MaxSize(b) == Len(buf[b])
IsValid(b, offset) == offset < MaxSize(b)

Garbage(n) == [k \in 1..n |-> Unset]

(* buf_val::Resize: a buffer only grows; its new part is not initialized,  *)
(* with cleanBuf nothing of it is.                                         *)
Resize(bits, bytes, cleanBuf) ==
  IF bytes * Byte <= Len(bits) THEN bits
  ELSE IF cleanBuf THEN Garbage(bytes * Byte)
  ELSE bits \o Garbage(bytes * Byte - Len(bits))

(* The loop of copyBits, one bit at a time from the first on; within one   *)
(* buffer it reads what it has already written.                            *)
MoveBits(src, srcOffset, dst, dstOffset, n, same) ==
  FoldLeft(LAMBDA d, k : [d EXCEPT ![dstOffset + k] = (IF same THEN d ELSE src)[srcOffset + k]],
           dst, [k \in 1..n |-> k])

CopyLength(srcSize, srcOffset, dstSize, dstOffset, length) ==
  IF srcOffset < srcSize /\ dstOffset < dstSize THEN Min({length, srcSize - srcOffset}) ELSE 0

(* copyBits of arrays: what does not fit is left out. *)
CopyArray(src, srcOffset, dst, dstOffset, length) ==
  LET n == CopyLength(Len(src), srcOffset, Len(dst), dstOffset, length)
  IN  MoveBits(src, srcOffset, dst, dstOffset, Min({n, Len(dst) - dstOffset}), FALSE)

(* Mutant: the last, incomplete byte is forgotten. *)
BytesFor_Down(bits) == bits \div Byte

BytesFor(bits) == (bits + Byte - 1) \div Byte

-----------------------------------------------------------------------------
(***************************************************************************)
(* int_field.                                                              *)
(***************************************************************************)
FieldOf(f) == Fields[f].offset + 1 .. Fields[f].offset + Fields[f].size
Overlapping(places) == {f \in DOMAIN Fields : FieldOf(f) \cap places # {}}

(* Mutant: one bit of the neighbour is taken along. *)
ImportField_Long(f, v) ==
  LET n == Fields[f].size
  IN  CopyArray(Bits(v, n) \o <<0>>, 0, buf["msg"], Fields[f].offset, n + 1)

(* encVal and ImportBits: the value, most significant byte first, as far   *)
(* as the buffer goes.                                                     *)
ImportField(f, v) ==
  CopyArray(Bits(v, Fields[f].size), 0, buf["msg"], Fields[f].offset, Fields[f].size)

(* DecodeField: the values it may return, none if it returns false.  The   *)
(* array ExportBits() fills is not initialized.                            *)
Decoded(f) ==
  LET n == Fields[f].size
      data == CopyArray(buf["msg"], Fields[f].offset, Garbage(n), 0, n)
  IN  IF ~IsValid("msg", Fields[f].offset) THEN {}
      ELSE IF Fields[f].type = "bln" THEN {IF v = 0 THEN 0 ELSE 1 : v \in Possible(data)}
      ELSE Possible(data)

ToldAfter(places) ==
  [f \in DOMAIN Fields |-> IF f \in Overlapping(places) THEN None ELSE told[f]]

(* EncodeField answers true as soon as one bit of the value fits. *)
EncodeField(f, v) ==
  /\ v \in IF Fields[f].type = "bln" THEN {0, 1} ELSE Ints
  /\ LET valid == IsValid("msg", Fields[f].offset)
     IN  /\ buf' = IF valid THEN [buf EXCEPT !["msg"] = ImportField(f, v)] ELSE buf
         /\ told' = IF valid THEN [ToldAfter(FieldOf(f)) EXCEPT ![f] = v] ELSE told
         /\ cut' = IF ~valid THEN cut
                   ELSE IF FieldOf(f) \subseteq 1..MaxSize("msg") THEN cut \ {f}
                   ELSE cut \cup {f}

(* int32_t and its absolute value as uint32_t. *)
Signed(v, n) == IF v < 2^(n - 1) THEN v ELSE v - 2^n
Abs(v) == IF v < 0 THEN -v ELSE v

(* Mutant: the sign is kept. *)
CountOf_Signed(w, h) ==
  (Signed(w, Fields[Width].size) * Signed(h, Fields[Height].size)) % Modulus

CountOf(w, h) ==
  (Abs(Signed(w, Fields[Width].size)) * Abs(Signed(h, Fields[Height].size))) % Modulus

(* bm_bits_field::FieldCount: what it may return.  It does not look at     *)
(* what DecodeField() returns: a width behind the end of the buffer counts *)
(* as 0, a height behind it as the width that is still in fieldVal.        *)
FieldCounts ==
  IF ~IsValid("msg", Fields[Counted].offset) THEN {0}
  ELSE UNION {{CountOf(w, h) : h \in IF Decoded(Height) = {} THEN {w} ELSE Decoded(Height)} :
                w \in IF Decoded(Width) = {} THEN {0} ELSE Decoded(Width)}

-----------------------------------------------------------------------------
(***************************************************************************)
(* The other operations.                                                   *)
(***************************************************************************)
ResizeBuf(b, bytes, cleanBuf) ==
  /\ buf' = [buf EXCEPT ![b] = Resize(@, bytes, cleanBuf)]
  /\ told' = IF b = "msg" /\ cleanBuf /\ bytes * Byte > MaxSize(b)
             THEN [f \in DOMAIN Fields |-> None] ELSE told
  /\ cut' = IF told' = told THEN cut ELSE {}

(* copyBits of two buf_vals, or within one (ExportBits, ImportBits): the   *)
(* destination grows for what is copied, by whole bytes.                   *)
Copied(s, d, range) ==
  LET n == CopyLength(MaxSize(s), range[1], MaxSize(d), range[2], range[3])
      grown == IF n > 0 /\ MaxSize(d) < range[2] + n
               THEN Resize(buf[d], BytesFor(range[2] + n), FALSE) ELSE buf[d]
  IN  MoveBits(buf[s], range[1], grown, range[2], n, s = d)

Places(s, d, range) ==
  range[2] + 1 ..
  range[2] + CopyLength(MaxSize(s), range[1], MaxSize(d), range[2], range[3])

CopyBits(s, d, range) ==
  /\ Len(Copied(s, d, range)) <= MaxBytes[d] * Byte
  /\ buf' = [buf EXCEPT ![d] = Copied(s, d, range)]
  /\ told' = IF d = "msg" THEN ToldAfter(Places(s, d, range)) ELSE told
  /\ UNCHANGED cut

(* A bit_ref moved by += and -=, then assigned a bit.  The sum that is     *)
(* compared with the size of the buffer is one of 32 bits: a large step    *)
(* comes around to the front.                                              *)
AssignBit(offset, add, sub, bit) ==
  LET moved == (offset + add) % Modulus
      at == moved - sub
  IN  /\ IF (add > 0 /\ moved > MaxSize("msg")) \/ at < 0 \/ ~IsValid("msg", at)
         THEN UNCHANGED <<buf, told>>
         ELSE /\ buf' = [buf EXCEPT !["msg"][at + 1] = bit]
              /\ told' = ToldAfter({at + 1})
      /\ UNCHANGED cut

BitsInit ==
  /\ buf = [b \in Buffers |-> <<>>]
  /\ told = [f \in DOMAIN Fields |-> None]
  /\ cut = {}

BitsNext ==
  \/ \E f \in DOMAIN Fields, v \in Ints \cup {0, 1} : EncodeField(f, v)
  \/ \E b \in Buffers : \E n \in 1..MaxBytes[b], c \in BOOLEAN : ResizeBuf(b, n, c)
  \/ \E s, d \in Buffers, r \in Ranges : CopyBits(s, d, r)
  \/ \E r \in Ranges, sub \in 0..1, bit \in 0..1 : AssignBit(r[1], r[3], sub, bit)

BitsSpec == BitsInit /\ [][BitsNext]_bitsVars

-----------------------------------------------------------------------------
(***************************************************************************)
(* Properties.                                                             *)
(***************************************************************************)
(* A field keeps the value that EncodeField() said it took, through the    *)
(* encoding of its neighbours in the same bytes and the growth of the      *)
(* buffer, until something is written over it; of a value that did not     *)
(* fit the buffer the front part is kept (field_des.cpp, int_field and     *)
(* copyBits; value_obj.cpp, buf_val::Resize).                              *)
DecodesBack ==
  \A f \in DOMAIN Fields :
     told[f] # None => /\ told[f] \in Decoded(f)
                       /\ f \notin cut => Decoded(f) = {told[f]}

(* The count of a field that depends on two others is the product of the   *)
(* absolute values that were encoded into them, as long as both lie in the *)
(* buffer (field_des.cpp, bm_bits_field::FieldCount).                      *)
CountTrue ==
  LET Size(f) == Abs(IF told[f] >= 2^(Fields[f].size - 1) THEN told[f] - 2^Fields[f].size
                     ELSE told[f])
  IN  ( /\ None \notin {told[Width], told[Height]}
        /\ {Width, Height} \cap cut = {}
        /\ IsValid("msg", Fields[Counted].offset) )
      => FieldCounts = {(Size(Width) * Size(Height)) % Modulus}

(* Copying bits changes nothing but the bits copied to, which are those    *)
(* copied from unless the copy runs over itself; the destination never     *)
(* shrinks and ends at the first whole byte they fit in (field_des.cpp,    *)
(* copyBits).                                                              *)
CopyExact ==
  \A s, d \in Buffers, range \in Ranges :
     LET new == Copied(s, d, range)
         from == range[1]
         to == range[2]
         n == IF from < MaxSize(s) /\ to < MaxSize(d)
              THEN Min({range[3], MaxSize(s) - from}) ELSE 0
         places == to + 1 .. to + n
     IN  /\ \A k \in DOMAIN buf[d] \ places : k \in DOMAIN new /\ new[k] = buf[d][k]
         /\ places \subseteq DOMAIN new
         /\ (s # d \/ to <= from) =>
              \A k \in places \cap DOMAIN new : new[k] = buf[s][k - to + from]
         /\ Len(new) < Max({MaxSize(d) + 1, to + n + Byte})
=============================================================================

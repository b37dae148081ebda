----------------------------- MODULE InstrFormat -----------------------------
(***************************************************************************)
(* The binary form of COIL instructions (src/instr.c): what each encoder   *)
(* appends to a section and what each decoder makes of the bytes it finds. *)
(* The module has no variables.  Encoders are sets of outcomes, because    *)
(* the section may have to grow; decoders are functions of the section's   *)
(* bytes, a position and the caller's memory, which even a failed call may *)
(* change.                                                                 *)
(*                                                                         *)
(* Structures are written as the compiler lays them out, with the widths   *)
(* of the code: a u64 is a function from 0 .. 7 to bytes.                  *)
(***************************************************************************)
EXTENDS SectionBuffer

WordSize   == 8
FlagSize   == 2           \* coil_instrflag_t
ValueSize  == 16          \* coil_instrval_t: opcode, 7 bytes of padding, u64
HeaderSize == 3           \* coil_operand_header_t
OffsetSize == 24          \* coil_offset_t: three u64

ASSUME CodeAssumption == 0 .. 255 \subseteq Byte /\ OffsetSize < MaxAlloc

Cells(n)   == [0 .. n - 1 -> Cell]
NoCells    == NoImage
ZeroOffset == [i \in 0 .. OffsetSize - 1 |-> 0]

(***************************************************************************)
(* coil_instrfmt: the opcodes of each format.  Opcodes of types.h that are *)
(* in none of the sets (PUSHFD .. SCOPL, the CPU_ ones) are unknown.       *)
(***************************************************************************)
VoidOps       == {0, 4}                             \* NOP RET
ValueOps      == {224}                              \* DEF
UnaryOps      == {2, 225}                           \* JMP UDEF
BinaryOps     == {160}                              \* CVT
FlagUnaryOps  == {1, 3, 17, 18, 37, 38, 39, 83}     \* BR CALL PUSH POP INC ..
FlagBinaryOps ==                                    \* CMP MOV LEA ADD AND ..
  {5, 6, 16, 19} \cup 32 .. 36 \cup 80 .. 82 \cup 84 .. 87
FlagTenaryOps == 240 .. 243                         \* SPARAM GPARAM SRET GRET

Format == {"UNKN", "VOID", "VALUE", "UNARY", "BINARY", "TENARY",
           "FLAG_UNARY", "FLAG_BINARY", "FLAG_TENARY"}
BasicFormat == {"VOID", "UNARY", "BINARY", "TENARY"}
FlagFormat  == {"FLAG_UNARY", "FLAG_BINARY", "FLAG_TENARY"}

coil_instrfmt(op) ==
  CASE op \in VoidOps       -> "VOID"
    [] op \in ValueOps      -> "VALUE"
    [] op \in UnaryOps      -> "UNARY"
    [] op \in BinaryOps     -> "BINARY"
    [] op \in FlagUnaryOps  -> "FLAG_UNARY"
    [] op \in FlagBinaryOps -> "FLAG_BINARY"
    [] op \in FlagTenaryOps -> "FLAG_TENARY"
    [] OTHER                -> "UNKN"

(* The operands that follow a header of the format, from the comments of   *)
(* coil_instrfmt_e: the code leaves them to the client.                    *)
Operands(fmt) ==
  CASE fmt \in {"VALUE", "UNARY", "FLAG_UNARY"} -> 1
    [] fmt \in {"BINARY", "FLAG_BINARY"}        -> 2
    [] fmt \in {"TENARY", "FLAG_TENARY"}        -> 3
    [] OTHER                                    -> 0

TYPEOP_OFF == 6

(* Mutant: 32-bit values are given the size of 16-bit ones. *)
TypeSizeHalved(value_type) ==
  CASE value_type \in {0, 16, 254}             -> 1
    [] value_type \in {1, 17, 2, 18, 243}      -> 2
    [] value_type \in {3, 19} \cup 224 .. 226 \cup {240, 241, 242, 244} -> 8
    [] OTHER                                   -> 0

(***************************************************************************)
(* coil_value_type_size.  I128, U128 and VOID have no case or fall to the  *)
(* default; F32 and F64 do not exist in types.h.                           *)
(***************************************************************************)
coil_value_type_size(value_type) ==
  CASE value_type \in {0, 16, 254}             -> 1    \* I8 U8 BIT
    [] value_type \in {1, 17}                  -> 2    \* I16 U16
    [] value_type \in {2, 18, 243}             -> 4    \* I32 U32 REG
    [] value_type \in {3, 19} \cup 224 .. 226          \* I64 U64 PTR SIZE SSIZE
                      \cup {240, 241, 242, 244} -> 8   \* VAR SYM EXP STR
    [] OTHER                                   -> 0

(* The width of a value as types.h names it, in the name or in the comment. *)
WideTypes == {4, 20}                                    \* I128 U128

NamedSize(value_type) ==
  CASE value_type \in WideTypes             -> 16
    [] value_type \in {3, 19} \cup 224 .. 226
                      \cup {240, 241, 242, 244} -> WordSize
    [] value_type \in {2, 18, 243}          -> 4
    [] value_type \in {1, 17}               -> 2
    [] value_type \in {0, 16, 254}          -> 1
    [] OTHER                                -> 0

-----------------------------------------------------------------------------
(* Encoding *)

InstrCells(op)       == [i \in 0 .. 0 |-> op]
FlagCells(op, flag)  == [i \in 0 .. FlagSize - 1 |-> IF i = 0 THEN op ELSE flag]

(* The padding between opcode and value is whatever the stack held. *)
ValueCells(op, value) ==
  [i \in 0 .. ValueSize - 1 |->
     IF i = 0 THEN op ELSE IF i < WordSize THEN Junk ELSE value[i - WordSize]]

HeaderCells(type, value_type, modifier) ==
  [i \in 0 .. HeaderSize - 1 |->
     IF i = 0 THEN type ELSE IF i = 1 THEN value_type ELSE modifier]

coil_instr_encode(s, heap, op) == WriteOutcomes(s, heap, 1, InstrCells(op))

(* Mutant: as many bytes as the largest header has are written. *)
FlagEncodeWide(s, heap, op, flag) ==
  WriteOutcomes(s, heap, ValueSize,
                [i \in 0 .. ValueSize - 1 |->
                   IF i < FlagSize THEN FlagCells(op, flag)[i] ELSE Junk])

coil_instrflag_encode(s, heap, op, flag) ==
  WriteOutcomes(s, heap, FlagSize, FlagCells(op, flag))

coil_instrval_encode(s, heap, op, value) ==
  WriteOutcomes(s, heap, ValueSize, ValueCells(op, value))

coil_operand_encode(s, heap, type, value_type, modifier) ==
  WriteOutcomes(s, heap, HeaderSize, HeaderCells(type, value_type, modifier))

(* Mutant: the size of a pointer is taken for the size of the offset. *)
EncodeOffPointer(s, heap, type, value_type, modifier, offset) ==
  UNION {IF o.err = "GOOD"
           THEN WriteOutcomes(o.sect, o.heap, WordSize, offset)
           ELSE {o} :
         o \in coil_operand_encode(s, heap, TYPEOP_OFF, value_type, modifier)}

(* The type is not used.  Two writes: the second may fail alone. *)
coil_operand_encode_off(s, heap, type, value_type, modifier, offset) ==
  UNION {IF o.err = "GOOD"
           THEN WriteOutcomes(o.sect, o.heap, OffsetSize, offset)
           ELSE {o} :
         o \in coil_operand_encode(s, heap, TYPEOP_OFF, value_type, modifier)}

coil_operand_encode_data(s, heap, data, datasize) ==
  IF datasize = 0 THEN {Outcome("INVAL", s, heap)}
  ELSE WriteOutcomes(s, heap, datasize, data)

-----------------------------------------------------------------------------
(***************************************************************************)
(* Decoding.  img is the section's buffer, size its content.  out is the   *)
(* caller's memory behind the out-parameters: instrmem and fmt; header and *)
(* offset; data and valsize.  A decoder returns the new position, or 0.    *)
(***************************************************************************)
Out ==
  [fmt : Format, mem : Cells(ValueSize),
   header : Cells(HeaderSize), offset : Cells(OffsetSize),
   data : Cells(WordSize), valsize : {0, 1, 2, 4, 8}]

Decoded(pos, out) == [pos |-> pos, err |-> "GOOD", out |-> out]
Refused(err, out) == [pos |-> 0, err |-> err, out |-> out]

(* A read outside of the buffer gives no defined value. *)
At(img, i) == IF i \in DOMAIN img THEN img[i] ELSE Junk

Copied(img, pos, n) == [i \in 0 .. n - 1 |-> At(img, pos + i)]

HeaderLength(fmt) ==
  CASE fmt \in BasicFormat -> 1
    [] fmt \in FlagFormat  -> FlagSize
    [] OTHER               -> ValueSize

(* fmt is stored before the header is known to be complete. *)
coil_instr_decode(img, size, pos, out) ==
  LET fmt == coil_instrfmt(At(img, pos))
      end == Plus(pos, HeaderLength(fmt))
  IN  IF pos >= size \/ fmt = "UNKN" THEN Refused("FORMAT", out)
      ELSE IF end > size THEN Refused("FORMAT", [out EXCEPT !.fmt = fmt])
      ELSE Decoded(end, [out EXCEPT
             !.fmt = fmt,
             !.mem = Overlay(@, 0, HeaderLength(fmt),
                             Copied(img, pos, HeaderLength(fmt)))])

(* Mutant: the offset is read without a test that it is there. *)
OperandDecodeUnchecked(img, size, pos, out) ==
  LET mid    == Plus(pos, HeaderSize)
      header == Copied(img, pos, HeaderSize)
  IN  IF mid > size THEN Refused("FORMAT", out)
      ELSE IF header[0] # TYPEOP_OFF
        THEN Decoded(mid, [out EXCEPT !.header = header, !.offset = ZeroOffset])
      ELSE Decoded(Plus(mid, OffsetSize),
                   [out EXCEPT !.header = header,
                               !.offset = Copied(img, mid, OffsetSize)])

(* The header is stored before its offset is known to be complete. *)
coil_operand_decode(img, size, pos, out) ==
  LET mid    == Plus(pos, HeaderSize)
      end    == Plus(mid, OffsetSize)
      header == Copied(img, pos, HeaderSize)
  IN  IF mid > size THEN Refused("FORMAT", out)
      ELSE IF header[0] # TYPEOP_OFF
        THEN Decoded(mid, [out EXCEPT !.header = header, !.offset = ZeroOffset])
      ELSE IF end > size THEN Refused("FORMAT", [out EXCEPT !.header = header])
      ELSE Decoded(end, [out EXCEPT !.header = header,
                                    !.offset = Copied(img, mid, OffsetSize)])

(* Mutant: valsize is set on success only. *)
DataDecodeLate(img, size, pos, datasize, out) ==
  LET n   == coil_value_type_size(out.header[1])
      end == Plus(pos, n)
  IN  IF datasize < n THEN Refused("NOMEM", out)
      ELSE IF end > size THEN Refused("FORMAT", out)
      ELSE Decoded(end, [out EXCEPT
             !.valsize = n, !.data = Overlay(@, 0, n, Copied(img, pos, n))])

(* valsize is set first, so that a caller without room learns how much to  *)
(* bring.                                                                  *)
coil_operand_decode_data(img, size, pos, datasize, out) ==
  LET n   == coil_value_type_size(out.header[1])
      end == Plus(pos, n)
      own == [out EXCEPT !.valsize = n]
  IN  IF datasize < n THEN Refused("NOMEM", own)
      ELSE IF end > size THEN Refused("FORMAT", own)
      ELSE Decoded(end, [own EXCEPT !.data = Overlay(@, 0, n, Copied(img, pos, n))])
=============================================================================

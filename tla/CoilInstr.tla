------------------------------ MODULE CoilInstr ------------------------------
(***************************************************************************)
(* A program that writes instructions into a section (src/instr.c) and     *)
(* reads them back from the same section while it writes.  Every call is   *)
(* one step; calls of the two sides come in any order, and every malloc    *)
(* may fail.                                                               *)
(*                                                                         *)
(* The writer keeps to the layout that the formats of types.h describe: a  *)
(* header, then for each operand its header and its data.  After a call    *)
(* that failed it seeks back to where the call began, and may then write   *)
(* something else.  The reader keeps its position when a decoder refuses,  *)
(* and brings a larger buffer when it is told to.                          *)
(*                                                                         *)
(* Liberties are the conditions instr.h does not state.                    *)
(***************************************************************************)
EXTENDS InstrFormat, Sequences

CONSTANTS
  Ops, Flags, Types, ValueTypes, Modifiers,  \* the bytes the writer uses
  Words,         \* the 64-bit values it uses
  Offsets,       \* the offsets it uses
  InitCapacity,  \* the capacity it gives the section
  Room,          \* the size of the reader's data buffer at first
  MaxPieces,     \* how much it writes (bounds the model)
  Liberties      \* what the writer does that a careful one does not

ASSUME InstrAssumption ==
  /\ Ops \cup Flags \cup Types \cup ValueTypes \cup Modifiers \subseteq 0 .. 255
  /\ Words \subseteq [0 .. WordSize - 1 -> Byte]
  /\ Offsets \subseteq [0 .. OffsetSize - 1 -> Byte]
  /\ InitCapacity \in 1 .. MaxAlloc
  /\ Room \in Nat
  /\ MaxPieces \in Nat

VARIABLES
  sect,   \* the section
  heap,   \* the heap behind it
  enc,    \* the writer: operands owed, data bytes due, where the last call
          \* that succeeded ended, and whether one failed since
  dec,    \* the reader: position, operands to come, what is next, room
  out,    \* the reader's memory
  sent,   \* what was encoded: the piece, from and to where it lies, and what
          \* was owed and due after it
  got     \* what was decoded

vars == <<sect, heap, enc, dec, out, sent, got>>
writer == <<sect, heap, enc, sent>>
reader == <<dec, out, got>>

(***************************************************************************)
(* A piece as the client sees it: the bytes of the structure that mean     *)
(* something, and the offset or the argument.                              *)
(***************************************************************************)
Piece ==
  [kind : {"instr"}, head : Cells(1), arg : Cells(0) \cup Cells(1) \cup Cells(WordSize)]
  \cup [kind : {"operand"}, head : Cells(HeaderSize), arg : Cells(OffsetSize)]
  \cup [kind : {"data"}, arg : Cells(0),
        head : Cells(1) \cup Cells(2) \cup Cells(4) \cup Cells(8) \cup Cells(16)]

InstrPiece(op, arg)      == [kind |-> "instr", head |-> InstrCells(op), arg |-> arg]
OperandPiece(header, off) == [kind |-> "operand", head |-> header, arg |-> off]
DataPiece(data)          == [kind |-> "data", head |-> data, arg |-> NoCells]

-----------------------------------------------------------------------------
(***************************************************************************)
(* The writer                                                              *)
(***************************************************************************)
Called(outcomes, piece, owed, due) ==
  /\ ~enc.failed
  /\ Len(sent) < MaxPieces
  /\ \E o \in outcomes :
       /\ sect' = o.sect
       /\ heap' = o.heap
       /\ IF o.err = "GOOD"
            THEN /\ enc' = [owed |-> owed, due |-> due,
                            back |-> o.sect.windex, failed |-> FALSE]
                 /\ sent' = Append(sent,
                      [piece |-> piece, from |-> enc.back,
                       to |-> o.sect.windex, owed |-> owed, due |-> due])
            ELSE enc' = [enc EXCEPT !.failed = TRUE] /\ sent' = sent
  /\ UNCHANGED reader

AtInstr   == enc.owed = 0 /\ enc.due = 0
AtOperand == enc.owed > 0 /\ enc.due = 0

EncodeInstr(op) ==
  LET fmt == coil_instrfmt(op)
  IN  /\ AtInstr
      /\ \/ fmt \in BasicFormat
         \/ fmt = "UNKN" /\ "unknown opcode" \in Liberties
      /\ Called(coil_instr_encode(sect, heap, op),
                InstrPiece(op, NoCells), Operands(fmt), 0)

EncodeInstrFlag(op, flag) ==
  /\ AtInstr
  /\ coil_instrfmt(op) \in FlagFormat
  /\ Called(coil_instrflag_encode(sect, heap, op, flag),
            InstrPiece(op, InstrCells(flag)), Operands(coil_instrfmt(op)), 0)

EncodeInstrVal(op, value) ==
  /\ AtInstr
  /\ coil_instrfmt(op) = "VALUE"
  /\ Called(coil_instrval_encode(sect, heap, op, value),
            InstrPiece(op, value), Operands("VALUE"), 0)

(* A careful writer leaves out the value types the decoder has no size for. *)
Sized(value_type) ==
  value_type \notin WideTypes \/ "wide values" \in Liberties

EncodeOperand(type, value_type, modifier) ==
  /\ AtOperand
  /\ Sized(value_type)
  /\ type # TYPEOP_OFF \/ "bare offset header" \in Liberties
  /\ Called(coil_operand_encode(sect, heap, type, value_type, modifier),
            OperandPiece(HeaderCells(type, value_type, modifier), ZeroOffset),
            enc.owed - 1, NamedSize(value_type))

EncodeOperandOff(type, value_type, modifier, offset) ==
  /\ AtOperand
  /\ Sized(value_type)
  /\ type = TYPEOP_OFF \/ "typed offsets" \in Liberties
  /\ Called(coil_operand_encode_off(sect, heap, type, value_type, modifier, offset),
            OperandPiece(HeaderCells(type, value_type, modifier), offset),
            enc.owed - 1, NamedSize(value_type))

(* The data of a value: its bytes in memory, those of a word. *)
Value(n, word) == [i \in 0 .. n - 1 |-> word[i % WordSize]]

EncodeData(word) ==
  /\ enc.due > 0
  /\ Called(coil_operand_encode_data(sect, heap, Value(enc.due, word), enc.due),
            DataPiece(Value(enc.due, word)), enc.owed, 0)

(* After a failure: coil_section_seek_write to where the call began. *)
Rewind ==
  /\ enc.failed
  /\ sect' = [sect EXCEPT !.windex = enc.back]
  /\ enc' = [enc EXCEPT !.failed = FALSE]
  /\ UNCHANGED <<heap, sent, reader>>

-----------------------------------------------------------------------------
(***************************************************************************)
(* The reader                                                              *)
(***************************************************************************)
Bytes == heap[sect.data]

After(owed) == IF owed = 0 THEN "instr" ELSE "operand"

(* The header as a client reads it, by the format it was told. *)
ReadInstr(o) ==
  InstrPiece(o.mem[0],
             CASE o.fmt \in FlagFormat -> [i \in 0 .. 0 |-> o.mem[1]]
               [] o.fmt = "VALUE" ->
                    [i \in 0 .. WordSize - 1 |-> o.mem[WordSize + i]]
               [] OTHER -> NoCells)

DecodeInstr ==
  /\ dec.want = "instr"
  /\ LET r == coil_instr_decode(Bytes, sect.size, dec.pos, out)
     IN  /\ out' = r.out
         /\ IF r.err = "GOOD"
              THEN /\ got' = Append(got, ReadInstr(r.out))
                   /\ dec' = [dec EXCEPT !.pos = r.pos,
                                         !.owed = Operands(r.out.fmt),
                                         !.want = After(Operands(r.out.fmt))]
              ELSE UNCHANGED <<dec, got>>
  /\ UNCHANGED writer

DecodeOperand ==
  /\ dec.want = "operand"
  /\ LET r == coil_operand_decode(Bytes, sect.size, dec.pos, out)
     IN  /\ out' = r.out
         /\ IF r.err = "GOOD"
              THEN /\ got' = Append(got, OperandPiece(r.out.header, r.out.offset))
                   /\ dec' = [dec EXCEPT !.pos = r.pos, !.owed = @ - 1,
                                         !.want = "data"]
              ELSE UNCHANGED <<dec, got>>
  /\ UNCHANGED writer

(* A value of size 0 has no data: the position stays, nothing is read. *)
DecodeData ==
  /\ dec.want = "data"
  /\ LET r == coil_operand_decode_data(Bytes, sect.size, dec.pos, dec.room, out)
     IN  /\ out' = r.out
         /\ CASE r.err = "GOOD" ->
                  /\ got' = IF r.out.valsize = 0 THEN got
                            ELSE Append(got, DataPiece(
                                   [i \in 0 .. r.out.valsize - 1 |-> r.out.data[i]]))
                  /\ dec' = [dec EXCEPT !.pos = r.pos, !.want = After(dec.owed)]
              [] r.err = "NOMEM" ->
                  /\ dec' = [dec EXCEPT !.room = r.out.valsize]
                  /\ UNCHANGED got
              [] OTHER -> UNCHANGED <<dec, got>>
  /\ UNCHANGED writer

-----------------------------------------------------------------------------
Uninitialized(n) == [i \in 0 .. n - 1 |-> Junk]

Init ==
  /\ \E o \in InitOutcomes([a \in Addr |-> NoImage], InitCapacity) :
       /\ o.err = "GOOD"
       /\ sect = o.sect
       /\ heap = o.heap
  /\ enc = [owed |-> 0, due |-> 0, back |-> 0, failed |-> FALSE]
  /\ dec = [pos |-> 0, owed |-> 0, want |-> "instr", room |-> Room]
  /\ out = [fmt |-> "UNKN", mem |-> Uninitialized(ValueSize),
            header |-> Uninitialized(HeaderSize),
            offset |-> Uninitialized(OffsetSize),
            data |-> Uninitialized(WordSize), valsize |-> 0]
  /\ sent = <<>>
  /\ got = <<>>

Encode ==
  \/ \E op \in Ops :
       \/ EncodeInstr(op)
       \/ \E flag \in Flags : EncodeInstrFlag(op, flag)
       \/ \E value \in Words : EncodeInstrVal(op, value)
  \/ \E type \in Types, value_type \in ValueTypes, modifier \in Modifiers :
       \/ EncodeOperand(type, value_type, modifier)
       \/ \E offset \in Offsets :
            EncodeOperandOff(type, value_type, modifier, offset)
  \/ \E word \in Words : EncodeData(word)

Decode == DecodeInstr \/ DecodeOperand \/ DecodeData

Next == Encode \/ Rewind \/ Decode

(* The reader goes on calling.  Nothing obliges the writer. *)
Spec == Init /\ [][Next]_vars /\ WF_vars(Decode)
-----------------------------------------------------------------------------
(***************************************************************************)
(* Properties                                                              *)
(***************************************************************************)

(* The types; the cursors stay in the buffer, and the reader in what was   *)
(* written.                                                                *)
TypeOK ==
  /\ sect \in Section
  /\ \A a \in Addr : \E n \in 0 .. MaxAlloc : heap[a] \in Cells(n)
  /\ enc \in [owed : 0 .. 3, due : {0, 1, 2, 4, 8, 16}, back : Size,
              failed : BOOLEAN]
  /\ dec \in [pos : Size, owed : 0 .. 3, want : {"instr", "operand", "data"},
              room : Nat]
  /\ out \in Out
  /\ sent \in Seq([piece : Piece, from : Size, to : Size,
                   owed : 0 .. 3, due : {0, 1, 2, 4, 8, 16}])
  /\ got \in Seq(Piece)
  /\ enc.back <= sect.size
  /\ dec.pos <= sect.size

Last(s) == s[Len(s)]

(***************************************************************************)
(* What a piece looks like in the section: its structures as laid out, any *)
(* bytes in the padding.                                                   *)
(***************************************************************************)
Layout(p) ==
  CASE p.kind = "instr" /\ DOMAIN p.arg = 0 .. WordSize - 1 ->
         ValueCells(p.head[0], p.arg)
    [] p.kind = "instr" /\ DOMAIN p.arg = 0 .. 0 -> FlagCells(p.head[0], p.arg[0])
    [] p.kind = "operand" /\ p.head[0] = TYPEOP_OFF ->
         Overlay(p.head, HeaderSize, OffsetSize, p.arg)
    [] OTHER -> p.head

(* What was encoded stays encoded: the pieces lie one behind the other     *)
(* from byte 0 up to where the writer goes on, and no growth of the        *)
(* section, no failure of a later call, half way or not, and no rewind     *)
(* damages one of them.                                                    *)
EncodedIntact ==
  /\ enc.back = (IF sent = <<>> THEN 0 ELSE Last(sent).to)
  /\ ~enc.failed => sect.windex = enc.back
  /\ \A k \in DOMAIN sent :
       /\ sent[k].from = (IF k = 1 THEN 0 ELSE sent[k - 1].to)
       /\ LET cells == Layout(sent[k].piece)
          IN  /\ DOMAIN cells = 0 .. sent[k].to - sent[k].from - 1
              /\ \A i \in DOMAIN cells :
                   cells[i] = heap[sect.data][sent[k].from + i]

(* The reader stands between two pieces, behind everything it took and     *)
(* before everything else, and never inside or behind one whose call       *)
(* failed, although such bytes may be in the content.                      *)
ReaderBetweenPieces ==
  dec.pos = IF got = <<>> THEN 0 ELSE sent[Len(got)].to

(* The bytes of a section that nobody set are padding of value headers:    *)
(* whatever the reader hands out was written by the writer.                *)
JunkOnlyInPadding ==
  /\ \A i \in 0 .. sect.size - 1 :
       heap[sect.data][i] = Junk =>
         \E k \in DOMAIN sent :
           /\ DOMAIN sent[k].piece.arg = 0 .. WordSize - 1
           /\ i \in sent[k].from + 1 .. sent[k].from + WordSize - 1
  /\ \A k \in DOMAIN got :
       /\ \A i \in DOMAIN got[k].head : got[k].head[i] # Junk
       /\ \A i \in DOMAIN got[k].arg : got[k].arg[i] # Junk

(* The mapping under which CoilInstr implements InstrStream.               *)
Pieces == [k \in DOMAIN sent |-> sent[k].piece]
Stream == INSTANCE InstrStream WITH sent <- Pieces
=============================================================================

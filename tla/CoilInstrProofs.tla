--------------------------- MODULE CoilInstrProofs ---------------------------
(***************************************************************************)
(* Proofs about CoilInstr: for all opcodes, flags, operand and value       *)
(* types, words and offsets, every heap and every pattern of allocation    *)
(* failures, what a careful writer encodes stays as it was encoded and the *)
(* reader gets it, piece by piece.                                         *)
(*                                                                         *)
(* The properties are not inductive.  That a decoder finds what its        *)
(* encoder wrote needs the grammar: which kind of piece can stand where,   *)
(* and that the sizes the two sides compute agree.  That a reader that has *)
(* caught up waits needs to know what can lie behind the last piece:       *)
(* nothing, or the header of an operand whose offset could not be written. *)
(***************************************************************************)
EXTENDS CoilInstr, SectionBufferProofs

USE BufferAssumption
USE DEF WordSize, FlagSize, ValueSize, HeaderSize, OffsetSize, TYPEOP_OFF

(* The writer keeps to what instr.h leaves unsaid. *)
Careful == Liberties = {}

(***************************************************************************)
(* Writing to a section that owns its buffer                               *)
(***************************************************************************)

Owned(s, h) ==
  /\ s \in Section
  /\ h \in [Addr -> Image]
  /\ s.data \in Addr
  /\ s.mode # "VIEW"
  /\ s.capacity \in 1 .. MaxAlloc
  /\ h[s.data] \in [0 .. s.capacity - 1 -> Cell]
  /\ s.data \in Allocated(h)
  /\ s.windex <= s.size
  /\ s.size <= s.capacity

(* The numbers of an owned section, none of which can wrap when a write    *)
(* of at most an offset is added to it.                                    *)
LEMMA OwnedNumbers ==
  ASSUME NEW s, NEW h, Owned(s, h)
  PROVE  /\ s.windex \in Nat /\ s.size \in Nat /\ s.capacity \in Nat
         /\ s.windex <= s.size /\ s.size <= s.capacity /\ s.capacity <= MaxAlloc
         /\ MaxAlloc \in Nat /\ SizeMod \in Nat
         /\ MaxAlloc + OffsetSize < SizeMod
BY CodeAssumption DEF Owned, Section, Size

Resized(s, d, c) == [s EXCEPT !.data = d, !.capacity = c, !.mode = "MODIFY"]

(* resize changes nothing, or moves the content to a block of its own. *)
LEMMA OwnedResize ==
  ASSUME NEW s, NEW h, Owned(s, h), NEW c \in Nat, s.size <= c,
         NEW o \in ResizeOutcomes(s, h, c)
  PROVE  \/ o.err # "GOOD" /\ o.sect = s /\ o.heap = h
         \/ /\ o.err = "GOOD"
            /\ Owned(o.sect, o.heap)
            /\ o.sect.capacity = c
            /\ o.sect.size = s.size /\ o.sect.windex = s.windex
            /\ \A i \in 0 .. s.size - 1 :
                 o.heap[o.sect.data][i] = h[s.data][i]
<1>1. PICK m \in Malloc(h, c) :
        o = IF m.data = NULL
              THEN Outcome("NOMEM", s, h)
              ELSE Outcome("GOOD", Resized(s, m.data, c), Moved(s, m.heap, m.data))
  BY Zenon DEF ResizeOutcomes, Resized
<1>2. CASE m.data = NULL
  <2>1. o = Outcome("NOMEM", s, h)
    BY <1>1, <1>2, Zenon
  <2> QED BY <2>1 DEF Outcome
<1>3. CASE m.data # NULL
  <2> DEFINE t == Resized(s, m.data, c)
             g == Moved(s, m.heap, m.data)
             new == IF s.size > 0
                      THEN Overlay(m.heap[m.data], 0, s.size, m.heap[s.data])
                      ELSE m.heap[m.data]
             filled == [m.heap EXCEPT ![m.data] = new]
  <2>1. o.err = "GOOD" /\ o.sect = t /\ o.heap = g
    BY <1>1, <1>3, Zenon DEF Outcome
  <2>2. /\ s \in Section /\ h \in [Addr -> Image] /\ s.data \in Allocated(h)
        /\ s.data \in Addr /\ s.data # NULL /\ s.mode # "VIEW"
        /\ h[s.data] \in [0 .. s.capacity - 1 -> Cell]
    BY DEF Owned
  <2>3. /\ m.data \in Addr \ Allocated(h)
        /\ c \in 1 .. MaxAlloc
        /\ m.heap \in [Addr -> Image]
        /\ m.heap[m.data] \in [0 .. c - 1 -> Cell]
        /\ \A a \in Addr : a # m.data => m.heap[a] = h[a]
        /\ Allocated(m.heap) = Allocated(h) \cup {m.data}
    BY <1>3, <2>2, MallocGives
  <2>4. /\ t \in Section
        /\ t.data = m.data /\ t.capacity = c /\ t.mode = "MODIFY"
        /\ t.size = s.size /\ t.windex = s.windex
    <3>1. c \in Size
      BY <2>3 DEF Size
    <3> QED BY <2>2, <2>3, <3>1 DEF Section, Mode, Resized
  <2>5. s.data # m.data /\ m.heap[s.data] = h[s.data]
    BY <2>2, <2>3
  <2>6. /\ s.size \in Nat /\ s.capacity \in Nat /\ s.size <= s.capacity
        /\ s.windex <= s.size
    BY OwnedNumbers
  <2>7. new \in [0 .. c - 1 -> Cell]
    <3>1. \A i \in 0 .. s.size - 1 : m.heap[s.data][i] \in Cell
      BY <2>2, <2>5, <2>6
    <3>2. 0 \in Nat /\ 0 + s.size <= c
      BY <2>6
    <3>3. Overlay(m.heap[m.data], 0, s.size, m.heap[s.data]) \in [0 .. c - 1 -> Cell]
      BY <2>3, <2>6, <3>1, <3>2, OverlayInside
    <3> QED BY <2>3, <3>3
  <2>8. ASSUME NEW i \in 0 .. s.size - 1
        PROVE  new[i] = h[s.data][i]
    BY <2>5, <2>6, OverlayStart
  <2>9. g = Free(filled, s.data)
    <3>1. filled = IF s.size > 0
                     THEN [m.heap EXCEPT ![m.data] =
                             Overlay(m.heap[m.data], 0, s.size, m.heap[s.data])]
                     ELSE m.heap
      BY <2>3
    <3> QED BY <2>2, <3>1, Zenon DEF Moved
  <2> HIDE DEF new
  <2>10. /\ filled \in [Addr -> Image]
         /\ filled[m.data] = new
         /\ m.data \in Allocated(filled)
    <3>1. new \in Image /\ DOMAIN new # {}
      BY <2>3, <2>7, c \in 0 .. MaxAlloc, ImageIntro, NonEmpty
    <3> QED BY <2>3, <3>1 DEF Allocated
  <2> HIDE DEF filled, t
  <2>11. /\ g \in [Addr -> Image]
         /\ g[m.data] = new
         /\ m.data \in Allocated(g)
    BY <2>2, <2>3, <2>5, <2>9, <2>10, FreeFacts
  <2>12. Owned(t, g)
    BY <2>3, <2>4, <2>6, <2>7, <2>11 DEF Owned
  <2> QED BY <2>1, <2>4, <2>8, <2>11, <2>12
<1> QED BY <1>2, <1>3

(* ensure_capacity changes nothing, or makes room and keeps the content. *)
LEMMA OwnedEnsure ==
  ASSUME NEW s, NEW h, Owned(s, h), NEW min \in Nat, min < SizeMod,
         NEW o \in EnsureOutcomes(s, h, min)
  PROVE  \/ o.err # "GOOD" /\ o.sect = s /\ o.heap = h
         \/ /\ o.err = "GOOD"
            /\ Owned(o.sect, o.heap)
            /\ min <= o.sect.capacity
            /\ o.sect.size = s.size /\ o.sect.windex = s.windex
            /\ \A i \in 0 .. s.size - 1 :
                 o.heap[o.sect.data][i] = h[s.data][i]
<1>1. s.mode # "VIEW"
  BY DEF Owned
<1>2. CASE s.capacity >= min
  <2>1. o = Outcome("GOOD", s, h)
    BY <1>1, <1>2, Zenon DEF EnsureOutcomes
  <2> QED BY <1>2, <2>1, OwnedNumbers DEF Outcome
<1>3. CASE ~(s.capacity >= min)
  <2> DEFINE c == Grown(s.capacity, min)
  <2>1. o \in ResizeOutcomes(s, h, c)
    BY <1>1, <1>3, Zenon DEF EnsureOutcomes
  <2>2. c \in Nat /\ min <= c /\ s.size <= c
    BY <1>3, OwnedNumbers DEF Grown, Plus
  <2> HIDE DEF c
  <2> QED BY <2>1, <2>2, OwnedResize
<1> QED BY <1>2, <1>3

(* (t, g) is the section and the heap after n cells of buf were written at *)
(* the write cursor of (s, h).                                             *)
Wrote(s, h, n, buf, t, g) ==
  /\ Owned(t, g)
  /\ t.windex = s.windex + n
  /\ t.size = IF s.windex + n > s.size THEN s.windex + n ELSE s.size
  /\ \A i \in 0 .. t.size - 1 :
       g[t.data][i] = IF i \in s.windex .. s.windex + n - 1
                        THEN buf[i - s.windex] ELSE h[s.data][i]

(* write stores all of the buffer or changes nothing. *)
LEMMA OwnedWrite ==
  ASSUME NEW s, NEW h, Owned(s, h), NEW n \in 1 .. OffsetSize,
         NEW buf, \A i \in 0 .. n - 1 : buf[i] \in Cell,
         NEW o \in WriteOutcomes(s, h, n, buf)
  PROVE  \/ o.err # "GOOD" /\ o.sect = s /\ o.heap = h
         \/ o.err = "GOOD" /\ Wrote(s, h, n, buf, o.sect, o.heap)
<1> DEFINE end == s.windex + n
<1>1. /\ end \in Nat /\ end < SizeMod /\ Plus(s.windex, n) = end
      /\ s.windex \in Nat /\ s.size \in Nat /\ s.windex <= s.size
  BY OwnedNumbers DEF Plus
<1> HIDE DEF end
<1>2. PICK e \in EnsureOutcomes(s, h, end) :
        o = IF e.err = "GOOD"
              THEN Outcome("GOOD",
                    [e.sect EXCEPT
                       !.windex = Plus(e.sect.windex, n),
                       !.size = IF Plus(e.sect.windex, n) > @
                                  THEN Plus(e.sect.windex, n) ELSE @],
                    IF e.sect.data \in Addr
                      THEN [e.heap EXCEPT
                              ![e.sect.data] = Overlay(@, e.sect.windex, n, buf)]
                      ELSE e.heap)
              ELSE e
  BY <1>1, Zenon DEF WriteOutcomes
<1>3. CASE e.err # "GOOD"
  <2>1. e.sect = s /\ e.heap = h
    BY <1>1, <1>3, OwnedEnsure
  <2> QED BY <1>2, <1>3, <2>1, Zenon
<1>4. CASE e.err = "GOOD"
  <2>1. /\ Owned(e.sect, e.heap)
        /\ end <= e.sect.capacity
        /\ e.sect.size = s.size /\ e.sect.windex = s.windex
        /\ \A i \in 0 .. s.size - 1 : e.heap[e.sect.data][i] = h[s.data][i]
    BY <1>1, <1>4, OwnedEnsure
  <2> DEFINE img == e.heap[e.sect.data]
             new == Overlay(img, s.windex, n, buf)
             t == [e.sect EXCEPT !.windex = end,
                                 !.size = IF end > s.size THEN end ELSE s.size]
             g == [e.heap EXCEPT ![e.sect.data] = new]
  <2>2. e.sect \in Section /\ e.sect.data \in Addr /\ e.heap \in [Addr -> Image]
    BY <2>1 DEF Owned
  <2>3. o.err = "GOOD" /\ o.sect = t /\ o.heap = g
    <3>1. [e.sect EXCEPT !.windex = Plus(e.sect.windex, n),
                         !.size = IF Plus(e.sect.windex, n) > @
                                    THEN Plus(e.sect.windex, n) ELSE @] = t
      BY <1>1, <2>1, <2>2 DEF Section
    <3>2. [e.heap EXCEPT ![e.sect.data] = Overlay(@, e.sect.windex, n, buf)] = g
      BY <2>1, <2>2
    <3>3. o = Outcome("GOOD", t, g)
      BY <1>2, <1>4, <2>2, <3>1, <3>2, Zenon
    <3> QED BY <3>3 DEF Outcome
  <2>4. /\ img \in [0 .. e.sect.capacity - 1 -> Cell]
        /\ e.sect.capacity \in 1 .. MaxAlloc /\ s.size <= e.sect.capacity
    BY <2>1 DEF Owned
  <2>5. new \in [0 .. e.sect.capacity - 1 -> Cell]
    <3>1. e.sect.capacity \in Nat /\ n \in Nat /\ s.windex + n <= e.sect.capacity
      BY <1>1, <2>1, <2>4 DEF end
    <3> QED BY <1>1, <2>4, <3>1, OverlayInside
  <2>6. \A i \in 0 .. e.sect.capacity - 1 :
          new[i] = IF i \in s.windex .. s.windex + n - 1
                     THEN buf[i - s.windex] ELSE img[i]
    BY <1>1, <2>4 DEF Overlay
  <2> HIDE DEF new
  <2>7. /\ t \in Section
        /\ t.data = e.sect.data /\ t.capacity = e.sect.capacity
        /\ t.mode = e.sect.mode /\ t.windex = end
        /\ t.size = IF end > s.size THEN end ELSE s.size
    <3>1. end \in Size /\ (IF end > s.size THEN end ELSE s.size) \in Size
      BY <1>1, OwnedNumbers DEF Size
    <3> QED BY <2>2, <3>1 DEF Section
  <2>8. /\ g \in [Addr -> Image]
        /\ g[t.data] = new
        /\ t.data \in Allocated(g)
    <3>1. new \in Image /\ DOMAIN new # {}
      BY <2>4, <2>5, e.sect.capacity \in 0 .. MaxAlloc, ImageIntro, NonEmpty
    <3> QED BY <2>2, <2>7, <3>1 DEF Allocated
  <2> HIDE DEF t, g
  <2>9. t.windex <= t.size /\ t.size <= t.capacity
    BY <1>1, <2>1, <2>4, <2>7
  <2>10. Owned(t, g)
    <3>1. t.mode # "VIEW" /\ t.data \in Addr
      BY <2>1, <2>7 DEF Owned
    <3> QED BY <2>4, <2>5, <2>7, <2>8, <2>9, <3>1 DEF Owned
  <2>11. ASSUME NEW i \in 0 .. t.size - 1
         PROVE  g[t.data][i] = IF i \in s.windex .. s.windex + n - 1
                                 THEN buf[i - s.windex] ELSE h[s.data][i]
    <3>1. i \in 0 .. e.sect.capacity - 1
      BY <1>1, <2>1, <2>4, <2>7
    <3>2. i \in s.windex .. s.windex + n - 1 \/ i \in 0 .. s.size - 1
      BY <1>1, <2>7 DEF end
    <3> QED BY <2>1, <2>6, <2>8, <3>1, <3>2
  <2>12. Wrote(s, h, n, buf, t, g)
    BY <2>7, <2>10, <2>11 DEF Wrote, end
  <2> QED BY <2>3, <2>12
<1> QED BY <1>3, <1>4

(***************************************************************************)
(* The pieces of a careful writer and what they look like in the section   *)
(***************************************************************************)

CarefulInstr(r) ==
  \E op \in 0 .. 255 :
    /\ r.owed = Operands(coil_instrfmt(op)) /\ r.due = 0
    /\ \/ /\ coil_instrfmt(op) \in BasicFormat
          /\ r.piece = InstrPiece(op, NoCells)
       \/ /\ coil_instrfmt(op) \in FlagFormat
          /\ \E flag \in 0 .. 255 : r.piece = InstrPiece(op, InstrCells(flag))
       \/ /\ coil_instrfmt(op) = "VALUE"
          /\ \E value \in [0 .. WordSize - 1 -> Byte] :
               r.piece = InstrPiece(op, value)

CarefulOperand(r, owed) ==
  \E type \in 0 .. 255, value_type \in 0 .. 255 \ WideTypes, modifier \in 0 .. 255 :
    /\ r.owed = owed - 1 /\ r.due = NamedSize(value_type)
    /\ \/ /\ type # TYPEOP_OFF
          /\ r.piece = OperandPiece(HeaderCells(type, value_type, modifier), ZeroOffset)
       \/ /\ type = TYPEOP_OFF
          /\ \E offset \in [0 .. OffsetSize - 1 -> Byte] :
               r.piece = OperandPiece(HeaderCells(type, value_type, modifier), offset)

CarefulData(r, owed, due) ==
  /\ r.owed = owed /\ r.due = 0
  /\ \E data \in [0 .. due - 1 -> Byte] : r.piece = DataPiece(data)

Dues == {1, 2, 4, 8}

(* r may be written when owed operands and due bytes of data are to come.  *)
Follows(owed, due, r) ==
  \/ owed = 0 /\ due = 0 /\ CarefulInstr(r)
  \/ owed \in 1 .. 3 /\ due = 0 /\ CarefulOperand(r, owed)
  \/ owed \in 0 .. 3 /\ due \in Dues /\ CarefulData(r, owed, due)

(* The layout of each kind of piece. *)
LEMMA LayoutInstr ==
  ASSUME NEW op
  PROVE  Layout(InstrPiece(op, NoCells)) = InstrCells(op)
<1>1. DOMAIN NoCells = {} /\ 0 \in 0 .. WordSize - 1 /\ 0 \in 0 .. 0
  BY DEF NoCells, NoImage
<1> QED BY <1>1 DEF Layout, InstrPiece

LEMMA LayoutFlag ==
  ASSUME NEW op, NEW flag
  PROVE  Layout(InstrPiece(op, InstrCells(flag))) = FlagCells(op, flag)
<1>1. DOMAIN InstrCells(flag) = 0 .. 0 /\ InstrCells(flag)[0] = flag
      /\ InstrCells(op)[0] = op
  BY DEF InstrCells
<1>2. 1 \in 0 .. WordSize - 1 /\ 1 \notin 0 .. 0
  OBVIOUS
<1> HIDE DEF InstrCells
<1> QED BY <1>1, <1>2 DEF Layout, InstrPiece

LEMMA LayoutValue ==
  ASSUME NEW op, NEW value \in [0 .. WordSize - 1 -> Byte]
  PROVE  Layout(InstrPiece(op, value)) = ValueCells(op, value)
<1>1. InstrCells(op)[0] = op
  BY DEF InstrCells
<1>2. DOMAIN value = 0 .. WordSize - 1
  OBVIOUS
<1> QED BY <1>1, <1>2 DEF Layout, InstrPiece

LEMMA LayoutOperand ==
  ASSUME NEW header, header[0] # TYPEOP_OFF, NEW offset
  PROVE  Layout(OperandPiece(header, offset)) = header
BY DEF Layout, OperandPiece

LEMMA LayoutOffset ==
  ASSUME NEW header, header[0] = TYPEOP_OFF, NEW offset
  PROVE  Layout(OperandPiece(header, offset))
           = Overlay(header, HeaderSize, OffsetSize, offset)
BY DEF Layout, OperandPiece

LEMMA LayoutData ==
  ASSUME NEW data
  PROVE  Layout(DataPiece(data)) = data
BY DEF Layout, DataPiece

(* A header and its offset, as cells. *)
OffsetCells(header, offset) ==
  [i \in 0 .. HeaderSize + OffsetSize - 1 |->
     IF i < HeaderSize THEN header[i] ELSE offset[i - HeaderSize]]

LEMMA OffsetOverlay ==
  ASSUME NEW header, DOMAIN header = 0 .. HeaderSize - 1, NEW offset
  PROVE  Overlay(header, HeaderSize, OffsetSize, offset) = OffsetCells(header, offset)
<1>1. DOMAIN header \cup HeaderSize .. HeaderSize + OffsetSize - 1
        = 0 .. HeaderSize + OffsetSize - 1
  OBVIOUS
<1>2. \A i \in 0 .. HeaderSize + OffsetSize - 1 :
        i \in HeaderSize .. HeaderSize + OffsetSize - 1 <=> ~(i < HeaderSize)
  OBVIOUS
<1> QED BY <1>1, <1>2 DEF Overlay, OffsetCells

LEMMA Widths ==
  /\ \A fmt : Operands(fmt) \in 0 .. 3
  /\ \A v : v \notin WideTypes =>
       /\ coil_value_type_size(v) = NamedSize(v)
       /\ NamedSize(v) \in {0} \cup Dues
<1>1. \A fmt : Operands(fmt) \in 0 .. 3
  BY DEF Operands
<1>2. ASSUME NEW v, v \notin WideTypes
      PROVE  /\ coil_value_type_size(v) = NamedSize(v)
             /\ NamedSize(v) \in {0} \cup Dues
  <2>1. CASE v \in {3, 19} \cup 224 .. 226 \cup {240, 241, 242, 244}
    BY <1>2, <2>1 DEF coil_value_type_size, NamedSize, WideTypes, Dues
  <2>2. CASE v \in {2, 18, 243}
    BY <1>2, <2>2 DEF coil_value_type_size, NamedSize, WideTypes, Dues
  <2>3. CASE v \in {1, 17}
    BY <1>2, <2>3 DEF coil_value_type_size, NamedSize, WideTypes, Dues
  <2>4. CASE v \in {0, 16, 254}
    BY <1>2, <2>4 DEF coil_value_type_size, NamedSize, WideTypes, Dues
  <2>5. CASE /\ v \notin {3, 19} \cup 224 .. 226 \cup {240, 241, 242, 244}
             /\ v \notin {2, 18, 243} /\ v \notin {1, 17} /\ v \notin {0, 16, 254}
    BY <1>2, <2>5 DEF coil_value_type_size, NamedSize, WideTypes, Dues
  <2> QED BY <2>1, <2>2, <2>3, <2>4, <2>5
<1> QED BY <1>1, <1>2

LEMMA Bytes255 == \A b \in 0 .. 255 : b \in Byte /\ b \in Cell /\ b # Junk
BY CodeAssumption DEF Cell

(***************************************************************************)
(* A piece that may follow: its types, and where its layout has junk.      *)
(***************************************************************************)
Proper(piece) ==
  /\ piece \in Piece
  /\ \A i \in DOMAIN piece.head : piece.head[i] # Junk
  /\ \A i \in DOMAIN piece.arg : piece.arg[i] # Junk
  /\ \A i \in DOMAIN Layout(piece) :
       /\ Layout(piece)[i] \in Cell
       /\ Layout(piece)[i] = Junk =>
            DOMAIN piece.arg = 0 .. WordSize - 1 /\ i \in 1 .. WordSize - 1

LEMMA ProperInstr ==
  ASSUME NEW r, CarefulInstr(r)
  PROVE  Proper(r.piece) /\ r.owed \in 0 .. 3 /\ r.due = 0
<1>1. PICK op \in 0 .. 255 :
        /\ r.owed = Operands(coil_instrfmt(op)) /\ r.due = 0
        /\ \/ r.piece = InstrPiece(op, NoCells)
           \/ \E flag \in 0 .. 255 : r.piece = InstrPiece(op, InstrCells(flag))
           \/ \E value \in [0 .. WordSize - 1 -> Byte] : r.piece = InstrPiece(op, value)
  BY Zenon DEF CarefulInstr
<1>2. r.owed \in 0 .. 3 /\ r.due = 0
  BY <1>1, Widths
<1>3. InstrCells(op) \in Cells(1) /\ \A i \in DOMAIN InstrCells(op) : InstrCells(op)[i] # Junk
  BY Bytes255 DEF InstrCells, Cells
<1>4. CASE r.piece = InstrPiece(op, NoCells)
  <2>1. NoCells \in Cells(0) /\ DOMAIN NoCells = {}
    <3>1. 0 .. 0 - 1 = {}
      OBVIOUS
    <3> QED BY <3>1 DEF NoCells, NoImage, Cells
  <2>2. \A i \in DOMAIN InstrCells(op) : InstrCells(op)[i] \in Cell
    BY Bytes255 DEF InstrCells
  <2> HIDE DEF InstrCells, NoCells
  <2>3. r.piece \in Piece /\ r.piece.head = InstrCells(op) /\ r.piece.arg = NoCells
    BY <1>3, <1>4, <2>1 DEF InstrPiece, Piece
  <2> QED BY <1>2, <1>3, <1>4, <2>1, <2>2, <2>3, LayoutInstr DEF Proper
<1>5. CASE \E flag \in 0 .. 255 : r.piece = InstrPiece(op, InstrCells(flag))
  <2>1. PICK flag \in 0 .. 255 : r.piece = InstrPiece(op, InstrCells(flag))
    BY <1>5
  <2>2. /\ InstrCells(flag) \in Cells(1)
        /\ \A i \in DOMAIN InstrCells(flag) : InstrCells(flag)[i] # Junk
    BY Bytes255 DEF InstrCells, Cells
  <2>3. \A i \in DOMAIN FlagCells(op, flag) :
          FlagCells(op, flag)[i] \in Cell /\ FlagCells(op, flag)[i] # Junk
    BY Bytes255 DEF FlagCells
  <2>4. /\ r.piece \in Piece /\ r.piece.head = InstrCells(op)
        /\ r.piece.arg = InstrCells(flag)
    BY <1>3, <2>1, <2>2 DEF InstrPiece, Piece
  <2> QED BY <1>2, <1>3, <2>1, <2>2, <2>3, <2>4, LayoutFlag DEF Proper
<1>6. CASE \E value \in [0 .. WordSize - 1 -> Byte] : r.piece = InstrPiece(op, value)
  <2>1. PICK value \in [0 .. WordSize - 1 -> Byte] : r.piece = InstrPiece(op, value)
    BY <1>6
  <2>2. /\ value \in Cells(WordSize)
        /\ \A i \in 0 .. WordSize - 1 : value[i] # Junk /\ value[i] \in Cell
        /\ DOMAIN value = 0 .. WordSize - 1
    BY DEF Cell, Cells
  <2>3. ASSUME NEW i \in DOMAIN ValueCells(op, value)
        PROVE  /\ ValueCells(op, value)[i] \in Cell
               /\ ValueCells(op, value)[i] = Junk => i \in 1 .. WordSize - 1
    <3>1. i \in 0 .. ValueSize - 1
      BY DEF ValueCells
    <3>2. CASE i = 0
      BY <3>1, <3>2, Bytes255 DEF ValueCells
    <3>3. CASE i \in 1 .. WordSize - 1
      BY <3>1, <3>3 DEF ValueCells, Cell
    <3>4. CASE i >= WordSize
      BY <2>2, <3>1, <3>4 DEF ValueCells
    <3> QED BY <3>1, <3>2, <3>3, <3>4
  <2>4. r.piece \in Piece /\ r.piece.head = InstrCells(op) /\ r.piece.arg = value
    BY <1>3, <2>1, <2>2 DEF InstrPiece, Piece
  <2> QED BY <1>2, <1>3, <2>1, <2>2, <2>3, <2>4, LayoutValue DEF Proper
<1> QED BY <1>1, <1>4, <1>5, <1>6

(* A header of bytes, as written. *)
LEMMA HeaderFacts ==
  ASSUME NEW type \in 0 .. 255, NEW value_type \in 0 .. 255, NEW modifier \in 0 .. 255,
         NEW c, c = HeaderCells(type, value_type, modifier)
  PROVE  /\ DOMAIN c = 0 .. HeaderSize - 1
         /\ c[0] = type /\ c[1] = value_type /\ c[2] = modifier
         /\ \A i \in 0 .. HeaderSize - 1 : c[i] \in Byte /\ c[i] \in Cell /\ c[i] # Junk
         /\ c \in Cells(HeaderSize)
BY Bytes255 DEF HeaderCells, Cells

LEMMA ProperOperand ==
  ASSUME NEW owed \in 1 .. 3, NEW r, CarefulOperand(r, owed)
  PROVE  /\ Proper(r.piece) /\ r.owed \in 0 .. 3 /\ r.due \in {0} \cup Dues
         /\ 2 \in DOMAIN Layout(r.piece)
<1>1. PICK type \in 0 .. 255, value_type \in 0 .. 255 \ WideTypes, modifier \in 0 .. 255 :
        /\ r.owed = owed - 1 /\ r.due = NamedSize(value_type)
        /\ \/ /\ type # TYPEOP_OFF
              /\ r.piece = OperandPiece(HeaderCells(type, value_type, modifier), ZeroOffset)
           \/ /\ type = TYPEOP_OFF
              /\ \E offset \in [0 .. OffsetSize - 1 -> Byte] :
                   r.piece = OperandPiece(HeaderCells(type, value_type, modifier), offset)
  BY Zenon DEF CarefulOperand
<1>2. r.owed \in 0 .. 3 /\ r.due \in {0} \cup Dues
  BY <1>1, Widths
<1> DEFINE c == HeaderCells(type, value_type, modifier)
<1>3. /\ DOMAIN c = 0 .. HeaderSize - 1
      /\ c[0] = type
      /\ \A i \in 0 .. HeaderSize - 1 : c[i] \in Cell /\ c[i] # Junk
      /\ c \in Cells(HeaderSize)
  <2>1. value_type \in 0 .. 255 /\ c = HeaderCells(type, value_type, modifier)
    OBVIOUS
  <2> HIDE DEF c
  <2>2. /\ DOMAIN c = 0 .. HeaderSize - 1 /\ c[0] = type
        /\ \A i \in 0 .. HeaderSize - 1 : c[i] \in Byte /\ c[i] \in Cell /\ c[i] # Junk
    BY <2>1, Bytes255 DEF HeaderCells
  <2>3. c \in Cells(HeaderSize)
    BY <2>1, HeaderFacts
  <2> QED BY <2>2, <2>3
<1> HIDE DEF c
<1>4. CASE type # TYPEOP_OFF /\ r.piece = OperandPiece(c, ZeroOffset)
  <2>1. /\ ZeroOffset \in Cells(OffsetSize)
        /\ \A i \in DOMAIN ZeroOffset : ZeroOffset[i] # Junk
    BY Bytes255 DEF ZeroOffset, Cells
  <2>2. Layout(r.piece) = c
    BY <1>3, <1>4, LayoutOperand
  <2> HIDE DEF ZeroOffset
  <2>3. r.piece \in Piece /\ r.piece.head = c /\ r.piece.arg = ZeroOffset
    BY <1>3, <1>4, <2>1 DEF OperandPiece, Piece
  <2>4. 2 \in DOMAIN c
    BY <1>3
  <2> QED BY <1>2, <1>3, <2>1, <2>2, <2>3, <2>4 DEF Proper
<1>5. CASE /\ type = TYPEOP_OFF
           /\ \E offset \in [0 .. OffsetSize - 1 -> Byte] : r.piece = OperandPiece(c, offset)
  <2>1. PICK offset \in [0 .. OffsetSize - 1 -> Byte] : r.piece = OperandPiece(c, offset)
    BY <1>5
  <2>2. /\ offset \in Cells(OffsetSize)
        /\ \A i \in 0 .. OffsetSize - 1 : offset[i] # Junk /\ offset[i] \in Cell
        /\ DOMAIN offset = 0 .. OffsetSize - 1
    BY DEF Cell, Cells
  <2>3. Layout(r.piece) = OffsetCells(c, offset)
    BY <1>3, <1>5, <2>1, LayoutOffset, OffsetOverlay
  <2>4. r.piece \in Piece /\ r.piece.head = c /\ r.piece.arg = offset
    BY <1>3, <2>1, <2>2 DEF OperandPiece, Piece
  <2>5. DOMAIN OffsetCells(c, offset) = 0 .. HeaderSize + OffsetSize - 1
    BY DEF OffsetCells
  <2>6. ASSUME NEW i \in 0 .. HeaderSize + OffsetSize - 1
        PROVE  /\ OffsetCells(c, offset)[i] \in Cell
               /\ OffsetCells(c, offset)[i] # Junk
    <3>1. CASE i < HeaderSize
      BY <1>3, <3>1 DEF OffsetCells
    <3>2. CASE ~(i < HeaderSize)
      BY <2>2, <3>2 DEF OffsetCells
    <3> QED BY <3>1, <3>2
  <2>7. 2 \in DOMAIN Layout(r.piece)
    BY <2>3, <2>5
  <2> QED BY <1>2, <1>3, <2>2, <2>3, <2>4, <2>5, <2>6, <2>7 DEF Proper
<1> QED BY <1>1, <1>4, <1>5 DEF c

LEMMA ProperData ==
  ASSUME NEW owed \in 0 .. 3, NEW due \in Dues, NEW r, CarefulData(r, owed, due)
  PROVE  Proper(r.piece) /\ r.owed \in 0 .. 3 /\ r.due = 0
<1>1. PICK data \in [0 .. due - 1 -> Byte] : r.piece = DataPiece(data)
  BY Zenon DEF CarefulData
<1>2. r.owed \in 0 .. 3 /\ r.due = 0
  BY DEF CarefulData
<1>3. /\ DOMAIN data = 0 .. due - 1
      /\ \A i \in DOMAIN data : data[i] # Junk /\ data[i] \in Cell
      /\ data \in Cells(due)
  BY DEF Cell, Cells
<1>4. NoCells \in Cells(0) /\ DOMAIN NoCells = {}
  <2>1. 0 .. 0 - 1 = {}
    OBVIOUS
  <2> QED BY <2>1 DEF NoCells, NoImage, Cells
<1>5. data \in Cells(1) \cup Cells(2) \cup Cells(4) \cup Cells(8) \cup Cells(16)
  BY <1>3 DEF Dues
<1> HIDE DEF NoCells
<1>6. r.piece \in Piece /\ r.piece.head = data /\ r.piece.arg = NoCells
  BY <1>1, <1>4, <1>5 DEF DataPiece, Piece
<1> QED BY <1>1, <1>2, <1>3, <1>4, <1>6, LayoutData DEF Proper

(* What may follow, follows in the grammar's types. *)
LEMMA FollowsFacts ==
  ASSUME NEW owed, NEW due, NEW r, Follows(owed, due, r)
  PROVE  /\ Proper(r.piece) /\ r.owed \in 0 .. 3 /\ r.due \in {0} \cup Dues
         /\ owed \in 0 .. 3 /\ due \in {0} \cup Dues
         /\ owed > 0 /\ due = 0 => 2 \in DOMAIN Layout(r.piece)
<1>1. CASE owed = 0 /\ due = 0 /\ CarefulInstr(r)
  BY <1>1, ProperInstr
<1>2. CASE owed \in 1 .. 3 /\ due = 0 /\ CarefulOperand(r, owed)
  BY <1>2, ProperOperand
<1>3. CASE owed \in 0 .. 3 /\ due \in Dues /\ CarefulData(r, owed, due)
  <2>1. due # 0
    BY <1>3 DEF Dues
  <2> QED BY <1>3, <2>1, ProperData
<1> QED BY <1>1, <1>2, <1>3 DEF Follows

(***************************************************************************)
(* What the encoders do to a section that owns its buffer: everything or   *)
(* nothing, except that an operand's header may be written without its     *)
(* offset.                                                                 *)
(***************************************************************************)

Begun(s, h, t, g) ==
  \E head \in [0 .. HeaderSize - 1 -> Byte] :
    head[0] = TYPEOP_OFF /\ Wrote(s, h, HeaderSize, head, t, g)

Writes(outcomes, s, h, n, cells) ==
  \A o \in outcomes :
    \/ o.err = "GOOD" /\ Wrote(s, h, n, cells, o.sect, o.heap)
    \/ o.err # "GOOD" /\ o.sect = s /\ o.heap = h

WritesInTwo(outcomes, s, h, n, cells) ==
  \A o \in outcomes :
    \/ o.err = "GOOD" /\ Wrote(s, h, n, cells, o.sect, o.heap)
    \/ o.err # "GOOD" /\ o.sect = s /\ o.heap = h
    \/ o.err # "GOOD" /\ Begun(s, h, o.sect, o.heap)

LEMMA WritesOnce ==
  ASSUME NEW s, NEW h, Owned(s, h), NEW n \in 1 .. OffsetSize,
         NEW cells, \A i \in 0 .. n - 1 : cells[i] \in Cell
  PROVE  Writes(WriteOutcomes(s, h, n, cells), s, h, n, cells)
BY OwnedWrite DEF Writes

LEMMA EncodesInstr ==
  ASSUME NEW s, NEW h, Owned(s, h), NEW op \in 0 .. 255
  PROVE  Writes(coil_instr_encode(s, h, op), s, h, 1, InstrCells(op))
<1>1. \A i \in 0 .. 1 - 1 : InstrCells(op)[i] \in Cell
  BY Bytes255 DEF InstrCells
<1> QED BY <1>1, WritesOnce DEF coil_instr_encode

LEMMA EncodesFlag ==
  ASSUME NEW s, NEW h, Owned(s, h), NEW op \in 0 .. 255, NEW flag \in 0 .. 255
  PROVE  Writes(coil_instrflag_encode(s, h, op, flag), s, h, FlagSize,
                FlagCells(op, flag))
<1>1. \A i \in 0 .. FlagSize - 1 : FlagCells(op, flag)[i] \in Cell
  BY Bytes255 DEF FlagCells
<1> QED BY <1>1, WritesOnce DEF coil_instrflag_encode

LEMMA EncodesValue ==
  ASSUME NEW s, NEW h, Owned(s, h), NEW op \in 0 .. 255,
         NEW value \in [0 .. WordSize - 1 -> Byte]
  PROVE  Writes(coil_instrval_encode(s, h, op, value), s, h, ValueSize,
                ValueCells(op, value))
<1>1. ASSUME NEW i \in 0 .. ValueSize - 1
      PROVE  ValueCells(op, value)[i] \in Cell
  <2>1. op \in Cell /\ Junk \in Cell
    BY Bytes255 DEF Cell
  <2>2. ~(i < WordSize) => value[i - WordSize] \in Cell
    BY DEF Cell
  <2> QED BY <2>1, <2>2 DEF ValueCells
<1> QED BY <1>1, WritesOnce DEF coil_instrval_encode

LEMMA EncodesOperand ==
  ASSUME NEW s, NEW h, Owned(s, h), NEW type \in 0 .. 255,
         NEW value_type \in 0 .. 255, NEW modifier \in 0 .. 255
  PROVE  Writes(coil_operand_encode(s, h, type, value_type, modifier), s, h,
                HeaderSize, HeaderCells(type, value_type, modifier))
<1>1. \A i \in 0 .. HeaderSize - 1 :
        HeaderCells(type, value_type, modifier)[i] \in Cell
  BY Bytes255 DEF HeaderCells
<1> QED BY <1>1, WritesOnce DEF coil_operand_encode

LEMMA EncodesData ==
  ASSUME NEW s, NEW h, Owned(s, h), NEW n \in Dues, NEW data \in [0 .. n - 1 -> Byte]
  PROVE  Writes(coil_operand_encode_data(s, h, data, n), s, h, n, data)
<1>1. n \in 1 .. OffsetSize /\ n # 0
  BY DEF Dues
<1>2. \A i \in 0 .. n - 1 : data[i] \in Cell
  BY DEF Cell
<1>3. coil_operand_encode_data(s, h, data, n) = WriteOutcomes(s, h, n, data)
  BY <1>1 DEF coil_operand_encode_data
<1>4. Writes(WriteOutcomes(s, h, n, data), s, h, n, data)
  BY <1>1, <1>2, WritesOnce
<1> QED BY <1>3, <1>4, Zenon

(* Two writes, one behind the other, are one. *)
LEMMA WroteTwice ==
  ASSUME NEW s, NEW h, Owned(s, h), NEW head, NEW offset,
         NEW t, NEW g, Wrote(s, h, HeaderSize, head, t, g),
         NEW u, NEW k, Wrote(t, g, OffsetSize, offset, u, k)
  PROVE  Wrote(s, h, HeaderSize + OffsetSize, OffsetCells(head, offset), u, k)
<1>1. /\ s.windex \in Nat /\ s.size \in Nat /\ s.windex <= s.size
      /\ t.windex \in Nat /\ t.size \in Nat
  BY OwnedNumbers DEF Wrote
<1>2. /\ t.windex = s.windex + HeaderSize
      /\ t.size = IF s.windex + HeaderSize > s.size THEN s.windex + HeaderSize ELSE s.size
      /\ \A i \in 0 .. t.size - 1 :
           g[t.data][i] = IF i \in s.windex .. s.windex + HeaderSize - 1
                            THEN head[i - s.windex] ELSE h[s.data][i]
  BY DEF Wrote
<1>3. /\ Owned(u, k)
      /\ u.windex = t.windex + OffsetSize
      /\ u.size = IF t.windex + OffsetSize > t.size THEN t.windex + OffsetSize ELSE t.size
      /\ \A i \in 0 .. u.size - 1 :
           k[u.data][i] = IF i \in t.windex .. t.windex + OffsetSize - 1
                            THEN offset[i - t.windex] ELSE g[t.data][i]
  BY DEF Wrote
<1>4. /\ u.windex = s.windex + (HeaderSize + OffsetSize)
      /\ u.size = IF s.windex + (HeaderSize + OffsetSize) > s.size
                    THEN s.windex + (HeaderSize + OffsetSize) ELSE s.size
  BY <1>1, <1>2, <1>3
<1>5. ASSUME NEW i \in 0 .. u.size - 1
      PROVE  k[u.data][i] =
               IF i \in s.windex .. s.windex + (HeaderSize + OffsetSize) - 1
                 THEN OffsetCells(head, offset)[i - s.windex] ELSE h[s.data][i]
  <2>1. CASE i \in s.windex .. s.windex + HeaderSize - 1
    <3>1. /\ i \in s.windex .. s.windex + (HeaderSize + OffsetSize) - 1
          /\ i \notin t.windex .. t.windex + OffsetSize - 1
          /\ i \in 0 .. t.size - 1
          /\ i - s.windex \in 0 .. HeaderSize + OffsetSize - 1
          /\ i - s.windex < HeaderSize
      BY <1>1, <1>2, <2>1
    <3>2. OffsetCells(head, offset)[i - s.windex] = head[i - s.windex]
      BY <3>1 DEF OffsetCells
    <3>3. k[u.data][i] = g[t.data][i] /\ g[t.data][i] = head[i - s.windex]
      BY <1>2, <1>3, <2>1, <3>1
    <3> QED BY <3>1, <3>2, <3>3
  <2>2. CASE i \in t.windex .. t.windex + OffsetSize - 1
    <3>1. /\ i \in s.windex .. s.windex + (HeaderSize + OffsetSize) - 1
          /\ i - s.windex \in 0 .. HeaderSize + OffsetSize - 1
          /\ ~(i - s.windex < HeaderSize)
          /\ (i - s.windex) - HeaderSize = i - t.windex
      BY <1>1, <1>2, <2>2
    <3>2. OffsetCells(head, offset)[i - s.windex] = offset[i - t.windex]
      BY <3>1 DEF OffsetCells
    <3>3. k[u.data][i] = offset[i - t.windex]
      BY <1>3, <2>2
    <3> QED BY <3>1, <3>2, <3>3
  <2>3. CASE /\ i \notin s.windex .. s.windex + HeaderSize - 1
             /\ i \notin t.windex .. t.windex + OffsetSize - 1
    <3>1. /\ i \notin s.windex .. s.windex + (HeaderSize + OffsetSize) - 1
          /\ i \in 0 .. t.size - 1
      BY <1>1, <1>2, <1>3, <2>3
    <3>2. k[u.data][i] = g[t.data][i] /\ g[t.data][i] = h[s.data][i]
      BY <1>2, <1>3, <2>3, <3>1
    <3> QED BY <3>1, <3>2
  <2> QED BY <2>1, <2>2, <2>3
<1> QED BY <1>3, <1>4, <1>5 DEF Wrote

LEMMA EncodesOffset ==
  ASSUME NEW s, NEW h, Owned(s, h), NEW type, NEW value_type \in 0 .. 255,
         NEW modifier \in 0 .. 255, NEW offset \in [0 .. OffsetSize - 1 -> Byte]
  PROVE  WritesInTwo(coil_operand_encode_off(s, h, type, value_type, modifier, offset),
                     s, h, HeaderSize + OffsetSize,
                     OffsetCells(HeaderCells(TYPEOP_OFF, value_type, modifier), offset))
<1> DEFINE head == HeaderCells(TYPEOP_OFF, value_type, modifier)
<1>1. head \in [0 .. HeaderSize - 1 -> Byte] /\ head[0] = TYPEOP_OFF
  BY CodeAssumption DEF HeaderCells
<1>2. Writes(coil_operand_encode(s, h, TYPEOP_OFF, value_type, modifier), s, h,
             HeaderSize, head)
  BY TYPEOP_OFF \in 0 .. 255, EncodesOperand
<1> HIDE DEF head
<1>3. \A i \in 0 .. OffsetSize - 1 : offset[i] \in Cell
  BY DEF Cell
<1> SUFFICES ASSUME NEW p \in coil_operand_encode(s, h, TYPEOP_OFF, value_type, modifier),
                    NEW o \in IF p.err = "GOOD"
                                THEN WriteOutcomes(p.sect, p.heap, OffsetSize, offset)
                                ELSE {p}
             PROVE  \/ /\ o.err = "GOOD"
                       /\ Wrote(s, h, HeaderSize + OffsetSize, OffsetCells(head, offset),
                                o.sect, o.heap)
                    \/ o.err # "GOOD" /\ o.sect = s /\ o.heap = h
                    \/ o.err # "GOOD" /\ Begun(s, h, o.sect, o.heap)
  BY SMTT(20) DEF WritesInTwo, coil_operand_encode_off, head
<1>4. CASE p.err # "GOOD"
  BY <1>2, <1>4 DEF Writes
<1>5. CASE p.err = "GOOD"
  <2>1. Wrote(s, h, HeaderSize, head, p.sect, p.heap)
    BY <1>2, <1>5 DEF Writes
  <2>2. Owned(p.sect, p.heap)
    BY <2>1 DEF Wrote
  <2>3. \/ o.err = "GOOD" /\ Wrote(p.sect, p.heap, OffsetSize, offset, o.sect, o.heap)
        \/ o.err # "GOOD" /\ o.sect = p.sect /\ o.heap = p.heap
    BY <1>3, <1>5, <2>2, OwnedWrite
  <2>4. CASE o.err # "GOOD"
    BY <1>1, <2>1, <2>3, <2>4 DEF Begun
  <2>5. CASE o.err = "GOOD"
    BY <2>1, <2>3, <2>5, WroteTwice
  <2> QED BY <2>4, <2>5
<1> QED BY <1>4, <1>5

(***************************************************************************)
(* What the decoders make of a piece that lies before them                 *)
(***************************************************************************)

(* The piece lies in the bytes from .. to - 1. *)
Lies(img, from, to, piece) ==
  /\ DOMAIN Layout(piece) = 0 .. to - from - 1
  /\ \A i \in DOMAIN Layout(piece) : Layout(piece)[i] = img[from + i]

(* A piece of n cells ends n bytes behind its start. *)
LEMMA SameExtent ==
  ASSUME NEW from \in Nat, NEW to \in Nat, NEW n \in Nat \ {0},
         0 .. to - from - 1 = 0 .. n - 1
  PROVE  to = from + n
<1>1. n - 1 \in 0 .. to - from - 1 /\ n \notin 0 .. to - from - 1
  OBVIOUS
<1> QED BY <1>1

Readable(img, size) ==
  \E c \in 1 .. MaxAlloc : img \in [0 .. c - 1 -> Cell] /\ size \in 0 .. c

LEMMA ReadableFacts ==
  ASSUME NEW img, NEW size, Readable(img, size)
  PROVE  /\ size \in Nat /\ size <= MaxAlloc
         /\ MaxAlloc \in Nat /\ SizeMod \in Nat /\ MaxAlloc + OffsetSize < SizeMod
         /\ \A i : At(img, i) \in Cell
         /\ \A i \in 0 .. size - 1 : At(img, i) = img[i] /\ i \in DOMAIN img
<1>1. PICK c \in 1 .. MaxAlloc : img \in [0 .. c - 1 -> Cell] /\ size \in 0 .. c
  BY DEF Readable
<1>2. \A i : At(img, i) \in Cell
  BY <1>1 DEF At, Cell
<1>3. \A i \in 0 .. size - 1 : At(img, i) = img[i] /\ i \in DOMAIN img
  BY <1>1 DEF At
<1> QED BY <1>1, <1>2, <1>3, CodeAssumption

LEMMA CopiedFacts ==
  ASSUME NEW img, NEW size, Readable(img, size), NEW pos \in Nat, NEW n \in Nat
  PROVE  /\ Copied(img, pos, n) \in Cells(n)
         /\ pos + n <= size => \A i \in 0 .. n - 1 : Copied(img, pos, n)[i] = img[pos + i]
<1>1. Copied(img, pos, n) \in Cells(n)
  BY ReadableFacts DEF Copied, Cells
<1>2. ASSUME pos + n <= size, NEW i \in 0 .. n - 1
      PROVE  Copied(img, pos, n)[i] = img[pos + i]
  <2>1. pos + i \in 0 .. size - 1
    BY <1>2, ReadableFacts
  <2> QED BY <2>1, ReadableFacts DEF Copied
<1> QED BY <1>1, <1>2

(* Cells stored at the start of the caller's memory. *)
LEMMA Stored ==
  ASSUME NEW m \in Nat, NEW mem \in Cells(m), NEW n \in 0 .. m, NEW c \in Cells(n)
  PROVE  /\ Overlay(mem, 0, n, c) \in Cells(m)
         /\ \A i \in 0 .. n - 1 : Overlay(mem, 0, n, c)[i] = c[i]
<1>1. /\ mem \in [0 .. m - 1 -> Cell] /\ n \in Nat /\ 0 \in Nat /\ 0 + n <= m
      /\ \A i \in 0 .. n - 1 : c[i] \in Cell
  BY DEF Cells
<1>2. Overlay(mem, 0, n, c) \in [0 .. m - 1 -> Cell]
  BY <1>1, OverlayInside
<1> QED BY <1>1, <1>2, OverlayStart DEF Cells

LEMMA FormatFacts ==
  /\ \A op : coil_instrfmt(op) \in Format
  /\ \A fmt \in BasicFormat :
       /\ HeaderLength(fmt) = 1 /\ fmt # "UNKN" /\ fmt \notin FlagFormat /\ fmt # "VALUE"
  /\ \A fmt \in FlagFormat : HeaderLength(fmt) = FlagSize /\ fmt # "UNKN"
  /\ HeaderLength("VALUE") = ValueSize /\ "VALUE" \notin FlagFormat
<1>1. \A op : coil_instrfmt(op) \in Format
  BY DEF coil_instrfmt, Format
<1> QED BY <1>1 DEF HeaderLength, BasicFormat, FlagFormat

(* An instruction header that is there is decoded. *)
LEMMA DecodesHeader ==
  ASSUME NEW img, NEW size, Readable(img, size), NEW pos \in Nat, NEW o \in Out,
         NEW n \in 1 .. ValueSize, pos + n <= size,
         coil_instrfmt(img[pos]) # "UNKN", n = HeaderLength(coil_instrfmt(img[pos])),
         NEW d, d = coil_instr_decode(img, size, pos, o)
  PROVE  /\ d.err = "GOOD" /\ d.pos = pos + n /\ d.out \in Out
         /\ d.out.fmt = coil_instrfmt(img[pos])
         /\ \A i \in 0 .. n - 1 : d.out.mem[i] = img[pos + i]
<1> DEFINE fmt == coil_instrfmt(img[pos])
           c == Copied(img, pos, n)
           mem == Overlay(o.mem, 0, n, c)
           out2 == [o EXCEPT !.fmt = fmt, !.mem = mem]
<1>1. /\ size \in Nat /\ size <= MaxAlloc /\ ~(pos >= size)
      /\ At(img, pos) = img[pos] /\ Plus(pos, n) = pos + n /\ ~(pos + n > size)
  BY ReadableFacts DEF Plus
<1>2. d = Decoded(pos + n, [o EXCEPT !.fmt = fmt, !.mem = Overlay(@, 0, n, c)])
  BY <1>1, Zenon DEF coil_instr_decode
<1>3. o.mem \in Cells(ValueSize)
  BY DEF Out
<1>4. c \in Cells(n) /\ \A i \in 0 .. n - 1 : c[i] = img[pos + i]
  BY CopiedFacts
<1>5. mem \in Cells(ValueSize) /\ \A i \in 0 .. n - 1 : mem[i] = img[pos + i]
  <2>1. n \in 0 .. ValueSize /\ ValueSize \in Nat
    OBVIOUS
  <2> HIDE DEF c
  <2>2. mem \in Cells(ValueSize)
    BY <1>3, <1>4, <2>1, Stored
  <2>3. ASSUME NEW i \in 0 .. n - 1
        PROVE  mem[i] = c[i]
    BY <2>1, OverlayStart
  <2> QED BY <1>4, <2>2, <2>3
<1>6. fmt \in Format
  BY FormatFacts
<1> HIDE DEF mem, fmt, c
<1>7. out2 \in Out /\ out2.fmt = fmt /\ out2.mem = mem
  BY <1>5, <1>6 DEF Out
<1>8. d = Decoded(pos + n, out2)
  BY <1>2 DEF Out, mem
<1> HIDE DEF out2
<1>9. d.err = "GOOD" /\ d.pos = pos + n /\ d.out = out2
  BY <1>8 DEF Decoded
<1> QED BY <1>5, <1>7, <1>9 DEF fmt

LEMMA DecodesInstr ==
  ASSUME NEW img, NEW size, Readable(img, size), NEW pos \in Nat, NEW end \in Nat,
         end <= size, NEW o \in Out, NEW r, CarefulInstr(r),
         Lies(img, pos, end, r.piece),
         NEW d, d = coil_instr_decode(img, size, pos, o)
  PROVE  /\ d.err = "GOOD" /\ d.pos = end /\ d.out \in Out
         /\ ReadInstr(d.out) = r.piece /\ Operands(d.out.fmt) = r.owed
<1>1. PICK op \in 0 .. 255 :
        /\ r.owed = Operands(coil_instrfmt(op)) /\ r.due = 0
        /\ \/ /\ coil_instrfmt(op) \in BasicFormat
              /\ r.piece = InstrPiece(op, NoCells)
           \/ /\ coil_instrfmt(op) \in FlagFormat
              /\ \E flag \in 0 .. 255 : r.piece = InstrPiece(op, InstrCells(flag))
           \/ /\ coil_instrfmt(op) = "VALUE"
              /\ \E value \in [0 .. WordSize - 1 -> Byte] :
                   r.piece = InstrPiece(op, value)
  BY Zenon DEF CarefulInstr
<1> DEFINE fmt == coil_instrfmt(op)
           Yields(n, cells) == /\ d.err = "GOOD" /\ d.pos = end /\ d.out \in Out
                               /\ d.out.fmt = fmt
                               /\ \A i \in 0 .. n - 1 : d.out.mem[i] = cells[i]
<1>2. ASSUME NEW n \in 1 .. ValueSize, n = HeaderLength(fmt), fmt # "UNKN",
             NEW cells, Layout(r.piece) = cells, DOMAIN cells = 0 .. n - 1, cells[0] = op
      PROVE  Yields(n, cells)
  <2>1. 0 .. n - 1 = 0 .. end - pos - 1 /\ \A i \in 0 .. n - 1 : cells[i] = img[pos + i]
    BY <1>2 DEF Lies
  <2>2. end = pos + n
    BY <2>1, n \in Nat \ {0}, SameExtent
  <2>3. img[pos] = op
    <3>1. 0 \in 0 .. n - 1 /\ pos + 0 = pos
      OBVIOUS
    <3> QED BY <1>2, <2>1, <3>1
  <2>4. pos + n <= size /\ coil_instrfmt(img[pos]) # "UNKN"
        /\ n = HeaderLength(coil_instrfmt(img[pos]))
    BY <1>2, <2>2, <2>3
  <2> HIDE DEF fmt
  <2>5. /\ d.err = "GOOD" /\ d.pos = pos + n /\ d.out \in Out
        /\ d.out.fmt = coil_instrfmt(img[pos])
        /\ \A i \in 0 .. n - 1 : d.out.mem[i] = img[pos + i]
    BY <2>4, DecodesHeader, SMTT(20)
  <2> QED BY <2>1, <2>2, <2>3, <2>5 DEF fmt
<1> HIDE DEF fmt, Yields
<1>3. r.owed = Operands(fmt)
  BY <1>1 DEF fmt
<1>4. CASE fmt \in BasicFormat /\ r.piece = InstrPiece(op, NoCells)
  <2>1. DOMAIN InstrCells(op) = 0 .. 1 - 1 /\ InstrCells(op)[0] = op /\ 1 \in 1 .. ValueSize
    BY DEF InstrCells
  <2>2. Layout(r.piece) = InstrCells(op) /\ 1 = HeaderLength(fmt) /\ fmt # "UNKN"
    BY <1>4, LayoutInstr, FormatFacts
  <2>3. /\ d.err = "GOOD" /\ d.pos = end /\ d.out \in Out /\ d.out.fmt = fmt
        /\ \A i \in 0 .. 1 - 1 : d.out.mem[i] = InstrCells(op)[i]
    <3>1. Yields(1, InstrCells(op))
      BY <1>2, <2>1, <2>2
    <3> QED BY <3>1 DEF Yields
  <2>4. d.out.mem[0] = op
    BY <2>1, <2>3
  <2>5. ReadInstr(d.out) = InstrPiece(op, NoCells)
    BY <1>4, <2>3, <2>4, FormatFacts DEF ReadInstr
  <2> QED BY <1>3, <1>4, <2>3, <2>5
<1>5. CASE fmt \in FlagFormat /\ \E flag \in 0 .. 255 : r.piece = InstrPiece(op, InstrCells(flag))
  <2>1. PICK flag \in 0 .. 255 : r.piece = InstrPiece(op, InstrCells(flag))
    BY <1>5
  <2>2. /\ DOMAIN FlagCells(op, flag) = 0 .. FlagSize - 1
        /\ FlagCells(op, flag)[0] = op /\ FlagCells(op, flag)[1] = flag
        /\ FlagSize \in 1 .. ValueSize
    BY DEF FlagCells
  <2>3. Layout(r.piece) = FlagCells(op, flag) /\ FlagSize = HeaderLength(fmt) /\ fmt # "UNKN"
    BY <1>5, <2>1, LayoutFlag, FormatFacts
  <2>4. /\ d.err = "GOOD" /\ d.pos = end /\ d.out \in Out /\ d.out.fmt = fmt
        /\ \A i \in 0 .. FlagSize - 1 : d.out.mem[i] = FlagCells(op, flag)[i]
    <3>1. Yields(FlagSize, FlagCells(op, flag))
      BY <1>2, <2>2, <2>3
    <3> QED BY <3>1 DEF Yields
  <2>5. d.out.mem[0] = op /\ d.out.mem[1] = flag
    BY <2>2, <2>4
  <2>6. ReadInstr(d.out) = InstrPiece(op, InstrCells(flag))
    <3>1. [i \in 0 .. 0 |-> d.out.mem[1]] = InstrCells(flag)
      BY <2>5 DEF InstrCells
    <3>2. d.out.fmt \in FlagFormat
      BY <1>5, <2>4
    <3> QED BY <2>5, <3>1, <3>2, FormatFacts DEF ReadInstr
  <2> QED BY <1>3, <2>1, <2>4, <2>6
<1>6. CASE fmt = "VALUE" /\ \E value \in [0 .. WordSize - 1 -> Byte] : r.piece = InstrPiece(op, value)
  <2>1. PICK value \in [0 .. WordSize - 1 -> Byte] : r.piece = InstrPiece(op, value)
    BY <1>6
  <2>2. /\ DOMAIN ValueCells(op, value) = 0 .. ValueSize - 1
        /\ ValueCells(op, value)[0] = op
        /\ \A i \in 0 .. WordSize - 1 : ValueCells(op, value)[WordSize + i] = value[i]
        /\ ValueSize \in 1 .. ValueSize
    <3>1. ASSUME NEW i \in 0 .. WordSize - 1
          PROVE  ValueCells(op, value)[WordSize + i] = value[i]
      <4>1. /\ WordSize + i \in 0 .. ValueSize - 1 /\ WordSize + i # 0
            /\ ~(WordSize + i < WordSize) /\ (WordSize + i) - WordSize = i
        OBVIOUS
      <4> QED BY <4>1 DEF ValueCells
    <3> QED BY <3>1 DEF ValueCells
  <2>3. Layout(r.piece) = ValueCells(op, value) /\ ValueSize = HeaderLength(fmt) /\ fmt # "UNKN"
    BY <1>6, <2>1, LayoutValue, FormatFacts
  <2>4. /\ d.err = "GOOD" /\ d.pos = end /\ d.out \in Out /\ d.out.fmt = fmt
        /\ \A i \in 0 .. ValueSize - 1 : d.out.mem[i] = ValueCells(op, value)[i]
    <3>1. Yields(ValueSize, ValueCells(op, value))
      BY <1>2, <2>2, <2>3
    <3> QED BY <3>1 DEF Yields
  <2>5. d.out.mem[0] = op
    BY <2>2, <2>4
  <2>6. [i \in 0 .. WordSize - 1 |-> d.out.mem[WordSize + i]] = value
    <3>1. \A i \in 0 .. WordSize - 1 : d.out.mem[WordSize + i] = value[i]
      BY <2>2, <2>4
    <3> QED BY <3>1
  <2>7. ReadInstr(d.out) = InstrPiece(op, value)
    BY <1>6, <2>4, <2>5, <2>6, FormatFacts DEF ReadInstr
  <2> QED BY <1>3, <2>1, <2>4, <2>7
<1> QED BY <1>1, <1>4, <1>5, <1>6 DEF fmt

(* An operand that is there is decoded, and the decoder will give its data *)
(* the size the encoder gave them.                                         *)
LEMMA DecodesOperand ==
  ASSUME NEW img, NEW size, Readable(img, size), NEW pos \in Nat, NEW end \in Nat,
         end <= size, NEW o \in Out, NEW owed \in 1 .. 3, NEW r, CarefulOperand(r, owed),
         Lies(img, pos, end, r.piece),
         NEW d, d = coil_operand_decode(img, size, pos, o)
  PROVE  /\ d.err = "GOOD" /\ d.pos = end /\ d.out \in Out
         /\ OperandPiece(d.out.header, d.out.offset) = r.piece
         /\ coil_value_type_size(d.out.header[1]) = r.due
<1>1. PICK type \in 0 .. 255, value_type \in 0 .. 255 \ WideTypes, modifier \in 0 .. 255 :
        /\ r.owed = owed - 1 /\ r.due = NamedSize(value_type)
        /\ \/ /\ type # TYPEOP_OFF
              /\ r.piece = OperandPiece(HeaderCells(type, value_type, modifier), ZeroOffset)
           \/ /\ type = TYPEOP_OFF
              /\ \E offset \in [0 .. OffsetSize - 1 -> Byte] :
                   r.piece = OperandPiece(HeaderCells(type, value_type, modifier), offset)
  BY Zenon DEF CarefulOperand
<1> DEFINE c == HeaderCells(type, value_type, modifier)
           mid == Plus(pos, HeaderSize)
           header == Copied(img, pos, HeaderSize)
           offset1 == Copied(img, mid, OffsetSize)
<1>2. /\ c = [i \in 0 .. HeaderSize - 1 |-> c[i]]
      /\ c[0] = type /\ c[1] = value_type
      /\ c \in Cells(HeaderSize)
  BY Bytes255 DEF HeaderCells, Cells
<1>3. coil_value_type_size(c[1]) = r.due
  BY <1>1, <1>2, Widths
<1> HIDE DEF c
<1>4. /\ size \in Nat /\ size <= MaxAlloc /\ MaxAlloc \in Nat /\ SizeMod \in Nat
      /\ MaxAlloc + OffsetSize < SizeMod
  BY ReadableFacts
<1>5. ASSUME pos + HeaderSize <= size,
             \A i \in 0 .. HeaderSize - 1 : c[i] = img[pos + i]
      PROVE  header = c /\ mid = pos + HeaderSize
  <2>1. mid = pos + HeaderSize
    BY <1>4, <1>5 DEF Plus
  <2>2. \A i \in 0 .. HeaderSize - 1 : At(img, pos + i) = c[i]
    <3>1. \A i \in 0 .. HeaderSize - 1 : pos + i \in 0 .. size - 1
      BY <1>4, <1>5
    <3> QED BY <1>5, <3>1, ReadableFacts
  <2>3. header = [i \in 0 .. HeaderSize - 1 |-> c[i]]
    BY <2>2 DEF Copied
  <2> QED BY <1>2, <2>1, <2>3
<1>6. CASE type # TYPEOP_OFF /\ r.piece = OperandPiece(c, ZeroOffset)
  <2>1. Layout(r.piece) = c
    BY <1>2, <1>6, LayoutOperand
  <2>2. 0 .. end - pos - 1 = 0 .. HeaderSize - 1
        /\ \A i \in 0 .. HeaderSize - 1 : c[i] = img[pos + i]
    BY <1>2, <2>1 DEF Lies
  <2>3. end = pos + HeaderSize
    BY <2>2, HeaderSize \in Nat \ {0}, SameExtent
  <2>4. header = c /\ mid = end
    BY <1>5, <2>2, <2>3
  <2> DEFINE out2 == [o EXCEPT !.header = c, !.offset = ZeroOffset]
  <2> HIDE DEF header, mid
  <2>5. d = Decoded(end, out2)
    <3>1. header[0] # TYPEOP_OFF /\ ~(mid > size)
      BY <1>2, <1>4, <1>6, <2>4
    <3>2. d = Decoded(mid, [o EXCEPT !.header = header, !.offset = ZeroOffset])
      BY <3>1 DEF coil_operand_decode, header, mid
    <3> QED BY <2>4, <3>2
  <2>6. ZeroOffset \in Cells(OffsetSize)
    BY Bytes255 DEF ZeroOffset, Cells
  <2>7. out2 \in Out /\ out2.header = c /\ out2.offset = ZeroOffset
    BY <1>2, <2>6 DEF Out
  <2> HIDE DEF out2
  <2>8. d.err = "GOOD" /\ d.pos = end /\ d.out = out2
    BY <2>5 DEF Decoded
  <2> QED BY <1>3, <1>6, <2>7, <2>8
<1>7. CASE /\ type = TYPEOP_OFF
           /\ \E offset \in [0 .. OffsetSize - 1 -> Byte] : r.piece = OperandPiece(c, offset)
  <2>1. PICK offset \in [0 .. OffsetSize - 1 -> Byte] : r.piece = OperandPiece(c, offset)
    BY <1>7
  <2>2. Layout(r.piece) = OffsetCells(c, offset)
    <3>1. DOMAIN c = 0 .. HeaderSize - 1
      BY <1>2
    <3> QED BY <1>2, <1>7, <2>1, <3>1, LayoutOffset, OffsetOverlay
  <2>3. DOMAIN OffsetCells(c, offset) = 0 .. HeaderSize + OffsetSize - 1
    BY DEF OffsetCells
  <2>4. 0 .. end - pos - 1 = 0 .. HeaderSize + OffsetSize - 1
        /\ \A i \in 0 .. HeaderSize + OffsetSize - 1 : OffsetCells(c, offset)[i] = img[pos + i]
    BY <2>2, <2>3 DEF Lies
  <2>5. end = pos + (HeaderSize + OffsetSize)
    <3> DEFINE n == HeaderSize + OffsetSize
    <3>1. n \in Nat \ {0} /\ 0 .. end - pos - 1 = 0 .. n - 1
      BY <2>4
    <3> HIDE DEF n
    <3>2. end = pos + n
      BY <3>1, SameExtent
    <3> QED BY <3>2 DEF n
  <2>6. \A i \in 0 .. HeaderSize - 1 : c[i] = img[pos + i]
    <3>1. \A i \in 0 .. HeaderSize - 1 : OffsetCells(c, offset)[i] = c[i]
      BY DEF OffsetCells
    <3> QED BY <2>4, <3>1
  <2>7. header = c /\ mid = pos + HeaderSize
    <3>1. pos + HeaderSize <= size
      BY <1>4, <2>5
    <3> QED BY <1>5, <2>6, <3>1
  <2>8. offset1 = offset
    <3>1. ASSUME NEW i \in 0 .. OffsetSize - 1
          PROVE  At(img, mid + i) = offset[i]
      <4>1. /\ mid + i = pos + (HeaderSize + i) /\ mid + i \in 0 .. size - 1
            /\ HeaderSize + i \in 0 .. HeaderSize + OffsetSize - 1
            /\ ~(HeaderSize + i < HeaderSize) /\ (HeaderSize + i) - HeaderSize = i
        BY <1>4, <2>5, <2>7
      <4>2. OffsetCells(c, offset)[HeaderSize + i] = offset[i]
        BY <4>1 DEF OffsetCells
      <4> QED BY <2>4, <4>1, <4>2, ReadableFacts
    <3>2. offset1 = [i \in 0 .. OffsetSize - 1 |-> offset[i]]
      BY <3>1 DEF Copied
    <3> QED BY <3>2
  <2> DEFINE out2 == [o EXCEPT !.header = c, !.offset = offset]
  <2> HIDE DEF header, offset1, mid
  <2>9. d = Decoded(end, out2)
    <3>1. header[0] = TYPEOP_OFF /\ ~(mid > size) /\ Plus(mid, OffsetSize) = end
          /\ ~(Plus(mid, OffsetSize) > size)
      BY <1>2, <1>4, <1>7, <2>5, <2>7 DEF Plus
    <3>2. d = Decoded(Plus(mid, OffsetSize), [o EXCEPT !.header = header, !.offset = offset1])
      BY <3>1 DEF coil_operand_decode, header, mid, offset1
    <3> QED BY <2>7, <2>8, <3>1, <3>2
  <2>10. offset \in Cells(OffsetSize)
    BY DEF Cell, Cells
  <2>11. out2 \in Out /\ out2.header = c /\ out2.offset = offset
    BY <1>2, <2>10 DEF Out
  <2> HIDE DEF out2
  <2>12. d.err = "GOOD" /\ d.pos = end /\ d.out = out2
    BY <2>9 DEF Decoded
  <2> QED BY <1>3, <2>1, <2>11, <2>12
<1> QED BY <1>1, <1>6, <1>7 DEF c

(* Data that are there are decoded, if the caller's buffer is large enough;*)
(* if it is not, the caller learns how large it has to be.                 *)
DataReady(img, size, pos, end, room, o, owed, due, r) ==
  /\ Readable(img, size) /\ pos \in Nat /\ end \in Nat /\ end <= size
  /\ room \in Nat /\ o \in Out
  /\ due \in Dues /\ coil_value_type_size(o.header[1]) = due
  /\ CarefulData(r, owed, due) /\ Lies(img, pos, end, r.piece)

LEMMA DecodesData ==
  ASSUME NEW img, NEW size, NEW pos, NEW end, NEW room, NEW o, NEW owed, NEW due, NEW r,
         DataReady(img, size, pos, end, room, o, owed, due, r),
         NEW d, d = coil_operand_decode_data(img, size, pos, room, o)
  PROVE  /\ d.out \in Out /\ d.out.valsize = due /\ d.out.header = o.header
         /\ \/ d.err = "NOMEM"
            \/ /\ d.err = "GOOD" /\ d.pos = end
               /\ DataPiece([i \in 0 .. due - 1 |-> d.out.data[i]]) = r.piece
<1> USE DEF DataReady
<1>1. PICK data \in [0 .. due - 1 -> Byte] : r.piece = DataPiece(data)
  BY Zenon DEF CarefulData
<1>2. Layout(r.piece) = data /\ DOMAIN data = 0 .. due - 1
  BY <1>1, LayoutData
<1>3. due \in 1 .. WordSize
  BY DEF Dues
<1>4. 0 .. end - pos - 1 = 0 .. due - 1 /\ \A i \in 0 .. due - 1 : data[i] = img[pos + i]
  BY <1>2 DEF Lies
<1>5. end = pos + due
  BY <1>3, <1>4, SameExtent
<1>6. Plus(pos, due) = end /\ ~(end > size)
  BY <1>3, <1>5, ReadableFacts DEF Plus
<1> DEFINE own == [o EXCEPT !.valsize = due]
           c == Copied(img, pos, due)
           out2 == [own EXCEPT !.data = Overlay(@, 0, due, c)]
<1>7. own \in Out /\ own.valsize = due /\ own.header = o.header /\ own.data \in Cells(WordSize)
  BY DEF Out, Dues
<1>8. c \in Cells(due) /\ \A i \in 0 .. due - 1 : c[i] = data[i]
  BY <1>3, <1>4, <1>5, CopiedFacts
<1> HIDE DEF c, own
<1>9. /\ Overlay(own.data, 0, due, c) \in Cells(WordSize)
      /\ \A i \in 0 .. due - 1 : Overlay(own.data, 0, due, c)[i] = data[i]
  <2>1. due \in 0 .. WordSize /\ WordSize \in Nat /\ due \in Nat
    BY <1>3
  <2>2. Overlay(own.data, 0, due, c) \in Cells(WordSize)
    BY <1>7, <1>8, <2>1, Stored
  <2>3. ASSUME NEW i \in 0 .. due - 1
        PROVE  Overlay(own.data, 0, due, c)[i] = c[i]
    BY <2>1, OverlayStart
  <2> QED BY <1>8, <2>2, <2>3
<1>10. /\ out2 \in Out /\ out2.valsize = due /\ out2.header = o.header
       /\ out2.data = Overlay(own.data, 0, due, c)
  BY <1>7, <1>9 DEF Out
<1>11. [i \in 0 .. due - 1 |-> out2.data[i]] = data
  <2>1. \A i \in 0 .. due - 1 : out2.data[i] = data[i]
    BY <1>9, <1>10
  <2> QED BY <2>1
<1> HIDE DEF out2
<1>12. CASE room < due
  <2>1. d = Refused("NOMEM", own)
    BY <1>12, Zenon DEF coil_operand_decode_data, own
  <2> QED BY <1>7, <2>1 DEF Refused
<1>13. CASE ~(room < due)
  <2>1. d = Decoded(end, out2)
    BY <1>6, <1>13, Zenon DEF coil_operand_decode_data, own, out2, c
  <2>2. d.err = "GOOD" /\ d.pos = end /\ d.out = out2
    BY <2>1 DEF Decoded
  <2> QED BY <1>1, <1>10, <1>11, <2>2
<1> QED BY <1>12, <1>13

(* An operand without data: nothing is read. *)
LEMMA DecodesNothing ==
  ASSUME NEW img, NEW size, Readable(img, size), NEW pos \in 0 .. size,
         NEW room \in Nat, NEW o \in Out, coil_value_type_size(o.header[1]) = 0,
         NEW d, d = coil_operand_decode_data(img, size, pos, room, o)
  PROVE  /\ d.err = "GOOD" /\ d.pos = pos /\ d.out \in Out /\ d.out.valsize = 0
<1> DEFINE own == [o EXCEPT !.valsize = 0]
           c == Copied(img, pos, 0)
           out2 == [own EXCEPT !.data = Overlay(@, 0, 0, c)]
<1>1. Plus(pos, 0) = pos /\ ~(pos > size) /\ ~(room < 0) /\ pos \in Nat
  BY ReadableFacts DEF Plus
<1>2. own \in Out /\ own.valsize = 0 /\ own.data \in Cells(WordSize)
  BY DEF Out
<1>3. c \in Cells(0)
  BY <1>1, CopiedFacts
<1> HIDE DEF c, own
<1>4. Overlay(own.data, 0, 0, c) \in Cells(WordSize)
  <2>1. 0 \in 0 .. WordSize /\ WordSize \in Nat
    OBVIOUS
  <2> QED BY <1>2, <1>3, <2>1, Stored
<1>5. out2 \in Out /\ out2.valsize = 0
  BY <1>2, <1>4 DEF Out
<1> HIDE DEF out2
<1>6. d = Decoded(pos, out2)
  BY <1>1, Zenon DEF coil_operand_decode_data, own, out2, c
<1> QED BY <1>5, <1>6 DEF Decoded

(***************************************************************************)
(* A reader that has taken everything is refused, also when the header of  *)
(* an operand lies behind the last piece without its offset.               *)
(***************************************************************************)

LEMMA RefusesInstr ==
  ASSUME NEW img, NEW size \in Nat, NEW pos \in Nat, pos >= size, NEW o,
         NEW d, d = coil_instr_decode(img, size, pos, o)
  PROVE  d.err # "GOOD" /\ d.out = o
<1>1. d = Refused("FORMAT", o)
  BY Zenon DEF coil_instr_decode
<1> QED BY <1>1 DEF Refused

LEMMA RefusesOperand ==
  ASSUME NEW img, NEW size, Readable(img, size), NEW pos \in Nat, NEW o \in Out,
         \/ size = pos
         \/ size = pos + HeaderSize /\ img[pos] = TYPEOP_OFF,
         NEW d, d = coil_operand_decode(img, size, pos, o)
  PROVE  d.err # "GOOD" /\ d.out \in Out
<1> DEFINE mid == Plus(pos, HeaderSize)
           end == Plus(mid, OffsetSize)
           header == Copied(img, pos, HeaderSize)
<1>1. mid = pos + HeaderSize /\ size \in Nat
  <2>1. /\ size \in Nat /\ size <= MaxAlloc /\ MaxAlloc \in Nat /\ SizeMod \in Nat
        /\ MaxAlloc + OffsetSize < SizeMod
    BY ReadableFacts
  <2> QED BY <2>1 DEF Plus
<1>2. CASE size = pos
  <2>1. mid > size
    BY <1>1, <1>2
  <2>2. d = Refused("FORMAT", o)
    BY <2>1, Zenon DEF coil_operand_decode
  <2> QED BY <2>2 DEF Refused
<1>3. CASE size = pos + HeaderSize /\ img[pos] = TYPEOP_OFF
  <2>1. ~(mid > size) /\ end > size
    BY <1>1, <1>3, ReadableFacts DEF Plus
  <2>2. header \in Cells(HeaderSize) /\ header[0] = TYPEOP_OFF
    <3>1. pos + HeaderSize <= size /\ 0 \in 0 .. HeaderSize - 1 /\ pos + 0 = pos
      BY <1>1, <1>3
    <3>2. header[0] = img[pos + 0]
      BY <3>1, CopiedFacts
    <3> QED BY <1>3, <3>1, <3>2, CopiedFacts
  <2> HIDE DEF mid, end, header
  <2>3. d = Refused("FORMAT", [o EXCEPT !.header = header])
    BY <2>1, <2>2, Zenon DEF coil_operand_decode, mid, end, header
  <2>4. [o EXCEPT !.header = header] \in Out
    BY <2>2 DEF Out
  <2> QED BY <2>3, <2>4 DEF Refused
<1> QED BY <1>2, <1>3

LEMMA RefusesData ==
  ASSUME NEW img, NEW size \in Nat, size <= MaxAlloc, NEW room \in Nat, NEW o \in Out,
         NEW due \in Dues, coil_value_type_size(o.header[1]) = due,
         NEW d, d = coil_operand_decode_data(img, size, size, room, o)
  PROVE  /\ d.err \in {"NOMEM", "FORMAT"}
         /\ d.out \in Out /\ d.out.valsize = due /\ d.out.header = o.header
<1> DEFINE own == [o EXCEPT !.valsize = due]
<1>1. own \in Out /\ own.valsize = due /\ own.header = o.header
  BY DEF Out, Dues
<1>2. Plus(size, due) > size
  BY CodeAssumption DEF Plus, Dues
<1> HIDE DEF own
<1>3. d = Refused("NOMEM", own) \/ d = Refused("FORMAT", own)
  <2>1. CASE room < due
    BY <2>1, Zenon DEF coil_operand_decode_data, own
  <2>2. CASE ~(room < due)
    BY <1>2, <2>2, Zenon DEF coil_operand_decode_data, own
  <2> QED BY <2>1, <2>2
<1> QED BY <1>1, <1>3 DEF Refused

(***************************************************************************)
(* The invariant                                                           *)
(***************************************************************************)

Record ==
  [piece : Piece, from : Size, to : Size, owed : 0 .. 3, due : {0} \cup Dues]

(* Where the first k pieces end, and what is to come behind them. *)
End(s, k)  == IF k = 0 THEN 0 ELSE s[k].to
Owed(s, k) == IF k = 0 THEN 0 ELSE s[k].owed
Due(s, k)  == IF k = 0 THEN 0 ELSE s[k].due

(* Piece k lies behind piece k - 1, where the grammar allows it. *)
Filed(s, img, back, k) ==
  /\ s[k].from = End(s, k - 1)
  /\ s[k].to <= back
  /\ Follows(Owed(s, k - 1), Due(s, k - 1), s[k])
  /\ Lies(img, s[k].from, s[k].to, s[k].piece)

NoStrayJunk(s, img, size) ==
  \A i \in 0 .. size - 1 :
    img[i] = Junk =>
      \E k \in DOMAIN s :
        /\ DOMAIN s[k].piece.arg = 0 .. WordSize - 1
        /\ i \in s[k].from + 1 .. s[k].from + WordSize - 1

(* Behind the last piece: nothing, or a header that lacks its offset. *)
Behind(img, size, back, owed, due) ==
  \/ size = back
  \/ /\ size = back + HeaderSize
     /\ img[back] = TYPEOP_OFF
     /\ owed > 0 /\ due = 0

WriterInv ==
  /\ Owned(sect, heap)
  /\ enc \in [owed : 0 .. 3, due : {0} \cup Dues, back : Nat, failed : BOOLEAN]
  /\ sent \in Seq(Record)
  /\ enc.back = End(sent, Len(sent))
  /\ enc.owed = Owed(sent, Len(sent)) /\ enc.due = Due(sent, Len(sent))
  /\ enc.back <= sect.size
  /\ enc.failed \/ sect.windex = enc.back
  /\ \A k \in 1 .. Len(sent) : Filed(sent, heap[sect.data], enc.back, k)
  /\ Behind(heap[sect.data], sect.size, enc.back, enc.owed, enc.due)
  /\ NoStrayJunk(sent, heap[sect.data], sect.size)

ReaderInv ==
  /\ dec \in [pos : Nat, owed : 0 .. 3, want : {"instr", "operand", "data"}, room : Nat]
  /\ out \in Out
  /\ got \in Seq(Piece)
  /\ Len(got) <= Len(sent)
  /\ \A k \in 1 .. Len(got) : got[k] = sent[k].piece
  /\ dec.pos = End(sent, Len(got)) /\ dec.owed = Owed(sent, Len(got))
  /\ dec.want = "instr" => dec.owed = 0 /\ Due(sent, Len(got)) = 0
  /\ dec.want = "operand" => dec.owed > 0 /\ Due(sent, Len(got)) = 0
  /\ dec.want = "data" => coil_value_type_size(out.header[1]) = Due(sent, Len(got))

IInv == WriterInv /\ ReaderInv

(* One more piece does not move those before it. *)
LEMMA Appended ==
  ASSUME NEW s \in Seq(Record), NEW r \in Record
  PROVE  LET t == Append(s, r)
         IN  /\ t \in Seq(Record) /\ Len(s) \in Nat /\ Len(t) = Len(s) + 1
             /\ t[Len(s) + 1] = r
             /\ \A k \in 1 .. Len(s) : t[k] = s[k]
             /\ \A k \in 0 .. Len(s) :
                  End(t, k) = End(s, k) /\ Owed(t, k) = Owed(s, k) /\ Due(t, k) = Due(s, k)
             /\ End(t, Len(s) + 1) = r.to
             /\ Owed(t, Len(s) + 1) = r.owed /\ Due(t, Len(s) + 1) = r.due
<1> DEFINE t == Append(s, r)
<1>1. /\ t \in Seq(Record) /\ Len(s) \in Nat /\ Len(t) = Len(s) + 1
      /\ t[Len(s) + 1] = r
      /\ \A k \in 1 .. Len(s) : t[k] = s[k]
  OBVIOUS
<1> HIDE DEF t
<1>2. \A k \in 0 .. Len(s) :
        End(t, k) = End(s, k) /\ Owed(t, k) = Owed(s, k) /\ Due(t, k) = Due(s, k)
  BY <1>1 DEF End, Owed, Due
<1>3. Len(s) + 1 # 0
  BY <1>1
<1>4. /\ End(t, Len(s) + 1) = r.to
      /\ Owed(t, Len(s) + 1) = r.owed /\ Due(t, Len(s) + 1) = r.due
  BY <1>1, <1>3 DEF End, Owed, Due
<1> QED BY <1>1, <1>2, <1>4 DEF t

(***************************************************************************)
(* The writer's steps                                                      *)
(***************************************************************************)

(* Cells below the write leave the pieces that lie there as they are. *)
LEMMA Refiled ==
  ASSUME NEW s \in Seq(Record), NEW img, NEW back \in Nat,
         \A k \in 1 .. Len(s) : Filed(s, img, back, k),
         NEW t, NEW new, NEW back2 \in Nat, back <= back2,
         \A k \in 1 .. Len(s) : t[k] = s[k],
         \A i \in 0 .. back - 1 : new[i] = img[i]
  PROVE  \A k \in 1 .. Len(s) : Filed(t, new, back2, k)
<1> SUFFICES ASSUME NEW k \in 1 .. Len(s)
             PROVE  Filed(t, new, back2, k)
  OBVIOUS
<1>1. /\ s[k].from = End(s, k - 1) /\ s[k].to <= back
      /\ Follows(Owed(s, k - 1), Due(s, k - 1), s[k])
      /\ Lies(img, s[k].from, s[k].to, s[k].piece)
  BY DEF Filed
<1>2. Len(s) \in Nat /\ s[k] \in Record /\ t[k] = s[k]
  OBVIOUS
<1>3. s[k].from \in Nat /\ s[k].to \in Nat
  BY <1>2 DEF Record, Size
<1>4. /\ End(t, k - 1) = End(s, k - 1) /\ Owed(t, k - 1) = Owed(s, k - 1)
      /\ Due(t, k - 1) = Due(s, k - 1)
  BY <1>2 DEF End, Owed, Due
<1>5. Lies(new, s[k].from, s[k].to, s[k].piece)
  <2>1. ASSUME NEW i \in DOMAIN Layout(s[k].piece)
        PROVE  Layout(s[k].piece)[i] = new[s[k].from + i]
    <3>1. i \in 0 .. s[k].to - s[k].from - 1 /\ Layout(s[k].piece)[i] = img[s[k].from + i]
      BY <1>1 DEF Lies
    <3>2. s[k].from + i \in 0 .. back - 1
      BY <1>1, <1>3, <3>1
    <3> QED BY <3>1, <3>2
  <2> QED BY <1>1, <2>1 DEF Lies
<1> QED BY <1>1, <1>2, <1>3, <1>4, <1>5 DEF Filed

LEMMA IndexFacts ==
  ASSUME WriterInv
  PROVE  /\ enc.back \in Nat /\ enc.owed \in 0 .. 3 /\ enc.due \in {0} \cup Dues
         /\ sect.windex \in Nat /\ sect.size \in Nat /\ enc.back <= sect.size
         /\ sect.size <= MaxAlloc /\ MaxAlloc \in Nat /\ MaxAlloc < SizeMod
         /\ Len(sent) \in Nat
         /\ \A k \in 1 .. Len(sent) : sent[k] \in Record
         /\ Readable(heap[sect.data], sect.size)
<1>1. Owned(sect, heap)
  BY DEF WriterInv
<1>2. /\ sect.windex \in Nat /\ sect.size \in Nat
      /\ sect.size <= MaxAlloc /\ MaxAlloc \in Nat /\ MaxAlloc < SizeMod
  BY <1>1, OwnedNumbers
<1>3. Readable(heap[sect.data], sect.size)
  BY <1>1, <1>2 DEF Owned, Readable
<1> QED BY <1>2, <1>3 DEF WriterInv

(* A call that succeeded files one more piece. *)
LEMMA PieceAdded ==
  ASSUME WriterInv, ~enc.failed,
         NEW r \in Record, Follows(enc.owed, enc.due, r),
         NEW n \in 1 .. HeaderSize + OffsetSize,
         DOMAIN Layout(r.piece) = 0 .. n - 1,
         Wrote(sect, heap, n, Layout(r.piece), sect', heap'),
         r.from = enc.back, r.to = sect'.windex,
         sent' = Append(sent, r),
         enc' = [owed |-> r.owed, due |-> r.due, back |-> r.to, failed |-> FALSE]
  PROVE  WriterInv'
<1> DEFINE back == enc.back
           cells == Layout(r.piece)
           img == heap[sect.data]
           new == heap'[sect'.data]
<1>1. /\ back \in Nat /\ sect.size \in Nat /\ back <= sect.size
      /\ Len(sent) \in Nat /\ sent \in Seq(Record)
      /\ sect.windex = back
      /\ n \in Nat /\ n >= 1
  <2>1. n \in Nat /\ n >= 1
    BY SMTT(20)
  <2> QED BY <2>1, IndexFacts DEF WriterInv
<1>2. /\ Owned(sect', heap')
      /\ sect'.windex = back + n
      /\ sect'.size = IF back + n > sect.size THEN back + n ELSE sect.size
      /\ \A i \in 0 .. sect'.size - 1 :
           new[i] = IF i \in back .. back + n - 1 THEN cells[i - back] ELSE img[i]
  BY <1>1 DEF Wrote
<1>3. sect'.size = back + n
  <2>1. CASE sect.size = back
    BY <1>1, <1>2, <2>1
  <2>2. CASE sect.size = back + HeaderSize /\ enc.owed > 0 /\ enc.due = 0
    <3>1. 2 \in DOMAIN Layout(r.piece)
      BY <2>2, FollowsFacts
    <3>2. n >= HeaderSize
      BY <3>1
    <3> QED BY <1>1, <1>2, <2>2, <3>2
  <2> QED BY <2>1, <2>2 DEF WriterInv, Behind
<1> DEFINE last == Len(sent) + 1
<1>4. /\ sent' \in Seq(Record) /\ Len(sent') = last /\ sent'[last] = r
      /\ \A k \in 1 .. Len(sent) : sent'[k] = sent[k]
      /\ End(sent', Len(sent)) = End(sent, Len(sent))
      /\ Owed(sent', Len(sent)) = Owed(sent, Len(sent))
      /\ Due(sent', Len(sent)) = Due(sent, Len(sent))
      /\ End(sent', last) = r.to
      /\ Owed(sent', last) = r.owed /\ Due(sent', last) = r.due
  BY <1>1, Appended
<1>5. /\ enc'.owed = r.owed /\ enc'.due = r.due /\ enc'.back = back + n
      /\ enc' \in [owed : 0 .. 3, due : {0} \cup Dues, back : Nat, failed : BOOLEAN]
  <2>1. r.owed \in 0 .. 3 /\ r.due \in {0} \cup Dues /\ r.to = back + n /\ r.to \in Nat
    BY <1>1, <1>2 DEF Record
  <2> QED BY <2>1
<1>6. /\ enc'.back = End(sent', Len(sent')) /\ enc'.owed = Owed(sent', Len(sent'))
      /\ enc'.due = Due(sent', Len(sent'))
  BY <1>2, <1>4, <1>5
<1> HIDE DEF new, cells, img, back
<1>7. \A k \in 1 .. Len(sent) : Filed(sent', new, back + n, k)
  <2>1. \A i \in 0 .. back - 1 : new[i] = img[i]
    BY <1>1, <1>2, <1>3
  <2>2. \A k \in 1 .. Len(sent) : Filed(sent, img, back, k)
    BY DEF WriterInv, img, back
  <2>3. back + n \in Nat /\ back <= back + n
    BY <1>1
  <2> QED BY <1>1, <1>4, <2>1, <2>2, <2>3, Refiled
<1>8. Filed(sent', new, back + n, last)
  <2>1. /\ last - 1 = Len(sent) /\ r.from = back /\ r.to = back + n
        /\ back = End(sent, Len(sent))
        /\ Follows(Owed(sent, Len(sent)), Due(sent, Len(sent)), r)
    BY <1>1, <1>2 DEF WriterInv, back
  <2>2. Lies(new, back, back + n, r.piece)
    <3>1. 0 .. (back + n) - back - 1 = 0 .. n - 1
      BY <1>1
    <3>2. ASSUME NEW i \in 0 .. n - 1
          PROVE  cells[i] = new[back + i]
      <4>1. /\ back + i \in back .. back + n - 1 /\ back + i \in 0 .. sect'.size - 1
            /\ (back + i) - back = i
        BY <1>1, <1>3
      <4> QED BY <1>2, <4>1
    <3> QED BY <3>1, <3>2 DEF Lies, cells
  <2> QED BY <1>1, <1>4, <2>1, <2>2 DEF Filed
<1>9. \A k \in 1 .. Len(sent') : Filed(sent', new, back + n, k)
  BY <1>1, <1>4, <1>7, <1>8
<1>10. NoStrayJunk(sent', new, sect'.size)
  <2> SUFFICES ASSUME NEW i \in 0 .. sect'.size - 1, new[i] = Junk
               PROVE  \E k \in DOMAIN sent' :
                        /\ DOMAIN sent'[k].piece.arg = 0 .. WordSize - 1
                        /\ i \in sent'[k].from + 1 .. sent'[k].from + WordSize - 1
    BY DEF NoStrayJunk
  <2>1. CASE i \in back .. back + n - 1
    <3>1. i - back \in DOMAIN cells /\ cells[i - back] = Junk
      BY <1>1, <1>2, <2>1 DEF cells
    <3>2. Proper(r.piece)
      BY FollowsFacts
    <3>3. DOMAIN r.piece.arg = 0 .. WordSize - 1 /\ i - back \in 1 .. WordSize - 1
      BY <3>1, <3>2 DEF Proper, cells
    <3>4. last \in DOMAIN sent'
      <4>1. DOMAIN sent' = 1 .. Len(sent')
        BY <1>4
      <4> QED BY <1>1, <1>4, <4>1
    <3>5. i \in back + 1 .. back + WordSize - 1
      BY <1>1, <2>1, <3>3
    <3> QED BY <1>4, <3>3, <3>4, <3>5 DEF back
  <2>2. CASE i \notin back .. back + n - 1
    <3>1. i \in 0 .. sect.size - 1 /\ img[i] = Junk
      BY <1>1, <1>2, <1>3, <2>2
    <3>2. PICK k \in DOMAIN sent :
            /\ DOMAIN sent[k].piece.arg = 0 .. WordSize - 1
            /\ i \in sent[k].from + 1 .. sent[k].from + WordSize - 1
      BY <3>1 DEF WriterInv, NoStrayJunk, img
    <3>3. k \in DOMAIN sent' /\ sent'[k] = sent[k]
      BY <1>1, <1>4
    <3> QED BY <3>2, <3>3
  <2> QED BY <2>1, <2>2
<1>11. Behind(new, sect'.size, enc'.back, enc'.owed, enc'.due)
  BY <1>3, <1>5 DEF Behind
<1> QED BY <1>1, <1>2, <1>3, <1>4, <1>5, <1>6, <1>9, <1>10, <1>11 DEF WriterInv, new

(* A call that failed has changed nothing, or left a header behind the     *)
(* last piece.                                                             *)
LEMMA CallFailed ==
  ASSUME WriterInv, ~enc.failed,
         \/ sect' = sect /\ heap' = heap
         \/ enc.owed > 0 /\ enc.due = 0 /\ Begun(sect, heap, sect', heap'),
         enc' = [enc EXCEPT !.failed = TRUE], sent' = sent
  PROVE  WriterInv'
<1>1. /\ enc' \in [owed : 0 .. 3, due : {0} \cup Dues, back : Nat, failed : BOOLEAN]
      /\ enc'.owed = enc.owed /\ enc'.due = enc.due /\ enc'.back = enc.back
      /\ enc'.failed
  BY DEF WriterInv
<1>2. CASE sect' = sect /\ heap' = heap
  BY <1>1, <1>2 DEF WriterInv
<1>3. CASE enc.owed > 0 /\ enc.due = 0 /\ Begun(sect, heap, sect', heap')
  <2> DEFINE back == enc.back
             img == heap[sect.data]
             new == heap'[sect'.data]
  <2>1. PICK head \in [0 .. HeaderSize - 1 -> Byte] :
          head[0] = TYPEOP_OFF /\ Wrote(sect, heap, HeaderSize, head, sect', heap')
    BY <1>3 DEF Begun
  <2>2. /\ back \in Nat /\ sect.size \in Nat /\ back <= sect.size
        /\ sect.windex = back /\ Len(sent) \in Nat /\ sent \in Seq(Record)
    BY IndexFacts DEF WriterInv
  <2>3. /\ Owned(sect', heap')
        /\ sect'.size = IF back + HeaderSize > sect.size
                          THEN back + HeaderSize ELSE sect.size
        /\ \A i \in 0 .. sect'.size - 1 :
             new[i] = IF i \in back .. back + HeaderSize - 1
                        THEN head[i - back] ELSE img[i]
    BY <2>1, <2>2 DEF Wrote
  <2> HIDE DEF new, img
  <2>4. sect'.size = back + HeaderSize
    <3>1. sect.size = back \/ sect.size = back + HeaderSize
      BY DEF WriterInv, Behind
    <3> HIDE DEF back
    <3> QED BY <2>2, <2>3, <3>1
  <2>5. new[back] = TYPEOP_OFF
    <3>1. /\ back \in 0 .. sect'.size - 1 /\ back \in back .. back + HeaderSize - 1
          /\ back - back = 0
      BY <2>2, <2>4
    <3> QED BY <2>1, <2>3, <3>1
  <2>6. \A i \in 0 .. back - 1 : new[i] = img[i]
    BY <2>2, <2>3, <2>4
  <2>7. \A k \in 1 .. Len(sent) : Filed(sent, new, back, k)
    <3>1. \A k \in 1 .. Len(sent) : Filed(sent, img, back, k)
      BY DEF WriterInv, img
    <3> HIDE DEF back
    <3>2. back <= back /\ \A k \in 1 .. Len(sent) : sent[k] = sent[k]
      BY <2>2
    <3> QED BY <2>2, <2>6, <3>1, <3>2, Refiled
  <2>8. NoStrayJunk(sent, new, sect'.size)
    <3> SUFFICES ASSUME NEW i \in 0 .. sect'.size - 1, new[i] = Junk
                 PROVE  i \in 0 .. sect.size - 1 /\ img[i] = Junk
      BY DEF NoStrayJunk, WriterInv, img
    <3>1. i \notin back .. back + HeaderSize - 1
      <4>1. ASSUME i \in back .. back + HeaderSize - 1
            PROVE  FALSE
        <5>1. i - back \in 0 .. HeaderSize - 1 /\ new[i] = head[i - back]
          BY <2>2, <2>3, <4>1, SMTT(20)
        <5> QED BY <2>1, <5>1
      <4> QED BY <4>1
    <3> HIDE DEF back
    <3>2. i < back
      BY <2>2, <2>4, <3>1
    <3> QED BY <2>2, <2>3, <3>1, <3>2
  <2>9. Behind(new, sect'.size, back, enc.owed, enc.due)
    BY <1>3, <2>4, <2>5 DEF Behind
  <2>10. back <= sect'.size
    BY <2>2, <2>4
  <2>11. /\ enc'.back = End(sent', Len(sent')) /\ enc'.owed = Owed(sent', Len(sent'))
         /\ enc'.due = Due(sent', Len(sent'))
    BY <1>1 DEF WriterInv
  <2> QED BY <1>1, <2>2, <2>3, <2>7, <2>8, <2>9, <2>10, <2>11 DEF WriterInv, new
<1> QED BY <1>2, <1>3

(* Writing does not move what the reader has. *)
LEMMA ReaderKept ==
  ASSUME IInv, UNCHANGED reader,
         sent' = sent \/ \E r \in Record : sent' = Append(sent, r)
  PROVE  ReaderInv'
<1>1. dec' = dec /\ out' = out /\ got' = got
  BY DEF reader
<1>2. CASE sent' = sent
  BY <1>1, <1>2 DEF IInv, ReaderInv
<1>3. CASE \E r \in Record : sent' = Append(sent, r)
  <2>1. PICK r \in Record : sent' = Append(sent, r)
    BY <1>3
  <2>2. /\ sent \in Seq(Record) /\ Len(sent) \in Nat /\ Len(got) \in Nat
        /\ Len(got) <= Len(sent)
    BY DEF IInv, WriterInv, ReaderInv
  <2>3. /\ Len(sent') = Len(sent) + 1
        /\ \A k \in 1 .. Len(sent) : sent'[k] = sent[k]
        /\ \A k \in 0 .. Len(sent) :
             /\ End(sent', k) = End(sent, k) /\ Owed(sent', k) = Owed(sent, k)
             /\ Due(sent', k) = Due(sent, k)
    BY <2>1, <2>2, Appended
  <2>4. Len(got) \in 0 .. Len(sent) /\ Len(got) <= Len(sent')
    BY <2>2, <2>3
  <2>5. \A k \in 1 .. Len(got) : got[k] = sent'[k].piece
    <3>1. \A k \in 1 .. Len(got) : k \in 1 .. Len(sent) /\ got[k] = sent[k].piece
      BY <2>2 DEF IInv, ReaderInv
    <3> QED BY <2>3, <3>1
  <2> QED BY <1>1, <2>3, <2>4, <2>5 DEF IInv, ReaderInv
<1> QED BY <1>2, <1>3

(* A call of an encoder that writes what the grammar allows. *)
LEMMA CalledKeeps ==
  ASSUME IInv, NEW outcomes, NEW piece, NEW owed, NEW due,
         Called(outcomes, piece, owed, due),
         \A r : r.piece = piece /\ r.owed = owed /\ r.due = due =>
                  Follows(enc.owed, enc.due, r),
         NEW n \in 1 .. HeaderSize + OffsetSize,
         DOMAIN Layout(piece) = 0 .. n - 1,
         \/ Writes(outcomes, sect, heap, n, Layout(piece))
         \/ /\ enc.owed > 0 /\ enc.due = 0
            /\ WritesInTwo(outcomes, sect, heap, n, Layout(piece))
  PROVE  IInv'
<1>1. PICK o \in outcomes :
        /\ sect' = o.sect /\ heap' = o.heap
        /\ IF o.err = "GOOD"
             THEN /\ enc' = [owed |-> owed, due |-> due,
                             back |-> o.sect.windex, failed |-> FALSE]
                  /\ sent' = Append(sent,
                       [piece |-> piece, from |-> enc.back,
                        to |-> o.sect.windex, owed |-> owed, due |-> due])
             ELSE enc' = [enc EXCEPT !.failed = TRUE] /\ sent' = sent
  BY Zenon DEF Called
<1>2. ~enc.failed /\ UNCHANGED reader /\ WriterInv
  BY Zenon DEF Called, IInv
<1>3. \/ o.err = "GOOD" /\ Wrote(sect, heap, n, Layout(piece), sect', heap')
      \/ o.err # "GOOD" /\ sect' = sect /\ heap' = heap
      \/ /\ o.err # "GOOD" /\ enc.owed > 0 /\ enc.due = 0
         /\ Begun(sect, heap, sect', heap')
  BY <1>1, Zenon DEF Writes, WritesInTwo
<1>4. CASE o.err = "GOOD"
  <2> DEFINE r == [piece |-> piece, from |-> enc.back,
                   to |-> o.sect.windex, owed |-> owed, due |-> due]
  <2>1. /\ r.piece = piece /\ r.owed = owed /\ r.due = due
        /\ r.from = enc.back /\ r.to = sect'.windex
    BY <1>1
  <2>2. Follows(enc.owed, enc.due, r)
    BY <2>1
  <2>3. /\ sent' = Append(sent, r)
        /\ enc' = [owed |-> r.owed, due |-> r.due, back |-> r.to, failed |-> FALSE]
    BY <1>1, <1>4
  <2>4. r \in Record
    <3>1. piece \in Piece /\ owed \in 0 .. 3 /\ due \in {0} \cup Dues
      BY <2>1, <2>2, FollowsFacts DEF Proper
    <3>2. enc.back \in Size
      BY <1>2, IndexFacts DEF Size
    <3>3. o.sect.windex \in Size
      BY <1>1, <1>3, <1>4 DEF Wrote, Owned, Section
    <3> QED BY <3>1, <3>2, <3>3 DEF Record
  <2> HIDE DEF r
  <2>5. Wrote(sect, heap, n, Layout(r.piece), sect', heap')
        /\ DOMAIN Layout(r.piece) = 0 .. n - 1
    BY <1>3, <1>4, <2>1
  <2>6. WriterInv'
    BY <1>2, <2>1, <2>2, <2>3, <2>4, <2>5, PieceAdded
  <2>7. ReaderInv'
    BY <1>2, <2>3, <2>4, ReaderKept
  <2> QED BY <2>6, <2>7 DEF IInv
<1>5. CASE o.err # "GOOD"
  <2>1. WriterInv'
    BY <1>1, <1>2, <1>3, <1>5, CallFailed
  <2>2. ReaderInv'
    BY <1>1, <1>2, <1>5, ReaderKept
  <2> QED BY <2>1, <2>2 DEF IInv
<1> QED BY <1>4, <1>5

LEMMA Inputs ==
  /\ \A x : x \in Ops \/ x \in Flags \/ x \in Types \/ x \in ValueTypes \/ x \in Modifiers
              => x \in 0 .. 255
  /\ \A w \in Words : w \in [0 .. WordSize - 1 -> Byte]
  /\ \A o \in Offsets : o \in [0 .. OffsetSize - 1 -> Byte]
BY InstrAssumption

LEMMA EncodeInstrKeeps ==
  ASSUME IInv, Careful, NEW op \in Ops, EncodeInstr(op)
  PROVE  IInv'
<1> DEFINE fmt == coil_instrfmt(op)
<1>1. op \in 0 .. 255 /\ Owned(sect, heap)
  BY Inputs DEF IInv, WriterInv
<1>2. /\ enc.owed = 0 /\ enc.due = 0 /\ fmt \in BasicFormat
      /\ Called(coil_instr_encode(sect, heap, op), InstrPiece(op, NoCells),
                Operands(fmt), 0)
  BY Zenon DEF EncodeInstr, AtInstr, Careful
<1>3. \A r : r.piece = InstrPiece(op, NoCells) /\ r.owed = Operands(fmt) /\ r.due = 0
               => Follows(enc.owed, enc.due, r)
  BY <1>1, <1>2, Zenon DEF Follows, CarefulInstr
<1>4. Layout(InstrPiece(op, NoCells)) = InstrCells(op)
  BY LayoutInstr
<1>5. DOMAIN Layout(InstrPiece(op, NoCells)) = 0 .. 1 - 1
  BY <1>4 DEF InstrCells
<1>6. Writes(coil_instr_encode(sect, heap, op), sect, heap, 1,
             Layout(InstrPiece(op, NoCells)))
  BY <1>1, <1>4, EncodesInstr
<1> HIDE DEF fmt
<1> QED BY <1>2, <1>3, <1>5, <1>6, 1 \in 1 .. HeaderSize + OffsetSize, CalledKeeps

LEMMA EncodeInstrFlagKeeps ==
  ASSUME IInv, NEW op \in Ops, NEW flag \in Flags, EncodeInstrFlag(op, flag)
  PROVE  IInv'
<1> DEFINE fmt == coil_instrfmt(op)
           piece == InstrPiece(op, InstrCells(flag))
<1>1. op \in 0 .. 255 /\ flag \in 0 .. 255 /\ Owned(sect, heap)
  BY Inputs DEF IInv, WriterInv
<1>2. /\ enc.owed = 0 /\ enc.due = 0 /\ fmt \in FlagFormat
      /\ Called(coil_instrflag_encode(sect, heap, op, flag), piece, Operands(fmt), 0)
  BY Zenon DEF EncodeInstrFlag, AtInstr
<1>3. \A r : r.piece = piece /\ r.owed = Operands(fmt) /\ r.due = 0
               => Follows(enc.owed, enc.due, r)
  BY <1>1, <1>2, Zenon DEF Follows, CarefulInstr
<1>4. Layout(piece) = FlagCells(op, flag)
  BY LayoutFlag
<1> HIDE DEF fmt, piece
<1>5. DOMAIN Layout(piece) = 0 .. FlagSize - 1
  BY <1>4 DEF FlagCells
<1>6. Writes(coil_instrflag_encode(sect, heap, op, flag), sect, heap, FlagSize, Layout(piece))
  BY <1>1, <1>4, EncodesFlag
<1> QED BY <1>2, <1>3, <1>5, <1>6, FlagSize \in 1 .. HeaderSize + OffsetSize, CalledKeeps

LEMMA EncodeInstrValKeeps ==
  ASSUME IInv, NEW op \in Ops, NEW value \in Words, EncodeInstrVal(op, value)
  PROVE  IInv'
<1> DEFINE piece == InstrPiece(op, value)
<1>1. /\ op \in 0 .. 255 /\ Owned(sect, heap)
      /\ value \in [0 .. WordSize - 1 -> Byte]
  BY Inputs DEF IInv, WriterInv
<1>2. /\ enc.owed = 0 /\ enc.due = 0 /\ coil_instrfmt(op) = "VALUE"
      /\ Called(coil_instrval_encode(sect, heap, op, value), piece, Operands("VALUE"), 0)
  BY Zenon DEF EncodeInstrVal, AtInstr
<1>3. \A r : r.piece = piece /\ r.owed = Operands("VALUE") /\ r.due = 0
               => Follows(enc.owed, enc.due, r)
  BY <1>1, <1>2, Zenon DEF Follows, CarefulInstr
<1>4. Layout(piece) = ValueCells(op, value)
  BY <1>1, LayoutValue
<1> HIDE DEF piece
<1>5. DOMAIN Layout(piece) = 0 .. ValueSize - 1
  BY <1>4 DEF ValueCells
<1>6. Writes(coil_instrval_encode(sect, heap, op, value), sect, heap, ValueSize, Layout(piece))
  <2>1. Writes(coil_instrval_encode(sect, heap, op, value), sect, heap, ValueSize,
               ValueCells(op, value))
    BY <1>1, EncodesValue
  <2> QED BY <1>4, <2>1
<1> QED BY <1>2, <1>3, <1>5, <1>6, ValueSize \in 1 .. HeaderSize + OffsetSize, CalledKeeps

(* What an operand may say, as the grammar has it. *)
LEMMA BareFits ==
  ASSUME NEW type \in 0 .. 255, type # TYPEOP_OFF,
         NEW value_type \in 0 .. 255, value_type \notin WideTypes,
         NEW modifier \in 0 .. 255,
         NEW r, r.piece = OperandPiece(HeaderCells(type, value_type, modifier), ZeroOffset),
         r.owed = enc.owed - 1, r.due = NamedSize(value_type)
  PROVE  CarefulOperand(r, enc.owed)
<1> DEFINE Fits(t, v, m) ==
             /\ r.owed = enc.owed - 1 /\ r.due = NamedSize(v)
             /\ \/ /\ t # TYPEOP_OFF
                   /\ r.piece = OperandPiece(HeaderCells(t, v, m), ZeroOffset)
                \/ /\ t = TYPEOP_OFF
                   /\ \E o \in [0 .. OffsetSize - 1 -> Byte] :
                        r.piece = OperandPiece(HeaderCells(t, v, m), o)
<1>1. Fits(type, value_type, modifier)
  OBVIOUS
<1>2. type \in 0 .. 255 /\ value_type \in 0 .. 255 \ WideTypes
  OBVIOUS
<1> HIDE DEF Fits
<1>3. \E t \in 0 .. 255, v \in 0 .. 255 \ WideTypes, m \in 0 .. 255 : Fits(t, v, m)
  BY <1>1, <1>2
<1> QED BY <1>3 DEF CarefulOperand, Fits

LEMMA OffsetFits ==
  ASSUME NEW offset \in [0 .. OffsetSize - 1 -> Byte],
         NEW value_type \in 0 .. 255, value_type \notin WideTypes,
         NEW modifier \in 0 .. 255,
         NEW r, r.piece = OperandPiece(HeaderCells(TYPEOP_OFF, value_type, modifier), offset),
         r.owed = enc.owed - 1, r.due = NamedSize(value_type)
  PROVE  CarefulOperand(r, enc.owed)
<1> DEFINE Fits(t, v, m) ==
             /\ r.owed = enc.owed - 1 /\ r.due = NamedSize(v)
             /\ \/ /\ t # TYPEOP_OFF
                   /\ r.piece = OperandPiece(HeaderCells(t, v, m), ZeroOffset)
                \/ /\ t = TYPEOP_OFF
                   /\ \E o \in [0 .. OffsetSize - 1 -> Byte] :
                        r.piece = OperandPiece(HeaderCells(t, v, m), o)
<1>1. Fits(TYPEOP_OFF, value_type, modifier)
  OBVIOUS
<1>2. TYPEOP_OFF \in 0 .. 255 /\ value_type \in 0 .. 255 \ WideTypes
  OBVIOUS
<1> HIDE DEF Fits
<1>3. \E t \in 0 .. 255, v \in 0 .. 255 \ WideTypes, m \in 0 .. 255 : Fits(t, v, m)
  BY <1>1, <1>2
<1> QED BY <1>3 DEF CarefulOperand, Fits

LEMMA EncodeOperandKeeps ==
  ASSUME IInv, Careful, NEW type \in Types, NEW value_type \in ValueTypes,
         NEW modifier \in Modifiers, EncodeOperand(type, value_type, modifier)
  PROVE  IInv'
<1> DEFINE c == HeaderCells(type, value_type, modifier)
           piece == OperandPiece(c, ZeroOffset)
<1>1. /\ type \in 0 .. 255 /\ value_type \in 0 .. 255 /\ modifier \in 0 .. 255
      /\ Owned(sect, heap)
  BY Inputs DEF IInv, WriterInv
<1>2. /\ enc.owed > 0 /\ enc.due = 0 /\ value_type \notin WideTypes /\ type # TYPEOP_OFF
      /\ Called(coil_operand_encode(sect, heap, type, value_type, modifier), piece,
                enc.owed - 1, NamedSize(value_type))
  BY Zenon DEF EncodeOperand, AtOperand, Careful, Sized
<1>3. enc.owed \in 1 .. 3
  BY <1>2, IndexFacts DEF IInv
<1>4. \A r : r.piece = piece /\ r.owed = enc.owed - 1 /\ r.due = NamedSize(value_type)
               => Follows(enc.owed, enc.due, r)
  BY <1>1, <1>2, <1>3, BareFits DEF Follows
<1>5. c[0] = type /\ DOMAIN c = 0 .. HeaderSize - 1
  BY DEF HeaderCells
<1>6. Writes(coil_operand_encode(sect, heap, type, value_type, modifier), sect, heap,
             HeaderSize, c)
  BY <1>1, EncodesOperand
<1> HIDE DEF c
<1>7. Layout(piece) = c
  BY <1>2, <1>5, LayoutOperand
<1> HIDE DEF piece
<1> QED BY <1>2, <1>4, <1>5, <1>6, <1>7, HeaderSize \in 1 .. HeaderSize + OffsetSize,
           CalledKeeps

LEMMA EncodeOperandOffKeeps ==
  ASSUME IInv, Careful, NEW type \in Types, NEW value_type \in ValueTypes,
         NEW modifier \in Modifiers, NEW offset \in Offsets,
         EncodeOperandOff(type, value_type, modifier, offset)
  PROVE  IInv'
<1> DEFINE c == HeaderCells(type, value_type, modifier)
           piece == OperandPiece(c, offset)
           outcomes == coil_operand_encode_off(sect, heap, type, value_type, modifier, offset)
           n == HeaderSize + OffsetSize
<1>1. /\ type \in 0 .. 255 /\ value_type \in 0 .. 255 /\ modifier \in 0 .. 255
      /\ offset \in [0 .. OffsetSize - 1 -> Byte] /\ Owned(sect, heap)
  BY Inputs DEF IInv, WriterInv
<1>2. /\ enc.owed > 0 /\ enc.due = 0 /\ value_type \notin WideTypes /\ type = TYPEOP_OFF
      /\ Called(outcomes, piece, enc.owed - 1, NamedSize(value_type))
  BY Zenon DEF EncodeOperandOff, AtOperand, Careful, Sized
<1>3. enc.owed \in 1 .. 3
  BY <1>2, IndexFacts DEF IInv
<1>4. \A r : r.piece = piece /\ r.owed = enc.owed - 1 /\ r.due = NamedSize(value_type)
               => Follows(enc.owed, enc.due, r)
  <2> SUFFICES ASSUME NEW r, r.piece = piece, r.owed = enc.owed - 1,
                      r.due = NamedSize(value_type)
               PROVE  Follows(enc.owed, enc.due, r)
    OBVIOUS
  <2>1. r.piece = OperandPiece(HeaderCells(type, value_type, modifier), offset)
    OBVIOUS
  <2> HIDE DEF c, piece, outcomes, n
  <2>2. /\ type \in 0 .. 255 /\ value_type \in 0 .. 255 /\ modifier \in 0 .. 255
        /\ value_type \notin WideTypes /\ enc.due = 0
        /\ type = TYPEOP_OFF /\ offset \in [0 .. OffsetSize - 1 -> Byte]
    BY <1>1, <1>2
  <2>3. CarefulOperand(r, enc.owed)
    BY <2>1, <2>2, OffsetFits, ZenonT(20)
  <2> QED BY <1>3, <2>2, <2>3 DEF Follows
<1>5. c[0] = type /\ DOMAIN c = 0 .. HeaderSize - 1
  BY DEF HeaderCells
<1>6. WritesInTwo(outcomes, sect, heap, n, OffsetCells(c, offset))
  BY <1>1, <1>2, EncodesOffset, ZenonT(20)
<1> HIDE DEF c, outcomes
<1>7. Layout(piece) = OffsetCells(c, offset)
  BY <1>2, <1>5, LayoutOffset, OffsetOverlay
<1>8. DOMAIN OffsetCells(c, offset) = 0 .. n - 1
  BY DEF OffsetCells
<1>9. n \in 1 .. HeaderSize + OffsetSize
  OBVIOUS
<1> HIDE DEF piece, n
<1> QED BY <1>2, <1>4, <1>6, <1>7, <1>8, <1>9, CalledKeeps

LEMMA EncodeDataKeeps ==
  ASSUME IInv, NEW word \in Words, EncodeData(word)
  PROVE  IInv'
<1> DEFINE n == enc.due
           data == Value(n, word)
           piece == DataPiece(data)
<1>1. /\ word \in [0 .. WordSize - 1 -> Byte] /\ Owned(sect, heap)
      /\ enc.owed \in 0 .. 3 /\ n \in {0} \cup Dues
  BY Inputs, IndexFacts DEF IInv, WriterInv
<1>2. /\ n > 0
      /\ Called(coil_operand_encode_data(sect, heap, data, n), piece, enc.owed, 0)
  BY Zenon DEF EncodeData
<1>3. n \in Dues
  BY <1>1, <1>2
<1>4. data \in [0 .. n - 1 -> Byte]
  <2>1. ASSUME NEW i \in 0 .. n - 1
        PROVE  word[i % WordSize] \in Byte
    <3>1. i \in Nat
      BY <1>3 DEF Dues
    <3>2. i % WordSize \in 0 .. WordSize - 1
      BY <3>1
    <3> QED BY <1>1, <3>2
  <2> QED BY <2>1 DEF Value
<1> HIDE DEF data
<1>5. \A r : r.piece = piece /\ r.owed = enc.owed /\ r.due = 0
               => Follows(enc.owed, enc.due, r)
  BY <1>1, <1>3, <1>4, Zenon DEF Follows, CarefulData
<1>6. Layout(piece) = data /\ DOMAIN data = 0 .. n - 1
  BY <1>4, LayoutData
<1>7. Writes(coil_operand_encode_data(sect, heap, data, n), sect, heap, n, Layout(piece))
  BY <1>1, <1>3, <1>4, <1>6, EncodesData
<1>8. n \in 1 .. HeaderSize + OffsetSize
  BY <1>3 DEF Dues
<1> HIDE DEF piece, n
<1> QED BY <1>2, <1>5, <1>6, <1>7, <1>8, CalledKeeps DEF n

(* Going back to where the failed call began. *)
LEMMA RewindKeeps ==
  ASSUME IInv, Rewind
  PROVE  IInv'
<1>1. /\ sect' = [sect EXCEPT !.windex = enc.back]
      /\ enc' = [enc EXCEPT !.failed = FALSE]
      /\ heap' = heap /\ sent' = sent /\ UNCHANGED reader
  BY DEF Rewind
<1>2. /\ Owned(sect, heap) /\ sect \in Section
      /\ enc \in [owed : 0 .. 3, due : {0} \cup Dues, back : Nat, failed : BOOLEAN]
  BY DEF IInv, WriterInv, Owned
<1>3. /\ enc.back \in Size /\ enc.back <= sect.size
  BY IndexFacts DEF IInv, Size
<1>4. /\ sect' \in Section
      /\ sect'.data = sect.data /\ sect'.mode = sect.mode
      /\ sect'.capacity = sect.capacity /\ sect'.size = sect.size
      /\ sect'.windex = enc.back
  BY <1>1, <1>2, <1>3 DEF Section
<1>5. /\ enc' \in [owed : 0 .. 3, due : {0} \cup Dues, back : Nat, failed : BOOLEAN]
      /\ enc'.back = enc.back /\ enc'.owed = enc.owed /\ enc'.due = enc.due
  BY <1>1, <1>2
<1>6. Owned(sect', heap')
  BY <1>1, <1>2, <1>3, <1>4 DEF Owned
<1>7. WriterInv'
  BY <1>1, <1>4, <1>5, <1>6 DEF IInv, WriterInv
<1>8. ReaderInv'
  BY <1>1, ReaderKept
<1> QED BY <1>7, <1>8 DEF IInv

(***************************************************************************)
(* The reader's steps                                                      *)
(***************************************************************************)

(* What a step of the reader has to keep, n pieces taken. *)
Standing(d, o, n) ==
  /\ d \in [pos : Nat, owed : 0 .. 3, want : {"instr", "operand", "data"}, room : Nat]
  /\ o \in Out
  /\ d.pos = End(sent, n) /\ d.owed = Owed(sent, n)
  /\ d.want = "instr" => d.owed = 0 /\ Due(sent, n) = 0
  /\ d.want = "operand" => d.owed > 0 /\ Due(sent, n) = 0
  /\ d.want = "data" => coil_value_type_size(o.header[1]) = Due(sent, n)

(* Between two pieces, with nothing due, the next thing is an operand that *)
(* is owed or an instruction.                                              *)
LEMMA NothingDue ==
  ASSUME dec \in [pos : Nat, owed : 0 .. 3, want : {"instr", "operand", "data"}, room : Nat],
         NEW n, NEW o \in Out, NEW pos \in Nat, NEW owed \in 0 .. 3,
         pos = End(sent, n), owed = Owed(sent, n), Due(sent, n) = 0,
         NEW d, d = [dec EXCEPT !.pos = pos, !.owed = owed, !.want = After(owed)]
  PROVE  Standing(d, o, n)
<1>1. /\ After(owed) \in {"instr", "operand"}
      /\ After(owed) = "instr" => owed = 0
      /\ After(owed) = "operand" => owed > 0
  BY DEF After
<1>2. /\ d \in [pos : Nat, owed : 0 .. 3, want : {"instr", "operand", "data"}, room : Nat]
      /\ d.pos = pos /\ d.owed = owed /\ d.want = After(owed)
  BY <1>1
<1> QED BY <1>1, <1>2 DEF Standing

LEMMA ReaderStays ==
  ASSUME IInv, UNCHANGED writer, got' = got, Standing(dec', out', Len(got))
  PROVE  IInv'
<1>1. sect' = sect /\ heap' = heap /\ enc' = enc /\ sent' = sent
  BY DEF writer
<1>2. WriterInv'
  BY <1>1 DEF IInv, WriterInv
<1>3. ReaderInv'
  BY <1>1 DEF IInv, ReaderInv, Standing
<1> QED BY <1>2, <1>3 DEF IInv

LEMMA ReaderTakes ==
  ASSUME IInv, UNCHANGED writer, Len(got) < Len(sent),
         got' = Append(got, sent[Len(got) + 1].piece),
         Standing(dec', out', Len(got) + 1)
  PROVE  IInv'
<1>1. sect' = sect /\ heap' = heap /\ enc' = enc /\ sent' = sent
  BY DEF writer
<1>2. WriterInv'
  BY <1>1 DEF IInv, WriterInv
<1>3. /\ got \in Seq(Piece) /\ Len(got) \in Nat /\ Len(sent) \in Nat
      /\ \A k \in 1 .. Len(got) : got[k] = sent[k].piece
  BY IndexFacts DEF IInv, ReaderInv
<1>4. sent[Len(got) + 1].piece \in Piece
  <2>1. sent[Len(got) + 1] \in Record
    BY <1>3, IndexFacts DEF IInv
  <2> QED BY <2>1 DEF Record
<1>5. /\ got' \in Seq(Piece) /\ Len(got') = Len(got) + 1
      /\ \A k \in 1 .. Len(got') : got'[k] = sent[k].piece
  BY <1>3, <1>4
<1>6. ReaderInv'
  BY <1>1, <1>3, <1>5 DEF ReaderInv, Standing
<1> QED BY <1>2, <1>6 DEF IInv

(* The piece that comes next, if the reader has not taken everything. *)
LEMMA NextPiece ==
  ASSUME IInv, Len(got) < Len(sent), NEW r, r = sent[Len(got) + 1]
  PROVE  /\ Len(got) \in Nat /\ Len(got) + 1 # 0
         /\ r.to \in Nat /\ r.to <= sect.size /\ r.owed \in 0 .. 3
         /\ Follows(dec.owed, Due(sent, Len(got)), r)
         /\ Lies(Bytes, dec.pos, r.to, r.piece)
         /\ End(sent, Len(got) + 1) = r.to /\ Owed(sent, Len(got) + 1) = r.owed
         /\ Due(sent, Len(got) + 1) = r.due
<1> DEFINE n == Len(got)
<1>1. /\ n \in Nat /\ Len(sent) \in Nat /\ n + 1 \in 1 .. Len(sent) /\ n + 1 # 0
      /\ (n + 1) - 1 = n
      /\ dec.pos = End(sent, n) /\ dec.owed = Owed(sent, n)
      /\ enc.back \in Nat /\ sect.size \in Nat /\ enc.back <= sect.size
  BY IndexFacts DEF IInv, ReaderInv
<1>2. r \in Record
  BY <1>1, IndexFacts DEF IInv
<1>3. Filed(sent, Bytes, enc.back, n + 1)
  BY <1>1 DEF IInv, WriterInv, Bytes
<1> HIDE DEF n
<1>4. /\ r.from = End(sent, n) /\ r.to <= enc.back
      /\ Follows(Owed(sent, n), Due(sent, n), r)
      /\ Lies(Bytes, r.from, r.to, r.piece)
  BY <1>1, <1>3 DEF Filed, n
<1>5. r.to \in Nat /\ r.owed \in 0 .. 3
  BY <1>2 DEF Record, Size
<1>6. /\ End(sent, n + 1) = r.to /\ Owed(sent, n + 1) = r.owed
      /\ Due(sent, n + 1) = r.due
  BY <1>1 DEF End, Owed, Due, n
<1> QED BY <1>1, <1>4, <1>5, <1>6 DEF n

LEMMA CaughtUp ==
  ASSUME IInv, ~(Len(got) < Len(sent))
  PROVE  /\ dec.pos = enc.back /\ dec.owed = enc.owed /\ Due(sent, Len(got)) = enc.due
         /\ \/ sect.size = dec.pos
            \/ /\ sect.size = dec.pos + HeaderSize
               /\ Bytes[dec.pos] = TYPEOP_OFF
               /\ dec.owed > 0 /\ Due(sent, Len(got)) = 0
<1>1. Len(got) = Len(sent)
  BY DEF IInv, ReaderInv, WriterInv
<1> QED BY <1>1 DEF IInv, ReaderInv, WriterInv, Behind, Bytes

LEMMA ReaderFacts ==
  ASSUME IInv
  PROVE  /\ dec \in [pos : Nat, owed : 0 .. 3, want : {"instr", "operand", "data"}, room : Nat]
         /\ out \in Out /\ Readable(Bytes, sect.size) /\ sect.size \in Nat
         /\ sect.size <= MaxAlloc /\ dec.pos <= sect.size
         /\ Due(sent, Len(got)) \in {0} \cup Dues
         /\ Standing(dec, out, Len(got))
<1>1. Standing(dec, out, Len(got))
  BY DEF IInv, ReaderInv, Standing
<1>2. /\ Readable(Bytes, sect.size) /\ sect.size \in Nat /\ sect.size <= MaxAlloc
      /\ enc.back \in Nat /\ enc.back <= sect.size
      /\ Len(sent) \in Nat /\ Len(got) \in Nat
      /\ \A k \in 1 .. Len(sent) : sent[k] \in Record
  BY IndexFacts DEF IInv, ReaderInv, Bytes
<1>3. /\ End(sent, Len(got)) <= enc.back
      /\ Due(sent, Len(got)) \in {0} \cup Dues
  <2>1. CASE Len(got) = 0
    BY <1>2, <2>1 DEF End, Due
  <2>2. CASE Len(got) # 0
    <3>1. Len(got) \in 1 .. Len(sent)
      BY <1>2, <2>2 DEF IInv, ReaderInv
    <3>2. Filed(sent, heap[sect.data], enc.back, Len(got)) /\ sent[Len(got)] \in Record
      BY <1>2, <3>1 DEF IInv, WriterInv
    <3> QED BY <2>2, <3>2 DEF Filed, End, Due, Record
  <2> QED BY <2>1, <2>2
<1>4. End(sent, Len(got)) = dec.pos
  BY <1>1 DEF Standing
<1> QED BY <1>1, <1>2, <1>3, <1>4 DEF Standing

LEMMA DecodeInstrKeeps ==
  ASSUME IInv, DecodeInstr
  PROVE  IInv'
<1> DEFINE d == coil_instr_decode(Bytes, sect.size, dec.pos, out)
           n == Len(got)
<1>1. /\ dec.want = "instr" /\ UNCHANGED writer /\ out' = d.out
      /\ IF d.err = "GOOD"
           THEN /\ got' = Append(got, ReadInstr(d.out))
                /\ dec' = [dec EXCEPT !.pos = d.pos,
                                      !.owed = Operands(d.out.fmt),
                                      !.want = After(Operands(d.out.fmt))]
           ELSE dec' = dec /\ got' = got
  BY Zenon DEF DecodeInstr
<1>2. /\ dec \in [pos : Nat, owed : 0 .. 3, want : {"instr", "operand", "data"}, room : Nat]
      /\ out \in Out /\ Readable(Bytes, sect.size) /\ sect.size \in Nat
      /\ Standing(dec, out, n)
  BY ReaderFacts
<1>3. dec.owed = 0 /\ Due(sent, n) = 0
  BY <1>1, <1>2 DEF Standing
<1> HIDE DEF d
<1>4. CASE n < Len(sent)
  <2> DEFINE r == sent[n + 1]
  <2>1. /\ r.to \in Nat /\ r.to <= sect.size /\ r.owed \in 0 .. 3
        /\ Follows(0, 0, r)
        /\ Lies(Bytes, dec.pos, r.to, r.piece)
        /\ End(sent, n + 1) = r.to /\ Owed(sent, n + 1) = r.owed
        /\ Due(sent, n + 1) = r.due
    BY <1>3, <1>4, NextPiece
  <2> HIDE DEF r
  <2>2. CarefulInstr(r)
    BY <2>1 DEF Follows, Dues
  <2>3. r.due = 0
    BY <2>2, ProperInstr
  <2>4. /\ d.err = "GOOD" /\ d.pos = r.to /\ d.out \in Out
        /\ ReadInstr(d.out) = r.piece /\ Operands(d.out.fmt) = r.owed
    BY <1>2, <2>1, <2>2, DecodesInstr DEF d
  <2>5. /\ got' = Append(got, r.piece)
        /\ dec' = [dec EXCEPT !.pos = r.to, !.owed = r.owed, !.want = After(r.owed)]
    BY <1>1, <2>4
  <2> HIDE DEF n
  <2>6. Standing(dec', out', n + 1)
    <3>1. out' \in Out
      BY <1>1, <2>4
    <3> QED BY <1>2, <2>1, <2>3, <2>5, <3>1, NothingDue
  <2> QED BY <1>1, <1>4, <2>5, <2>6, ReaderTakes DEF r, n
<1>5. CASE ~(n < Len(sent))
  <2>1. sect.size = dec.pos
    BY <1>3, <1>5, CaughtUp
  <2>2. d.err # "GOOD" /\ d.out = out
    BY <1>2, <2>1, RefusesInstr DEF d
  <2>3. got' = got /\ dec' = dec /\ out' = out
    BY <1>1, <2>2
  <2> QED BY <1>1, <1>2, <2>3, ReaderStays
<1> QED BY <1>4, <1>5

LEMMA DecodeOperandKeeps ==
  ASSUME IInv, DecodeOperand
  PROVE  IInv'
<1> DEFINE d == coil_operand_decode(Bytes, sect.size, dec.pos, out)
           n == Len(got)
<1>1. /\ dec.want = "operand" /\ UNCHANGED writer /\ out' = d.out
      /\ IF d.err = "GOOD"
           THEN /\ got' = Append(got, OperandPiece(d.out.header, d.out.offset))
                /\ dec' = [dec EXCEPT !.pos = d.pos, !.owed = @ - 1, !.want = "data"]
           ELSE dec' = dec /\ got' = got
  BY Zenon DEF DecodeOperand
<1>2. /\ dec \in [pos : Nat, owed : 0 .. 3, want : {"instr", "operand", "data"}, room : Nat]
      /\ out \in Out /\ Readable(Bytes, sect.size)
      /\ Standing(dec, out, n)
  BY ReaderFacts
<1>3. dec.owed > 0 /\ Due(sent, n) = 0
  BY <1>1, <1>2 DEF Standing
<1> HIDE DEF d
<1>4. CASE n < Len(sent)
  <2> DEFINE r == sent[n + 1]
  <2>1. /\ r.to \in Nat /\ r.to <= sect.size /\ r.owed \in 0 .. 3
        /\ Follows(dec.owed, 0, r)
        /\ Lies(Bytes, dec.pos, r.to, r.piece)
        /\ End(sent, n + 1) = r.to /\ Owed(sent, n + 1) = r.owed
        /\ Due(sent, n + 1) = r.due
    BY <1>3, <1>4, NextPiece
  <2> HIDE DEF r
  <2>2. CarefulOperand(r, dec.owed) /\ dec.owed \in 1 .. 3
    BY <1>3, <2>1 DEF Follows, Dues
  <2>3. r.owed = dec.owed - 1
    BY <2>2 DEF CarefulOperand
  <2>4. /\ d.err = "GOOD" /\ d.pos = r.to /\ d.out \in Out
        /\ OperandPiece(d.out.header, d.out.offset) = r.piece
        /\ coil_value_type_size(d.out.header[1]) = r.due
    BY <1>2, <2>1, <2>2, DecodesOperand DEF d
  <2>5. /\ got' = Append(got, r.piece)
        /\ dec' = [dec EXCEPT !.pos = r.to, !.owed = r.owed, !.want = "data"]
    BY <1>1, <2>3, <2>4
  <2>6. Standing(dec', out', n + 1)
    BY <1>1, <1>2, <2>1, <2>4, <2>5 DEF Standing
  <2> QED BY <1>1, <1>4, <2>5, <2>6, ReaderTakes DEF r
<1>5. CASE ~(n < Len(sent))
  <2>1. \/ sect.size = dec.pos
        \/ sect.size = dec.pos + HeaderSize /\ Bytes[dec.pos] = TYPEOP_OFF
    BY <1>5, CaughtUp
  <2>2. d.err # "GOOD" /\ d.out \in Out
    BY <1>2, <2>1, RefusesOperand DEF d
  <2>3. got' = got /\ dec' = dec /\ out' \in Out
    BY <1>1, <2>2
  <2>4. Standing(dec', out', n)
    BY <1>1, <1>2, <2>3 DEF Standing
  <2> QED BY <1>1, <2>3, <2>4, ReaderStays
<1> QED BY <1>4, <1>5

LEMMA DecodeDataKeeps ==
  ASSUME IInv, DecodeData
  PROVE  IInv'
<1> DEFINE d == coil_operand_decode_data(Bytes, sect.size, dec.pos, dec.room, out)
           n == Len(got)
           due == Due(sent, n)
<1>1. /\ dec.want = "data" /\ UNCHANGED writer /\ out' = d.out
      /\ CASE d.err = "GOOD" ->
              /\ got' = IF d.out.valsize = 0 THEN got
                        ELSE Append(got, DataPiece(
                               [i \in 0 .. d.out.valsize - 1 |-> d.out.data[i]]))
              /\ dec' = [dec EXCEPT !.pos = d.pos, !.want = After(dec.owed)]
           [] d.err = "NOMEM" ->
              /\ dec' = [dec EXCEPT !.room = d.out.valsize]
              /\ got' = got
           [] OTHER -> dec' = dec /\ got' = got
  BY Zenon DEF DecodeData
<1>2. /\ dec \in [pos : Nat, owed : 0 .. 3, want : {"instr", "operand", "data"}, room : Nat]
      /\ out \in Out /\ Readable(Bytes, sect.size) /\ sect.size \in Nat
      /\ sect.size <= MaxAlloc /\ dec.pos <= sect.size
      /\ due \in {0} \cup Dues
      /\ Standing(dec, out, n)
  BY ReaderFacts
<1>3. coil_value_type_size(out.header[1]) = due
  BY <1>1, <1>2 DEF Standing
<1> HIDE DEF d
<1>4. CASE due = 0
  <2>1. dec.pos \in 0 .. sect.size /\ dec.room \in Nat
    BY <1>2
  <2>2. d.err = "GOOD" /\ d.pos = dec.pos /\ d.out \in Out /\ d.out.valsize = 0
    BY <1>2, <1>3, <1>4, <2>1, DecodesNothing DEF d
  <2>3. got' = got /\ dec' = [dec EXCEPT !.pos = dec.pos, !.want = After(dec.owed)]
    BY <1>1, <2>2
  <2> HIDE DEF n
  <2>4. Standing(dec', out', n)
    <3>1. out' \in Out /\ dec.pos = End(sent, n) /\ dec.owed = Owed(sent, n)
          /\ Due(sent, n) = 0 /\ dec.pos \in Nat /\ dec.owed \in 0 .. 3
      BY <1>1, <1>2, <1>4, <2>2 DEF Standing
    <3>2. dec' = [dec EXCEPT !.pos = dec.pos, !.owed = dec.owed, !.want = After(dec.owed)]
      BY <1>2, <2>3
    <3> QED BY <1>2, <3>1, <3>2, NothingDue
  <2> QED BY <1>1, <2>3, <2>4, ReaderStays DEF n
<1>5. CASE due \in Dues /\ n < Len(sent)
  <2> DEFINE r == sent[n + 1]
  <2>1. /\ r.to \in Nat /\ r.to <= sect.size /\ r.owed \in 0 .. 3
        /\ Follows(dec.owed, due, r)
        /\ Lies(Bytes, dec.pos, r.to, r.piece)
        /\ End(sent, n + 1) = r.to /\ Owed(sent, n + 1) = r.owed
        /\ Due(sent, n + 1) = r.due
    BY <1>5, NextPiece
  <2> HIDE DEF r
  <2>2. CarefulData(r, dec.owed, due) /\ due # 0 /\ due \in Nat
    BY <1>5, <2>1 DEF Follows, Dues
  <2>3. r.owed = dec.owed /\ r.due = 0
    BY <2>2 DEF CarefulData
  <2> HIDE DEF due
  <2>4. /\ d.out \in Out /\ d.out.valsize = due /\ d.out.header = out.header
        /\ \/ d.err = "NOMEM"
           \/ /\ d.err = "GOOD" /\ d.pos = r.to
              /\ DataPiece([i \in 0 .. due - 1 |-> d.out.data[i]]) = r.piece
    <3>1. dec.pos \in Nat /\ dec.room \in Nat
      BY <1>2
    <3>2. d = coil_operand_decode_data(Bytes, sect.size, dec.pos, dec.room, out)
      BY DEF d
    <3>3. DataReady(Bytes, sect.size, dec.pos, r.to, dec.room, out, dec.owed, due, r)
      BY <1>2, <1>3, <1>5, <2>1, <2>2, <3>1 DEF DataReady
    <3> QED BY <3>2, <3>3, DecodesData
  <2>5. CASE d.err = "NOMEM"
    <3>1. got' = got /\ dec' = [dec EXCEPT !.room = due]
      BY <1>1, <2>4, <2>5
    <3>2. Standing(dec', out', n)
      BY <1>1, <1>2, <1>3, <2>2, <2>4, <3>1 DEF Standing, due
    <3> QED BY <1>1, <3>1, <3>2, ReaderStays
  <2>6. CASE d.err = "GOOD"
    <3>1. /\ got' = Append(got, r.piece)
          /\ dec' = [dec EXCEPT !.pos = r.to, !.want = After(dec.owed)]
      BY <1>1, <2>2, <2>4, <2>6
    <3> HIDE DEF n
    <3>2. Standing(dec', out', n + 1)
      <4>1. out' \in Out
        BY <1>1, <2>4
      <4>2. dec' = [dec EXCEPT !.pos = r.to, !.owed = dec.owed, !.want = After(dec.owed)]
        BY <1>2, <3>1
      <4> QED BY <1>2, <2>1, <2>3, <4>1, <4>2, NothingDue
    <3> QED BY <1>1, <1>5, <3>1, <3>2, ReaderTakes DEF r, n
  <2> QED BY <2>4, <2>5, <2>6
<1>6. CASE due \in Dues /\ ~(n < Len(sent))
  <2>1. due # 0 /\ due \in Nat
    BY <1>6 DEF Dues
  <2>2. sect.size = dec.pos
    BY <1>6, <2>1, CaughtUp
  <2> HIDE DEF due
  <2>3. /\ d.err \in {"NOMEM", "FORMAT"}
        /\ d.out \in Out /\ d.out.valsize = due /\ d.out.header = out.header
    BY <1>2, <1>3, <1>6, <2>2, RefusesData DEF d
  <2>4. got' = got /\ (dec' = dec \/ dec' = [dec EXCEPT !.room = due])
    BY <1>1, <2>3
  <2>5. Standing(dec', out', n)
    BY <1>1, <1>2, <1>3, <2>1, <2>3, <2>4 DEF Standing, due
  <2> QED BY <1>1, <2>4, <2>5, ReaderStays
<1> QED BY <1>2, <1>4, <1>5, <1>6

(***************************************************************************)
(* The theorems                                                            *)
(***************************************************************************)

LEMMA InitIInv == Init => IInv
<1> SUFFICES ASSUME Init PROVE IInv
  OBVIOUS
<1> DEFINE free == [a \in Addr |-> NoImage]
<1>1. PICK o \in InitOutcomes(free, InitCapacity) :
        o.err = "GOOD" /\ sect = o.sect /\ heap = o.heap
  BY Zenon DEF Init
<1>2. /\ enc = [owed |-> 0, due |-> 0, back |-> 0, failed |-> FALSE]
      /\ dec = [pos |-> 0, owed |-> 0, want |-> "instr", room |-> Room]
      /\ out = [fmt |-> "UNKN", mem |-> Uninitialized(ValueSize),
                header |-> Uninitialized(HeaderSize),
                offset |-> Uninitialized(OffsetSize),
                data |-> Uninitialized(WordSize), valsize |-> 0]
      /\ sent = <<>> /\ got = <<>>
  BY Zenon DEF Init
<1>3. /\ free \in [Addr -> Image]
      /\ InitCapacity \in 1 .. MaxAlloc /\ InitCapacity # 0 /\ InitCapacity \in Nat
  BY NoImageFacts, InstrAssumption
<1> HIDE DEF free
<1>4. PICK m \in Malloc(free, InitCapacity) :
        o = IF m.data = NULL
              THEN Outcome("NOMEM", ZeroSection, free)
              ELSE Outcome("GOOD",
                     [ZeroSection EXCEPT !.data = m.data, !.capacity = InitCapacity],
                     m.heap)
  BY <1>3, Zenon DEF InitOutcomes
<1>5. m.data # NULL
  BY <1>1, <1>4 DEF Outcome
<1>6. /\ m.data \in Addr /\ m.heap \in [Addr -> Image]
      /\ m.heap[m.data] \in [0 .. InitCapacity - 1 -> Cell]
      /\ m.data \in Allocated(m.heap)
  BY <1>3, <1>5, MallocGives
<1>7. /\ sect = [ZeroSection EXCEPT !.data = m.data, !.capacity = InitCapacity]
      /\ heap = m.heap
  BY <1>1, <1>4, <1>5 DEF Outcome
<1>8. /\ sect \in Section /\ sect.data = m.data /\ sect.capacity = InitCapacity
      /\ sect.size = 0 /\ sect.windex = 0 /\ sect.mode = "CREATE"
  <2>1. 0 \in Size /\ InitCapacity \in Size
    BY <1>3 DEF Size
  <2> QED BY <1>6, <1>7, <2>1 DEF ZeroSection, Section, Mode
<1>9. Owned(sect, heap)
  BY <1>3, <1>6, <1>7, <1>8 DEF Owned
<1>10. /\ sent \in Seq(Record) /\ Len(sent) = 0
       /\ got \in Seq(Piece) /\ Len(got) = 0
  BY <1>2
<1>11. /\ End(sent, 0) = 0 /\ Owed(sent, 0) = 0 /\ Due(sent, 0) = 0
  BY DEF End, Owed, Due
<1>12. /\ enc \in [owed : 0 .. 3, due : {0} \cup Dues, back : Nat, failed : BOOLEAN]
       /\ enc.back = 0 /\ enc.owed = 0 /\ enc.due = 0 /\ ~enc.failed
  BY <1>2
<1>13. WriterInv
  <2>1. NoStrayJunk(sent, heap[sect.data], sect.size)
    BY <1>8 DEF NoStrayJunk
  <2>2. Behind(heap[sect.data], sect.size, enc.back, enc.owed, enc.due)
    BY <1>8, <1>12 DEF Behind
  <2>3. \A k \in 1 .. Len(sent) : Filed(sent, heap[sect.data], enc.back, k)
    BY <1>10
  <2> QED BY <1>8, <1>9, <1>10, <1>11, <1>12, <2>1, <2>2, <2>3 DEF WriterInv
<1>14. out \in Out
  <2>1. \A n \in Nat : Uninitialized(n) \in Cells(n)
    BY DEF Uninitialized, Cells, Cell
  <2> HIDE DEF Uninitialized
  <2>2. /\ Uninitialized(ValueSize) \in Cells(ValueSize)
        /\ Uninitialized(HeaderSize) \in Cells(HeaderSize)
        /\ Uninitialized(OffsetSize) \in Cells(OffsetSize)
        /\ Uninitialized(WordSize) \in Cells(WordSize)
    BY <2>1
  <2> QED BY <1>2, <2>2 DEF Out, Format
<1>15. ReaderInv
  <2>1. /\ dec \in [pos : Nat, owed : 0 .. 3, want : {"instr", "operand", "data"}, room : Nat]
        /\ dec.pos = 0 /\ dec.owed = 0 /\ dec.want = "instr"
    BY <1>2, InstrAssumption
  <2> QED BY <1>10, <1>11, <1>14, <2>1 DEF ReaderInv
<1> QED BY <1>13, <1>15 DEF IInv

LEMMA NextIInv == Careful /\ IInv /\ [Next]_vars => IInv'
<1> SUFFICES ASSUME Careful, IInv, [Next]_vars PROVE IInv'
  OBVIOUS
<1>1. CASE Encode
  <2>1. ASSUME NEW op \in Ops, EncodeInstr(op) PROVE IInv'
    BY <2>1, EncodeInstrKeeps
  <2>2. ASSUME NEW op \in Ops, NEW flag \in Flags, EncodeInstrFlag(op, flag) PROVE IInv'
    BY <2>2, EncodeInstrFlagKeeps
  <2>3. ASSUME NEW op \in Ops, NEW value \in Words, EncodeInstrVal(op, value) PROVE IInv'
    BY <2>3, EncodeInstrValKeeps
  <2>4. ASSUME NEW type \in Types, NEW value_type \in ValueTypes, NEW modifier \in Modifiers,
               EncodeOperand(type, value_type, modifier)
        PROVE  IInv'
    BY <2>4, EncodeOperandKeeps
  <2>5. ASSUME NEW type \in Types, NEW value_type \in ValueTypes, NEW modifier \in Modifiers,
               NEW offset \in Offsets, EncodeOperandOff(type, value_type, modifier, offset)
        PROVE  IInv'
    BY <2>5, EncodeOperandOffKeeps
  <2>6. ASSUME NEW word \in Words, EncodeData(word) PROVE IInv'
    BY <2>6, EncodeDataKeeps
  <2> QED BY <1>1, <2>1, <2>2, <2>3, <2>4, <2>5, <2>6, Zenon DEF Encode
<1>2. CASE Rewind
  BY <1>2, RewindKeeps
<1>3. CASE Decode
  <2>1. CASE DecodeInstr
    BY <2>1, DecodeInstrKeeps
  <2>2. CASE DecodeOperand
    BY <2>2, DecodeOperandKeeps
  <2>3. CASE DecodeData
    BY <2>3, DecodeDataKeeps
  <2> QED BY <1>3, <2>1, <2>2, <2>3 DEF Decode
<1>4. CASE UNCHANGED vars
  <2>1. UNCHANGED writer /\ dec' = dec /\ out' = out /\ got' = got
    BY <1>4 DEF vars, writer
  <2>2. Standing(dec', out', Len(got))
    BY <2>1, ReaderFacts
  <2> QED BY <2>1, <2>2, ReaderStays
<1> QED BY <1>1, <1>2, <1>3, <1>4 DEF Next

(* The invariant holds in every run of a careful writer. *)
THEOREM Invariance == Careful => (Spec => []IInv)
<1>1. Careful \in BOOLEAN
  BY DEF Careful
<1>2. CASE Careful
  <2>1. IInv /\ [Next]_vars => IInv'
    BY <1>2, NextIInv
  <2> QED BY <2>1, InitIInv, PTL DEF Spec
<1>3. CASE ~Careful
  BY <1>3
<1> QED BY <1>2, <1>3

LEMMA SeqWider ==
  ASSUME NEW S, NEW T, NEW s \in Seq(S), S \subseteq T
  PROVE  s \in Seq(T)
<1>1. Len(s) \in Nat /\ s \in [1 .. Len(s) -> S]
  OBVIOUS
<1>2. s \in [1 .. Len(s) -> T]
  BY <1>1
<1> QED BY <1>1, <1>2

(* TypeOK: cursors, records and the caller's memory are of their types,    *)
(* and the reader stays in what was written.                               *)
THEOREM TypeCorrect == Careful => (Spec => []TypeOK)
<1>1. ASSUME IInv PROVE TypeOK
  <2>1. /\ sect \in Section /\ heap \in [Addr -> Image]
    BY <1>1 DEF IInv, WriterInv, Owned
  <2>2. \A a \in Addr : \E n \in 0 .. MaxAlloc : heap[a] \in Cells(n)
    BY <2>1 DEF Image, Cells
  <2>3. /\ enc \in [owed : 0 .. 3, due : {0} \cup Dues, back : Nat, failed : BOOLEAN]
        /\ enc.back <= sect.size /\ enc.back \in Size /\ sect.size \in Size
    BY <1>1, <2>1, IndexFacts DEF IInv, WriterInv, Size
  <2>4. enc \in [owed : 0 .. 3, due : {0, 1, 2, 4, 8, 16}, back : Size, failed : BOOLEAN]
    BY <2>3 DEF Dues
  <2>5. /\ dec \in [pos : Nat, owed : 0 .. 3, want : {"instr", "operand", "data"}, room : Nat]
        /\ dec.pos <= sect.size /\ out \in Out
    BY <1>1, ReaderFacts
  <2>6. dec \in [pos : Size, owed : 0 .. 3, want : {"instr", "operand", "data"}, room : Nat]
    <3>1. dec.pos \in Size
      BY <2>3, <2>5 DEF Size
    <3> QED BY <2>5, <3>1
  <2>7. sent \in Seq([piece : Piece, from : Size, to : Size,
                      owed : 0 .. 3, due : {0, 1, 2, 4, 8, 16}])
    <3> DEFINE Wide == [piece : Piece, from : Size, to : Size,
                        owed : 0 .. 3, due : {0, 1, 2, 4, 8, 16}]
    <3>1. Record \subseteq Wide
      BY DEF Record, Dues
    <3>2. sent \in Seq(Record)
      BY <1>1 DEF IInv, WriterInv
    <3> HIDE DEF Wide
    <3>3. sent \in Seq(Wide)
      BY <3>1, <3>2, SeqWider
    <3> QED BY <3>3 DEF Wide
  <2>8. got \in Seq(Piece)
    BY <1>1 DEF IInv, ReaderInv
  <2> QED BY <2>1, <2>2, <2>3, <2>4, <2>5, <2>6, <2>7, <2>8 DEF TypeOK
<1> QED BY <1>1, Invariance, PTL

(* EncodedIntact: what was encoded lies where it was put, as it was        *)
(* encoded, whatever grew, failed or was rewound since.                    *)
THEOREM EncodedStaysIntact == Careful => (Spec => []EncodedIntact)
<1>1. ASSUME IInv PROVE EncodedIntact
  <2>1. /\ sent \in Seq(Record) /\ enc.back = End(sent, Len(sent))
        /\ enc.failed \/ sect.windex = enc.back
        /\ \A k \in 1 .. Len(sent) : Filed(sent, heap[sect.data], enc.back, k)
    BY <1>1 DEF IInv, WriterInv
  <2>2. enc.back = IF sent = <<>> THEN 0 ELSE Last(sent).to
    BY <2>1 DEF End, Last
  <2>3. ASSUME NEW k \in DOMAIN sent
        PROVE  /\ sent[k].from = (IF k = 1 THEN 0 ELSE sent[k - 1].to)
               /\ LET cells == Layout(sent[k].piece)
                  IN  /\ DOMAIN cells = 0 .. sent[k].to - sent[k].from - 1
                      /\ \A i \in DOMAIN cells :
                           cells[i] = heap[sect.data][sent[k].from + i]
    <3>1. k \in 1 .. Len(sent) /\ k \in Nat
      BY <2>1
    <3>2. /\ sent[k].from = End(sent, k - 1)
          /\ Lies(heap[sect.data], sent[k].from, sent[k].to, sent[k].piece)
      BY <2>1, <3>1 DEF Filed
    <3>3. sent[k].from = (IF k = 1 THEN 0 ELSE sent[k - 1].to)
      BY <3>1, <3>2 DEF End
    <3> QED BY <3>2, <3>3 DEF Lies
  <2> QED BY <2>1, <2>2, <2>3 DEF EncodedIntact
<1> QED BY <1>1, Invariance, PTL

(* ReaderBetweenPieces: the reader never stands inside a piece, nor behind *)
(* the bytes of a call that failed.                                        *)
THEOREM ReaderStaysBetweenPieces == Careful => (Spec => []ReaderBetweenPieces)
<1>1. ASSUME IInv PROVE ReaderBetweenPieces
  <2>1. got \in Seq(Piece) /\ dec.pos = End(sent, Len(got))
    BY <1>1 DEF IInv, ReaderInv
  <2> QED BY <2>1 DEF End, ReaderBetweenPieces
<1> QED BY <1>1, Invariance, PTL

(* JunkOnlyInPadding: a byte that nobody set is padding of a value header, *)
(* and none is handed to the reader.                                       *)
THEOREM JunkStaysInPadding == Careful => (Spec => []JunkOnlyInPadding)
<1>1. ASSUME IInv PROVE JunkOnlyInPadding
  <2>1. NoStrayJunk(sent, heap[sect.data], sect.size)
    BY <1>1 DEF IInv, WriterInv
  <2>2. ASSUME NEW k \in DOMAIN got
        PROVE  /\ \A i \in DOMAIN got[k].head : got[k].head[i] # Junk
               /\ \A i \in DOMAIN got[k].arg : got[k].arg[i] # Junk
    <3>1. k \in 1 .. Len(got) /\ k \in 1 .. Len(sent)
      BY <1>1, IndexFacts DEF IInv, ReaderInv
    <3>2. got[k] = sent[k].piece /\ Filed(sent, heap[sect.data], enc.back, k)
      BY <1>1, <3>1 DEF IInv, ReaderInv, WriterInv
    <3>3. Proper(sent[k].piece)
      BY <3>2, FollowsFacts DEF Filed
    <3> QED BY <3>2, <3>3 DEF Proper
  <2> QED BY <2>1, <2>2 DEF JunkOnlyInPadding, NoStrayJunk
<1> QED BY <1>1, Invariance, PTL

-----------------------------------------------------------------------------
(***************************************************************************)
(* The safety half of the refinement.  Every step either hands at most one *)
(* piece over, at the end of sent or of got, or hands over none; what it   *)
(* hands over is right because IInv holds before and after it.             *)
(***************************************************************************)

(* How a step may change what was sent and got. *)
HandsOver ==
  \/ sent' = sent /\ got' = got
  \/ (\E r : sent' = Append(sent, r)) /\ got' = got
  \/ sent' = sent /\ \E piece : got' = Append(got, piece)

LEMMA CalledHandsOver ==
  ASSUME NEW outcomes, NEW piece, NEW owed, NEW due,
         Called(outcomes, piece, owed, due)
  PROVE  HandsOver
BY Zenon DEF Called, HandsOver, reader

LEMMA NextHandsOver == [Next]_vars => HandsOver
<1> SUFFICES ASSUME [Next]_vars PROVE HandsOver
  OBVIOUS
<1>1. ASSUME NEW op \in Ops, EncodeInstr(op) PROVE HandsOver
  BY <1>1, CalledHandsOver, Zenon DEF EncodeInstr
<1>2. ASSUME NEW op \in Ops, NEW flag \in Flags, EncodeInstrFlag(op, flag)
      PROVE  HandsOver
  BY <1>2, CalledHandsOver, Zenon DEF EncodeInstrFlag
<1>3. ASSUME NEW op \in Ops, NEW value \in Words, EncodeInstrVal(op, value)
      PROVE  HandsOver
  BY <1>3, CalledHandsOver, Zenon DEF EncodeInstrVal
<1>4. ASSUME NEW type \in Types, NEW value_type \in ValueTypes,
             NEW modifier \in Modifiers, EncodeOperand(type, value_type, modifier)
      PROVE  HandsOver
  BY <1>4, CalledHandsOver, Zenon DEF EncodeOperand
<1>5. ASSUME NEW type \in Types, NEW value_type \in ValueTypes,
             NEW modifier \in Modifiers, NEW offset \in Offsets,
             EncodeOperandOff(type, value_type, modifier, offset)
      PROVE  HandsOver
  BY <1>5, CalledHandsOver, Zenon DEF EncodeOperandOff
<1>6. ASSUME NEW word \in Words, EncodeData(word) PROVE HandsOver
  BY <1>6, CalledHandsOver, Zenon DEF EncodeData
<1>7. CASE Encode
  BY <1>1, <1>2, <1>3, <1>4, <1>5, <1>6, <1>7, Zenon DEF Encode
<1>8. CASE Rewind
  BY <1>8, Zenon DEF Rewind, reader, HandsOver
<1>9. CASE DecodeInstr
  BY <1>9, Zenon DEF DecodeInstr, writer, HandsOver
<1>10. CASE DecodeOperand
  BY <1>10, Zenon DEF DecodeOperand, writer, HandsOver
<1>11. CASE DecodeData
  <2> DEFINE r == coil_operand_decode_data(Bytes, sect.size, dec.pos, dec.room, out)
             data == DataPiece([i \in 0 .. r.out.valsize - 1 |-> r.out.data[i]])
  <2>1. sent' = sent
    BY <1>11, Zenon DEF DecodeData, writer
  <2>2. got' = got \/ got' = Append(got, data)
    <3>1. CASE r.err = "GOOD"
      BY <1>11, <3>1 DEF DecodeData
    <3>2. CASE r.err = "NOMEM"
      BY <1>11, <3>2 DEF DecodeData
    <3>3. CASE r.err # "GOOD" /\ r.err # "NOMEM"
      BY <1>11, <3>3 DEF DecodeData
    <3> QED BY <3>1, <3>2, <3>3
  <2> QED BY <2>1, <2>2, Zenon DEF HandsOver
<1>12. CASE UNCHANGED vars
  BY <1>12, Zenon DEF vars, HandsOver
<1> QED BY <1>7, <1>8, <1>9, <1>10, <1>11, <1>12, Zenon DEF Next, Decode

(* What was sent, as the queue has it. *)
LEMMA PiecesFacts ==
  ASSUME NEW s \in Seq(Record), NEW p, p = [k \in DOMAIN s |-> s[k].piece]
  PROVE  /\ p \in Seq(Piece) /\ Len(p) = Len(s)
         /\ \A k \in 1 .. Len(s) : p[k] = s[k].piece
<1>1. /\ Len(s) \in Nat /\ DOMAIN s = 1 .. Len(s)
      /\ \A k \in 1 .. Len(s) : s[k] \in Record
  OBVIOUS
<1>2. \A k \in 1 .. Len(s) : s[k].piece \in Piece
  BY <1>1 DEF Record
<1>3. p \in [1 .. Len(s) -> Piece] /\ \A k \in 1 .. Len(s) : p[k] = s[k].piece
  BY <1>1, <1>2
<1>4. p \in Seq(Piece) /\ Len(p) = Len(s)
  BY <1>1, <1>3
<1> QED BY <1>3, <1>4

LEMMA SendStep ==
  ASSUME IInv, IInv', NEW r, sent' = Append(sent, r), got' = got
  PROVE  Stream!Send
<1>1. /\ sent \in Seq(Record) /\ Pieces \in Seq(Piece) /\ Len(Pieces) = Len(sent)
      /\ \A k \in 1 .. Len(sent) : Pieces[k] = sent[k].piece
  <2>1. sent \in Seq(Record)
    BY DEF IInv, WriterInv
  <2> QED BY <2>1, PiecesFacts DEF Pieces
<1>2. /\ sent' \in Seq(Record) /\ Pieces' \in Seq(Piece) /\ Len(Pieces') = Len(sent')
      /\ \A k \in 1 .. Len(sent') : Pieces'[k] = sent'[k].piece
  <2>1. sent' \in Seq(Record)
    BY DEF IInv, WriterInv
  <2> QED BY <2>1, PiecesFacts DEF Pieces
<1>3. Len(sent') = Len(sent) + 1 /\ \A k \in 1 .. Len(sent) : sent'[k] = sent[k]
  BY <1>1
<1>4. Len(Pieces') = Len(Pieces) + 1
      /\ \A k \in 1 .. Len(Pieces) : Pieces'[k] = Pieces[k]
  BY <1>1, <1>2, <1>3
<1>5. Pieces'[Len(Pieces')] \in Piece
  <2>1. Len(Pieces') \in 1 .. Len(Pieces')
    BY <1>1, <1>4
  <2> QED BY <1>2, <2>1
<1> HIDE DEF Pieces
<1>6. SubSeq(Pieces', 1, Len(Pieces)) = Pieces
  BY <1>1, <1>2, <1>4
<1> QED BY <1>4, <1>5, <1>6 DEF Stream!Send

LEMMA ReceiveStep ==
  ASSUME IInv, IInv', NEW piece, sent' = sent, got' = Append(got, piece)
  PROVE  Stream!Receive
<1>1. /\ sent \in Seq(Record) /\ got \in Seq(Piece) /\ Len(Pieces) = Len(sent)
      /\ \A k \in 1 .. Len(sent) : Pieces[k] = sent[k].piece
  <2>1. sent \in Seq(Record) /\ got \in Seq(Piece)
    BY DEF IInv, WriterInv, ReaderInv
  <2> QED BY <2>1, PiecesFacts DEF Pieces
<1>2. Len(got') = Len(got) + 1 /\ got'[Len(got) + 1] = piece
  BY <1>1
<1>3. Len(got') <= Len(sent) /\ \A k \in 1 .. Len(got') : got'[k] = sent[k].piece
  BY DEF IInv, ReaderInv
<1>4. Len(got) \in Nat /\ Len(sent) \in Nat
  BY <1>1
<1>5. Len(got) < Len(Pieces) /\ piece = Pieces[Len(got) + 1]
  BY <1>1, <1>2, <1>3, <1>4
<1>6. Pieces' = Pieces
  BY DEF Pieces
<1> QED BY <1>5, <1>6 DEF Stream!Receive

(* Whatever a careful writer and a reader do, and whatever fails, the      *)
(* pieces go through the section as through a queue: in order, each as it  *)
(* was written, none twice and none that was not written.                  *)
THEOREM ImplementsInstrStream == Careful => (Spec => Stream!Safe)
<1>1. Init => Stream!Init
  BY DEF Init, Stream!Init, Pieces
<1>2. IInv /\ IInv' /\ [Next]_vars => [Stream!Next]_(Stream!vars)
  <2> SUFFICES ASSUME IInv, IInv', [Next]_vars PROVE [Stream!Next]_(Stream!vars)
    OBVIOUS
  <2>1. CASE sent' = sent /\ got' = got
    BY <2>1 DEF Stream!vars, Pieces
  <2>2. ASSUME NEW r, sent' = Append(sent, r), got' = got PROVE Stream!Next
    BY <2>2, SendStep DEF Stream!Next
  <2>3. ASSUME NEW piece, sent' = sent, got' = Append(got, piece) PROVE Stream!Next
    BY <2>3, ReceiveStep DEF Stream!Next
  <2> QED BY <2>1, <2>2, <2>3, NextHandsOver DEF HandsOver
<1>3. Careful \in BOOLEAN
  BY DEF Careful
<1> QED BY <1>1, <1>2, <1>3, Invariance, PTL DEF Spec, Stream!Safe
=============================================================================

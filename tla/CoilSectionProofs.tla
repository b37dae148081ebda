-------------------------- MODULE CoilSectionProofs --------------------------
(***************************************************************************)
(* Theorems about CoilSection, for every heap, byte set and size.          *)
(***************************************************************************)
EXTENDS CoilSection, SectionBufferProofs

USE BufferAssumption, SectionAssumption

(***************************************************************************)
(* What an open section keeps, stated of a structure and a heap so that it *)
(* can be used of the intermediate results of a call.                      *)
(***************************************************************************)
(***************************************************************************)
(* What the client has to keep to.  A client within its file never moves   *)
(* the file position past the end; one that is careful may do so as long   *)
(* as it never asks for a view, which would be sized by a difference that  *)
(* wraps around.                                                           *)
(***************************************************************************)
Within == "lseek past the end" \notin Calls
Careful == Within \/ "loadv" \notin Calls

CursorsOK(s) == s.rindex <= s.size /\ s.windex <= s.size /\ s.size <= s.capacity

OwnsOK(s, h) ==
  /\ Allocated(h) = IF s.data \in Addr THEN {s.data} ELSE {}
  /\ s.data \in Addr => /\ s.capacity \in 1 .. MaxAlloc
                        /\ h[s.data] \in [0 .. s.capacity - 1 -> Cell]
  /\ s.data = NULL => s.capacity = 0
  /\ s.data = MAPPED <=> s.mode = "VIEW"
  /\ s.is_mapped <=> s.mode = "VIEW"

WrittenOK(s, h) ==
  Careful /\ s.data \in Addr => \A i \in 0 .. s.size - 1 : h[s.data][i] \in Byte

BufferOK(s, h) ==
  /\ s \in Section
  /\ h \in [Addr -> Image]
  /\ CursorsOK(s)
  /\ OwnsOK(s, h)
  /\ WrittenOK(s, h)

(***************************************************************************)
(* Sizing the buffer                                                       *)
(***************************************************************************)

Resized(s, d, c) == [s EXCEPT !.data = d, !.capacity = c, !.mode = "MODIFY"]

(* The structure that resize leaves: the cursors and the size are kept. *)
LEMMA ResizedFields ==
  ASSUME NEW s \in Section, NEW d \in Addr, NEW c \in Size
  PROVE  /\ Resized(s, d, c) \in Section
         /\ Resized(s, d, c).data = d
         /\ Resized(s, d, c).capacity = c
         /\ Resized(s, d, c).mode = "MODIFY"
         /\ Resized(s, d, c).is_mapped = s.is_mapped
         /\ Resized(s, d, c).size = s.size
         /\ Resized(s, d, c).rindex = s.rindex
         /\ Resized(s, d, c).windex = s.windex
BY DEF Section, Mode, Resized

(* Resizing an owned section to hold at least its content either changes   *)
(* nothing or yields a section of exactly that capacity that owns the new  *)
(* region only, with the same content and the same cursors.                *)
LEMMA ResizeFacts ==
  ASSUME NEW s, NEW h, BufferOK(s, h), s.mode # "VIEW",
         NEW c \in Nat, s.size <= c,
         NEW o \in ResizeOutcomes(s, h, c)
  PROVE  \/ o = Outcome("NOMEM", s, h)
         \/ /\ o.err = "GOOD"
            /\ BufferOK(o.sect, o.heap)
            /\ o.sect = Resized(s, o.sect.data, c)
            /\ o.sect.data \in Addr
            /\ c \in 1 .. MaxAlloc
            /\ \A i \in 0 .. s.size - 1 :
                 o.heap[o.sect.data][i] = h[s.data][i]
<1> USE DEF BufferOK
<1>1. PICK m \in Malloc(h, c) :
        o = IF m.data = NULL
              THEN Outcome("NOMEM", s, h)
              ELSE Outcome("GOOD",
                           Resized(s, m.data, c),
                           Moved(s, m.heap, m.data))
  BY Zenon DEF ResizeOutcomes, Resized
<1>2. CASE m.data = NULL
  BY <1>1, <1>2, Zenon
<1>3. CASE m.data # NULL
  <2> DEFINE t == Resized(s, m.data, c)
             g == Moved(s, m.heap, m.data)
             filled == [m.heap EXCEPT
                          ![m.data] = Overlay(m.heap[m.data], 0, s.size, m.heap[s.data])]
  <2>1. o.err = "GOOD" /\ o.sect = t /\ o.heap = g
    BY <1>1, <1>3, Zenon DEF Outcome
  <2>2. /\ m.data \in Addr \ Allocated(h)
        /\ c \in 1 .. MaxAlloc
        /\ m.heap \in [Addr -> Image]
        /\ m.heap[m.data] \in [0 .. c - 1 -> Cell]
        /\ \A a \in Addr : a # m.data => m.heap[a] = h[a]
        /\ Allocated(m.heap) = Allocated(h) \cup {m.data}
    BY <1>3, MallocGives
  <2>3. /\ t \in Section
        /\ t.data = m.data /\ t.capacity = c /\ t.mode = "MODIFY"
        /\ t.size = s.size /\ t.rindex = s.rindex /\ t.windex = s.windex
        /\ t.is_mapped = s.is_mapped
    <3>1. s \in Section /\ c \in Size
      BY <2>2 DEF Size
    <3> QED BY <2>2, <3>1, ResizedFields
  <2>4. s.size \in Nat /\ s.capacity \in Nat
    BY DEF Section, Size
  <2>5. CASE s.data \in Addr
    <3>1. s.data # m.data /\ s.data # NULL
      BY <2>2, <2>5 DEF OwnsOK
    <3>2. m.heap[s.data] = h[s.data]
      BY <2>2, <2>5, <3>1
    <3>3. Careful => \A i \in 0 .. s.size - 1 : h[s.data][i] \in Byte
      BY <2>5 DEF WrittenOK
    <3>4. \A i \in 0 .. s.size - 1 : m.heap[s.data][i] \in Cell
      BY <2>4, <2>5, <3>2 DEF OwnsOK, CursorsOK
    <3> DEFINE new == Overlay(m.heap[m.data], 0, s.size, m.heap[s.data])
    <3>5. new \in [0 .. c - 1 -> Cell]
      <4>1. 0 \in Nat /\ s.size \in Nat /\ 0 + s.size <= c
        BY <2>4
      <4>2. m.heap[m.data] \in [0 .. c - 1 -> Cell]
        BY <2>2
      <4> QED BY <3>4, <4>1, <4>2, OverlayInside
    <3>6. ASSUME NEW i \in 0 .. s.size - 1
          PROVE  new[i] = h[s.data][i]
      BY <2>4, <3>2, OverlayStart
    <3> HIDE DEF new
    <3>7. CASE s.size > 0
      <4>1. g = Free(filled, s.data)
        BY <3>1, <3>7, Zenon DEF Moved
      <4>2. new \in Image
        BY <2>2, <3>5, c \in 0 .. MaxAlloc, ImageIntro
      <4>3. filled \in [Addr -> Image]
        BY <2>2, <4>2 DEF new
      <4>4. filled[m.data] = new /\ \A a \in Addr : a # m.data => filled[a] = m.heap[a]
        BY <2>2 DEF new
      <4>5. Allocated(filled) = {s.data, m.data}
        <5>1. DOMAIN new # {}
          BY <2>2, <3>5, NonEmpty
        <5>2. Allocated(filled) = Allocated(m.heap)
          BY <2>2, <4>4, <5>1 DEF Allocated
        <5> QED BY <2>2, <2>5, <5>2 DEF OwnsOK
      <4> HIDE DEF filled
      <4>6. /\ g \in [Addr -> Image]
            /\ Allocated(g) = {m.data}
            /\ g[m.data] = new
        BY <2>2, <2>5, <3>1, <4>1, <4>3, <4>4, <4>5, FreeFacts
      <4>7. BufferOK(t, g)
        BY <2>2, <2>3, <3>3, <3>5, <3>6, <4>6 DEF CursorsOK, OwnsOK, WrittenOK
      <4> QED BY <2>1, <2>2, <2>3, <3>6, <4>6, <4>7
    <3>8. CASE ~(s.size > 0)
      <4>1. g = Free(m.heap, s.data)
        BY <3>1, <3>8, Zenon DEF Moved
      <4>2. /\ g \in [Addr -> Image]
            /\ Allocated(g) = {m.data}
            /\ g[m.data] = m.heap[m.data]
        BY <2>2, <2>5, <3>1, <4>1, FreeFacts DEF OwnsOK
      <4>3. BufferOK(t, g)
        BY <2>2, <2>3, <2>4, <3>8, <4>2 DEF CursorsOK, OwnsOK, WrittenOK
      <4> QED BY <2>1, <2>2, <2>3, <2>4, <3>8, <4>3
    <3> QED BY <3>7, <3>8
  <2>6. CASE s.data \notin Addr
    <3>1. s.data = NULL /\ s.size = 0
      BY <2>4, <2>6 DEF OwnsOK, Section, CursorsOK
    <3>2. g = m.heap
      BY <3>1, Zenon DEF Moved
    <3>3. BufferOK(t, g)
      <4>1. Allocated(h) = {}
        BY <2>6 DEF OwnsOK
      <4>2. OwnsOK(t, g)
        BY <2>2, <2>3, <3>2, <4>1 DEF OwnsOK
      <4>3. CursorsOK(t)
        BY <2>2, <2>3, <3>1 DEF CursorsOK
      <4>4. WrittenOK(t, g)
        BY <2>3, <3>1 DEF WrittenOK
      <4> HIDE DEF t, g
      <4> QED BY <2>2, <2>3, <3>2, <4>2, <4>3, <4>4
    <3> QED BY <2>1, <2>2, <2>3, <3>1, <3>3
  <2> QED BY <2>5, <2>6
<1> QED BY <1>2, <1>3

(* ensure_capacity refuses, changes nothing, or yields a sound section     *)
(* that can hold min bytes, with the same content and cursors.             *)
LEMMA EnsureFacts ==
  ASSUME NEW s, NEW h, BufferOK(s, h), NEW min \in Nat, min < SizeMod,
         NEW o \in EnsureOutcomes(s, h, min)
  PROVE  /\ BufferOK(o.sect, o.heap)
         /\ o.err \in {"GOOD", "NOMEM", "BADSTATE"}
         /\ o.err # "GOOD" => o.sect = s /\ o.heap = h
         /\ s.mode # "VIEW" => o.sect.mode # "VIEW"
         /\ s.mode = "VIEW" => o.sect = s /\ o.heap = h
         /\ o.err = "GOOD" =>
              /\ o.sect.mode # "VIEW"
              /\ o.sect.capacity >= min
              /\ o.sect.size = s.size
              /\ o.sect.rindex = s.rindex
              /\ o.sect.windex = s.windex
              /\ s.capacity >= min => o.sect = s /\ o.heap = h
<1>1. CASE s.mode = "VIEW"
  BY <1>1 DEF EnsureOutcomes, Outcome
<1>2. CASE s.mode # "VIEW" /\ s.capacity >= min
  BY <1>2 DEF EnsureOutcomes, Outcome
<1>3. CASE s.mode # "VIEW" /\ ~(s.capacity >= min)
  <2> DEFINE c == Grown(s.capacity, min)
  <2>1. s \in Section /\ s.capacity \in Nat /\ s.capacity < SizeMod /\ s.size <= s.capacity
        /\ s.size \in Nat
    BY DEF BufferOK, Section, Size, CursorsOK
  <2>2. c \in Nat /\ min <= c /\ s.size <= c
    BY <1>3, <2>1 DEF Grown, Plus
  <2>3. o \in ResizeOutcomes(s, h, c)
    BY <1>3 DEF EnsureOutcomes
  <2> HIDE DEF c
  <2>4. CASE o = Outcome("NOMEM", s, h)
    BY <2>4 DEF Outcome
  <2>5. CASE o # Outcome("NOMEM", s, h)
    <3>1. /\ o.err = "GOOD"
          /\ BufferOK(o.sect, o.heap)
          /\ o.sect = Resized(s, o.sect.data, c)
          /\ o.sect.data \in Addr /\ c \in 1 .. MaxAlloc
      <4>1. BufferOK(s, h) /\ s.mode # "VIEW"
        BY <1>3
      <4> QED BY <2>2, <2>3, <2>5, <4>1, ResizeFacts
    <3>2. /\ o.sect.mode = "MODIFY" /\ o.sect.capacity = c
          /\ o.sect.size = s.size /\ o.sect.rindex = s.rindex
          /\ o.sect.windex = s.windex
      <4>1. c \in Size
        BY <3>1 DEF Size
      <4> QED BY <2>1, <3>1, <4>1, ResizedFields
    <3> QED BY <1>3, <2>2, <3>1, <3>2
  <2> QED BY <2>4, <2>5
<1> QED BY <1>1, <1>2, <1>3

(* compact refuses, changes nothing, or yields a sound section.            *)
LEMMA CompactFacts ==
  ASSUME NEW s, NEW h, BufferOK(s, h), NEW o \in CompactOutcomes(s, h)
  PROVE  /\ BufferOK(o.sect, o.heap)
         /\ o.err \in {"GOOD", "NOMEM", "BADSTATE"}
         /\ o.err # "GOOD" => o.sect = s /\ o.heap = h
         /\ s.mode # "VIEW" => o.sect.mode # "VIEW"
         /\ s.mode = "VIEW" => o.sect = s /\ o.heap = h
<1>1. CASE s.mode = "VIEW" \/ s.data = NULL
  BY <1>1 DEF CompactOutcomes, Outcome
<1>2. CASE ~(s.mode = "VIEW" \/ s.data = NULL) /\ s.size = s.capacity
  BY <1>2 DEF CompactOutcomes, Outcome
<1>3. CASE ~(s.mode = "VIEW" \/ s.data = NULL) /\ s.size # s.capacity
  <2>1. o \in ResizeOutcomes(s, h, s.size) /\ s.mode # "VIEW"
    BY <1>3 DEF CompactOutcomes
  <2>2. s.size \in Nat /\ s.size <= s.size
    BY DEF BufferOK, Section, Size
  <2>3. \/ o = Outcome("NOMEM", s, h)
        \/ o.err = "GOOD" /\ BufferOK(o.sect, o.heap) /\ o.sect.data \in Addr
    BY <2>1, <2>2, ResizeFacts
  <2>4. CASE o = Outcome("NOMEM", s, h)
    BY <2>1, <2>4 DEF Outcome
  <2>5. CASE o.err = "GOOD" /\ BufferOK(o.sect, o.heap) /\ o.sect.data \in Addr
    <3>1. o.sect.mode # "VIEW"
      BY <2>5 DEF BufferOK, OwnsOK
    <3> QED BY <2>1, <2>5, <3>1
  <2> QED BY <2>3, <2>4, <2>5
<1> QED BY <1>1, <1>2, <1>3

(* A fresh section is sound whether or not its buffer could be allocated.  *)
LEMMA InitFacts ==
  ASSUME NEW h \in [Addr -> Image], Allocated(h) = {},
         NEW c \in 0 .. MaxAlloc, NEW o \in InitOutcomes(h, c)
  PROVE  /\ BufferOK(o.sect, o.heap)
         /\ o.sect.mode = "CREATE" /\ ~o.sect.is_mapped
         /\ o.sect.size = 0 /\ o.sect.rindex = 0 /\ o.sect.windex = 0
         /\ \/ o.err = "NOMEM" /\ o.heap = h /\ o.sect = ZeroSection
            \/ o.err = "GOOD" /\ o.sect.data \in Addr
<1> DEFINE cap == IF c = 0 THEN DefaultCapacity ELSE c
           t(m) == [ZeroSection EXCEPT !.data = m.data, !.capacity = cap]
<1>1. PICK m \in Malloc(h, cap) :
        o = IF m.data = NULL THEN Outcome("NOMEM", ZeroSection, h)
            ELSE Outcome("GOOD", t(m), m.heap)
  BY Zenon DEF InitOutcomes
<1>2. cap \in Nat /\ cap \in Size
  BY DEF Size
<1>3. ZeroSection \in Section /\ BufferOK(ZeroSection, h)
  <2>1. ZeroSection \in Section
    BY DEF ZeroSection, Section, Size, Mode
  <2> QED BY <2>1 DEF ZeroSection, BufferOK, CursorsOK, OwnsOK, WrittenOK
<1>4. CASE m.data = NULL
  BY <1>1, <1>3, <1>4 DEF Outcome, ZeroSection
<1>5. CASE m.data # NULL
  <2>1. o.err = "GOOD" /\ o.sect = t(m) /\ o.heap = m.heap
    BY <1>1, <1>5 DEF Outcome
  <2> HIDE DEF cap
  <2>2. /\ m.data \in Addr
        /\ cap \in 1 .. MaxAlloc
        /\ m.heap \in [Addr -> Image]
        /\ m.heap[m.data] \in [0 .. cap - 1 -> Cell]
        /\ Allocated(m.heap) = {m.data}
    BY <1>2, <1>5, MallocGives
  <2>3. /\ t(m) \in Section
        /\ t(m).data = m.data /\ t(m).capacity = cap /\ t(m).mode = "CREATE"
        /\ t(m).size = 0 /\ t(m).rindex = 0 /\ t(m).windex = 0
        /\ ~t(m).is_mapped
    BY <1>2, <1>3, <2>2 DEF Section, ZeroSection
  <2> HIDE DEF t
  <2>4. BufferOK(t(m), m.heap)
    BY <2>2, <2>3 DEF BufferOK, CursorsOK, OwnsOK, WrittenOK
  <2> QED BY <2>1, <2>2, <2>3, <2>4
<1> QED BY <1>4, <1>5

Stored(s, w) == [s EXCEPT !.windex = w, !.size = IF w > @ THEN w ELSE @]

(* The structure after n bytes went to the write cursor. *)
LEMMA StoredFields ==
  ASSUME NEW s \in Section, NEW w \in Size
  PROVE  /\ Stored(s, w) \in Section
         /\ Stored(s, w).data = s.data
         /\ Stored(s, w).capacity = s.capacity
         /\ Stored(s, w).mode = s.mode
         /\ Stored(s, w).is_mapped = s.is_mapped
         /\ Stored(s, w).rindex = s.rindex
         /\ Stored(s, w).windex = w
         /\ Stored(s, w).size = IF w > s.size THEN w ELSE s.size
BY DEF Section, Stored

(* write refuses, changes nothing, or yields a sound section: the copy     *)
(* stays inside the buffer that ensure_capacity provided, and leaves no    *)
(* unwritten byte below the new size.                                      *)
LEMMA WriteFacts ==
  ASSUME NEW s, NEW h, BufferOK(s, h),
         NEW n \in 0 .. MaxBuf, NEW buf \in Buffer(n), s.mode # "VIEW",
         NEW o \in WriteOutcomes(s, h, n, buf)
  PROVE  /\ BufferOK(o.sect, o.heap)
         /\ o.err \in {"GOOD", "NOMEM", "BADSTATE"}
         /\ o.err # "GOOD" => o.sect = s /\ o.heap = h
         /\ s.mode # "VIEW" => o.sect.mode # "VIEW"
         /\ s.mode = "VIEW" => o.sect = s /\ o.heap = h
<1> DEFINE min == Plus(s.windex, n)
<1>1. /\ s \in Section /\ s.windex \in Nat /\ s.size \in Nat /\ s.capacity \in Nat
      /\ s.windex <= s.size /\ s.size <= s.capacity /\ s.capacity <= MaxAlloc
      /\ n \in Nat
  <2>1. s.data # MAPPED
    BY DEF BufferOK, OwnsOK
  <2> QED BY <2>1 DEF BufferOK, Section, Size, CursorsOK, OwnsOK
<1>2. min = s.windex + n /\ min \in Nat /\ min < SizeMod
  BY <1>1 DEF Plus
<1> HIDE DEF min
<1> DEFINE St(e) == Outcome("GOOD",
                      Stored(e.sect, Plus(e.sect.windex, n)),
                      IF e.sect.data \in Addr
                        THEN [e.heap EXCEPT
                                ![e.sect.data] = Overlay(@, e.sect.windex, n, buf)]
                        ELSE e.heap)
<1>3. PICK e \in EnsureOutcomes(s, h, min) :
        o = IF e.err = "GOOD" THEN St(e) ELSE e
  BY Zenon DEF WriteOutcomes, Stored, min
<1>4. /\ BufferOK(e.sect, e.heap)
      /\ e.err \in {"GOOD", "NOMEM", "BADSTATE"}
      /\ e.err # "GOOD" => e.sect = s /\ e.heap = h
      /\ e.sect.mode # "VIEW"
      /\ e.err = "GOOD" =>
           /\ e.sect.mode # "VIEW"
           /\ e.sect.capacity >= min
           /\ e.sect.size = s.size
           /\ e.sect.rindex = s.rindex
           /\ e.sect.windex = s.windex
  BY <1>2, EnsureFacts
<1>5. CASE e.err # "GOOD"
  BY <1>3, <1>4, <1>5
<1>6. CASE e.err = "GOOD"
  <2> DEFINE t == Stored(e.sect, min)
             w == e.sect.windex
             d == e.sect.data
             c == e.sect.capacity
             new == Overlay(e.heap[d], w, n, buf)
  <2>1. o.err = "GOOD" /\ o.sect = t
        /\ o.heap = IF d \in Addr THEN [e.heap EXCEPT ![d] = new] ELSE e.heap
    BY <1>3, <1>4, <1>6 DEF Outcome, min
  <2>2. /\ e.sect \in Section /\ e.heap \in [Addr -> Image]
        /\ min \in Size /\ w = s.windex /\ c \in Nat /\ w \in Nat
        /\ w + n <= c /\ min = w + n /\ e.sect.size = s.size /\ s.size <= c
        /\ e.sect.rindex <= s.size
    BY <1>1, <1>2, <1>4, <1>6 DEF BufferOK, Section, Size, CursorsOK
  <2>3. /\ t \in Section
        /\ t.data = d /\ t.capacity = c /\ t.mode = e.sect.mode
        /\ t.is_mapped = e.sect.is_mapped
        /\ t.rindex = e.sect.rindex /\ t.windex = min
        /\ t.size = IF min > s.size THEN min ELSE s.size
    BY <2>2, StoredFields
  <2> HIDE DEF t
  <2>4. CursorsOK(t)
    BY <1>1, <1>2, <2>2, <2>3 DEF CursorsOK, Section, Size
  <2>5. CASE d \in Addr
    <3>1. /\ c \in 1 .. MaxAlloc
          /\ e.heap[d] \in [0 .. c - 1 -> Cell]
          /\ Allocated(e.heap) = {d}
          /\ Careful => \A i \in 0 .. s.size - 1 : e.heap[d][i] \in Byte
      BY <1>4, <2>2, <2>5 DEF BufferOK, OwnsOK, WrittenOK
    <3>2. \A i \in 0 .. n - 1 : buf[i] \in Byte /\ buf[i] \in Cell
      BY DEF Buffer, Cell
    <3>3. new \in [0 .. c - 1 -> Cell]
      BY <1>1, <2>2, <3>1, <3>2, OverlayInside
    <3>4. ASSUME Careful, NEW i \in 0 .. t.size - 1
          PROVE  new[i] \in Byte
      <4>1. i \in DOMAIN e.heap[d] \cup w .. w + n - 1
        <5>1. DOMAIN e.heap[d] = 0 .. c - 1
          BY <3>1
        <5>2. t.size \in Nat /\ t.size <= c
          BY <1>1, <1>2, <2>2, <2>3
        <5> QED BY <2>2, <5>1, <5>2
      <4>2. new[i] = IF i \in w .. w + n - 1 THEN buf[i - w] ELSE e.heap[d][i]
        BY <4>1 DEF Overlay
      <4>3. CASE i \in w .. w + n - 1
        <5>1. i - w \in 0 .. n - 1
          BY <1>1, <2>2, <4>3
        <5> QED BY <3>2, <4>2, <4>3, <5>1
      <4>4. CASE i \notin w .. w + n - 1
        <5>1. i \in 0 .. s.size - 1
          BY <1>1, <1>2, <2>2, <2>3, <4>4
        <5> QED BY <3>1, <3>4, <4>2, <4>4, <5>1
      <4> QED BY <4>3, <4>4
    <3> HIDE DEF new
    <3>5. o.heap = [e.heap EXCEPT ![d] = new]
      BY <2>1, <2>5
    <3>6. new \in Image /\ DOMAIN new # {}
      BY <3>1, <3>3, c \in 0 .. MaxAlloc, ImageIntro, NonEmpty
    <3>7. o.heap \in [Addr -> Image] /\ o.heap[d] = new
      BY <2>2, <2>5, <3>5, <3>6
    <3>8. Allocated(o.heap) = {d}
      BY <2>2, <2>5, <3>1, <3>5, <3>6 DEF Allocated
    <3>9. d # NULL /\ (d = MAPPED <=> e.sect.mode = "VIEW")
          /\ (e.sect.is_mapped <=> e.sect.mode = "VIEW")
      BY <1>4, <2>5 DEF BufferOK, OwnsOK
    <3> HIDE DEF d, c
    <3>10. OwnsOK(t, o.heap)
      BY <2>3, <2>5, <3>1, <3>3, <3>7, <3>8, <3>9 DEF OwnsOK
    <3>11. WrittenOK(t, o.heap)
      BY <2>3, <3>4, <3>7 DEF WrittenOK
    <3> QED BY <2>1, <2>3, <2>4, <3>7, <3>10, <3>11, <1>4 DEF BufferOK
  <2>6. CASE d \notin Addr
    <3>1. o.heap = e.heap
      BY <2>1, <2>6
    <3>2. OwnsOK(t, e.heap)
      BY <1>4, <2>3, <2>6 DEF BufferOK, OwnsOK
    <3>3. WrittenOK(t, e.heap)
      BY <2>3, <2>6 DEF WrittenOK
    <3> QED BY <2>1, <2>2, <2>3, <2>4, <3>1, <3>2, <3>3, <1>4 DEF BufferOK
  <2> QED BY <2>5, <2>6
<1> QED BY <1>5, <1>6

(***************************************************************************)
(* The inductive invariant                                                 *)
(***************************************************************************)
FileOK ==
  /\ file.len \in 0 .. MaxFile
  /\ file = [len |-> file.len, bytes |-> file.bytes]
  /\ file.bytes \in [0 .. file.len - 1 -> Cell]
  /\ pos \in Size
  /\ Within => pos <= file.len
  /\ Careful => \A i \in 0 .. file.len - 1 : file.bytes[i] \in Byte

OpenOK == phase = "open" => BufferOK(sect, heap)

ShutOK ==
  phase # "open" =>
    /\ sect \in Section
    /\ heap \in [Addr -> Image]
    /\ Allocated(heap) = {}
    /\ sect.data = NULL

MapsOK ==
  /\ maps = IF sect.data = MAPPED THEN {Mapping(sect)} ELSE {}
  /\ Careful /\ sect.data = MAPPED =>
       /\ sect.map_start + sect.map_off + sect.size <= file.len
       /\ sect.map_size = sect.map_off + sect.size

Errors == {"GOOD", "NOMEM", "IO", "INVAL", "BADSTATE"}

StateOK == phase \in {"raw", "open", "closed"} /\ ret.err \in Errors

IInv == FileOK /\ OpenOK /\ ShutOK /\ MapsOK /\ StateOK

(* The initial state satisfies it. *)
LEMMA InitIInv == Init => IInv
<1> SUFFICES ASSUME Init PROVE IInv
  OBVIOUS
<1>1. FileOK
  <2>1. PICK n \in 0 .. MaxFile : file \in [len : {n}, bytes : Buffer(n)]
    BY DEF Init, Files
  <2>2. file.len = n /\ file.bytes \in Buffer(n)
        /\ file = [len |-> file.len, bytes |-> file.bytes]
    BY <2>1
  <2>3. \A i \in 0 .. file.len - 1 : file.bytes[i] \in Byte
    BY <2>2 DEF Buffer
  <2>4. file.bytes \in [0 .. file.len - 1 -> Cell]
    BY <2>2, <2>3 DEF Buffer, Cell
  <2> QED BY <2>2, <2>3, <2>4 DEF FileOK, Init, Size
<1>2. OpenOK /\ StateOK
  BY DEF Init, OpenOK, StateOK, Errors, Done, Result
<1>3. ShutOK
  <2>1. sect \in Section /\ sect.data = NULL
    BY DEF Init, ZeroSection, Section, Size, Mode
  <2>2. heap \in [Addr -> Image] /\ Allocated(heap) = {}
    BY NoImageFacts DEF Init, Allocated
  <2> QED BY <2>1, <2>2 DEF ShutOK
<1>4. MapsOK
  BY DEF Init, MapsOK, ZeroSection
<1> QED BY <1>1, <1>2, <1>3, <1>4 DEF IInv

(* A call on an open section that ends with one of a set of sound          *)
(* outcomes keeps the invariant.                                           *)
LEMMA TakeStep ==
  ASSUME IInv, phase = "open", NEW op, NEW n, NEW outcomes,
         \A o \in outcomes :
           /\ BufferOK(o.sect, o.heap)
           /\ o.err \in {"GOOD", "NOMEM", "BADSTATE"}
           /\ sect.mode # "VIEW" => o.sect.mode # "VIEW"
           /\ sect.mode = "VIEW" => o.sect = sect,
         Take(op, n, outcomes)
  PROVE  IInv'
<1>1. PICK o \in outcomes :
        /\ sect' = o.sect
        /\ heap' = o.heap
        /\ ret' = Result(op, o.err, IF o.err = "GOOD" THEN n ELSE 0, NoBytes)
  BY DEF Take
<1>2. UNCHANGED <<maps, file, pos, phase>>
  BY DEF Take
<1>3. BufferOK(sect, heap) /\ BufferOK(sect', heap')
  BY <1>1 DEF IInv, OpenOK
<1>4. OpenOK' /\ ShutOK' /\ StateOK'
  <2>1. ret'.err = o.err
    BY <1>1 DEF Result
  <2> QED BY <1>1, <1>2, <1>3, <2>1 DEF IInv, OpenOK, ShutOK, StateOK, Errors
<1>5. MapsOK'
  <2>1. CASE sect.mode = "VIEW"
    BY <1>1, <1>2, <2>1 DEF IInv, MapsOK, Mapping
  <2>2. CASE sect.mode # "VIEW"
    <3>1. sect.data # MAPPED /\ sect'.data # MAPPED
      BY <1>1, <1>3, <2>2 DEF BufferOK, OwnsOK
    <3> QED BY <1>2, <3>1 DEF IInv, MapsOK
  <2> QED BY <2>1, <2>2
<1>6. FileOK'
  BY <1>2 DEF IInv, FileOK
<1> QED BY <1>4, <1>5, <1>6 DEF IInv

(* write and putstr keep it: they store inside the buffer they ensured. *)
LEMMA StoreStep ==
  ASSUME IInv, NEW n \in 0 .. MaxBuf, NEW buf \in Buffer(n), StoreCall(n, buf)
  PROVE  IInv'
<1> DEFINE outs == IF sect.mode = "VIEW" THEN {Outcome("BADSTATE", sect, heap)}
                   ELSE WriteOutcomes(sect, heap, n, buf)
<1>1. phase = "open" /\ Take("write", n, outs) /\ BufferOK(sect, heap)
  BY DEF StoreCall, IInv, OpenOK
<1>2. ASSUME NEW o \in outs
      PROVE  /\ BufferOK(o.sect, o.heap)
             /\ o.err \in {"GOOD", "NOMEM", "BADSTATE"}
             /\ sect.mode # "VIEW" => o.sect.mode # "VIEW"
             /\ sect.mode = "VIEW" => o.sect = sect
  <2>1. CASE sect.mode = "VIEW"
    BY <1>1, <2>1 DEF Outcome
  <2>2. CASE sect.mode # "VIEW"
    BY <1>1, <2>2, WriteFacts
  <2> QED BY <2>1, <2>2
<1> HIDE DEF outs
<1> QED BY <1>1, <1>2, TakeStep

(* ensure_capacity keeps it: growing moves all of the content. *)
LEMMA EnsureStep ==
  ASSUME IInv, NEW min \in 0 .. MaxAlloc + 1, EnsureCapacity(min)
  PROVE  IInv'
<1>1. /\ phase = "open" /\ BufferOK(sect, heap)
      /\ Take("ensure_capacity", 0, EnsureOutcomes(sect, heap, min))
  BY DEF EnsureCapacity, IInv, OpenOK
<1>2. min \in Nat /\ min < SizeMod
  OBVIOUS
<1>3. \A o \in EnsureOutcomes(sect, heap, min) :
        /\ BufferOK(o.sect, o.heap)
        /\ o.err \in {"GOOD", "NOMEM", "BADSTATE"}
        /\ sect.mode # "VIEW" => o.sect.mode # "VIEW"
        /\ sect.mode = "VIEW" => o.sect = sect
  BY <1>1, <1>2, EnsureFacts
<1> QED BY <1>1, <1>3, TakeStep

(* compact keeps it: the smaller buffer still holds all of the content. *)
LEMMA CompactStep ==
  ASSUME IInv, Compact
  PROVE  IInv'
<1>1. /\ phase = "open" /\ BufferOK(sect, heap)
      /\ Take("compact", 0, CompactOutcomes(sect, heap))
  BY DEF Compact, IInv, OpenOK
<1>2. \A o \in CompactOutcomes(sect, heap) :
        /\ BufferOK(o.sect, o.heap)
        /\ o.err \in {"GOOD", "NOMEM", "BADSTATE"}
        /\ sect.mode # "VIEW" => o.sect.mode # "VIEW"
        /\ sect.mode = "VIEW" => o.sect = sect
  BY <1>1, CompactFacts
<1> QED BY <1>1, <1>2, TakeStep

(* A call that moves cursors within the content of an open section, and    *)
(* nothing else, keeps the invariant.                                      *)
LEMMA CursorStep ==
  ASSUME IInv, phase = "open", NEW r \in Nat, NEW w \in Nat,
         r <= sect.size, w <= sect.size,
         sect' = [sect EXCEPT !.rindex = r, !.windex = w],
         ret'.err \in Errors, UNCHANGED <<heap, maps, file, pos, phase>>
  PROVE  IInv'
<1>1. BufferOK(sect, heap) /\ sect \in Section /\ sect.size \in Size
  BY DEF IInv, OpenOK, BufferOK, Section
<1>2. r \in Size /\ w \in Size
  BY <1>1 DEF Size
<1>3. /\ sect' \in Section
      /\ sect'.rindex = r /\ sect'.windex = w
      /\ sect'.data = sect.data /\ sect'.size = sect.size
      /\ sect'.capacity = sect.capacity /\ sect'.mode = sect.mode
      /\ sect'.is_mapped = sect.is_mapped
      /\ sect'.map_start = sect.map_start /\ sect'.map_off = sect.map_off
      /\ sect'.map_size = sect.map_size
  BY <1>1, <1>2 DEF Section
<1>4. BufferOK(sect', heap')
  BY <1>1, <1>3 DEF BufferOK, CursorsOK, OwnsOK, WrittenOK
<1>5. MapsOK'
  BY <1>3 DEF IInv, MapsOK, Mapping
<1>6. OpenOK' /\ ShutOK' /\ StateOK' /\ FileOK'
  BY <1>4 DEF IInv, OpenOK, ShutOK, StateOK, FileOK
<1> QED BY <1>5, <1>6 DEF IInv

(* The cursors of an open section, as CursorStep wants them. *)
LEMMA OpenCursors ==
  ASSUME IInv, phase = "open"
  PROVE  /\ sect \in Section
         /\ sect.size \in Nat /\ sect.rindex \in Nat /\ sect.windex \in Nat
         /\ sect.rindex <= sect.size /\ sect.windex <= sect.size
         /\ sect.size < SizeMod
BY DEF IInv, OpenOK, BufferOK, CursorsOK, Section, Size

(* Writing back the cursors a section has is no change of them. *)
LEMMA SameCursor ==
  ASSUME NEW s \in Section, NEW r \in Size
  PROVE  /\ [s EXCEPT !.rindex = r] = [s EXCEPT !.rindex = r, !.windex = s.windex]
         /\ [s EXCEPT !.windex = r] = [s EXCEPT !.rindex = s.rindex, !.windex = r]
BY DEF Section

(* No call that only moves cursors or only looks moves a cursor outside.   *)
LEMMA LookStep ==
  ASSUME IInv, NEW p \in Nat,
         \/ Read(p) \/ GetStr(p) \/ Reset \/ SeekRead(p) \/ SeekWrite(p)
  PROVE  IInv'
<1>1. phase = "open"
  BY DEF Read, GetStr, Reset, SeekRead, SeekWrite
<1>2. /\ sect \in Section
      /\ sect.size \in Nat /\ sect.rindex \in Nat /\ sect.windex \in Nat
      /\ sect.rindex <= sect.size /\ sect.windex <= sect.size
      /\ sect.size < SizeMod
  BY <1>1, OpenCursors
<1>3. UNCHANGED <<heap, maps, file, pos, phase>>
  BY DEF Read, GetStr, Reset, SeekRead, SeekWrite
<1>4. ret'.err \in Errors
  BY DEF Read, GetStr, Reset, SeekRead, SeekWrite, Done, Result, Errors
<1>5. CASE Read(p)
  <2> DEFINE readable == Minus(sect.size, sect.rindex)
             count    == IF readable < p THEN readable ELSE p
             r        == Plus(sect.rindex, count)
  <2>1. sect' = [sect EXCEPT !.rindex = r]
    BY <1>5 DEF Read
  <2>2. r \in Nat /\ r <= sect.size /\ r \in Size
    BY <1>2 DEF Minus, Plus, Size
  <2> HIDE DEF r
  <2>3. sect' = [sect EXCEPT !.rindex = r, !.windex = sect.windex]
    BY <1>2, <2>1, <2>2, SameCursor
  <2> QED BY <1>1, <1>2, <1>3, <1>4, <2>2, <2>3, CursorStep
<1>6. CASE GetStr(p) \/ (SeekRead(p) /\ p > sect.size)
           \/ (SeekWrite(p) /\ p > sect.size)
  <2>1. sect' = sect
    BY <1>6 DEF GetStr, SeekRead, SeekWrite
  <2>2. sect' = [sect EXCEPT !.rindex = sect.rindex, !.windex = sect.windex]
    BY <1>2, <2>1 DEF Section
  <2> QED BY <1>1, <1>2, <1>3, <1>4, <2>2, CursorStep
<1>7. CASE Reset
  <2>1. sect' = [sect EXCEPT !.rindex = 0, !.windex = 0]
    BY <1>7 DEF Reset
  <2>2. 0 \in Nat /\ 0 <= sect.size
    BY <1>2
  <2> QED BY <1>1, <1>2, <1>3, <1>4, <2>1, <2>2, CursorStep
<1>8. CASE SeekRead(p) /\ ~(p > sect.size)
  <2>1. p \in Size /\ p <= sect.size
    BY <1>2, <1>8 DEF Size
  <2>2. sect' = [sect EXCEPT !.rindex = p]
    BY <1>8 DEF SeekRead
  <2>3. sect' = [sect EXCEPT !.rindex = p, !.windex = sect.windex]
    BY <1>2, <2>1, <2>2, SameCursor
  <2> QED BY <1>1, <1>2, <1>3, <1>4, <2>1, <2>3, CursorStep
<1>9. CASE SeekWrite(p) /\ ~(p > sect.size)
  <2>1. p \in Size /\ p <= sect.size
    BY <1>2, <1>9 DEF Size
  <2>2. sect' = [sect EXCEPT !.windex = p]
    BY <1>9 DEF SeekWrite
  <2>3. sect' = [sect EXCEPT !.rindex = sect.rindex, !.windex = p]
    BY <1>2, <2>1, <2>2, SameCursor
  <2> QED BY <1>1, <1>2, <1>3, <1>4, <2>1, <2>3, CursorStep
<1> QED BY <1>5, <1>6, <1>7, <1>8, <1>9

(* init builds a sound section on a heap without one. *)
LEMMA InitStep ==
  ASSUME IInv, NEW c \in 0 .. MaxAlloc, InitSection(c)
  PROVE  IInv'
<1>1. /\ phase # "open" /\ phase' = "open" /\ UNCHANGED <<maps, file, pos>>
      /\ heap \in [Addr -> Image] /\ Allocated(heap) = {} /\ sect.data = NULL
  BY DEF InitSection, IInv, ShutOK
<1>2. PICK o \in InitOutcomes(heap, c) :
        sect' = o.sect /\ heap' = o.heap /\ ret' = Done("init", o.err)
  BY DEF InitSection
<1>3. BufferOK(sect', heap') /\ sect'.mode = "CREATE" /\ o.err \in {"GOOD", "NOMEM"}
  BY <1>1, <1>2, InitFacts
<1>4. MapsOK'
  <2>1. maps = {}
    BY <1>1 DEF IInv, MapsOK
  <2>2. sect'.data # MAPPED
    BY <1>3 DEF BufferOK, OwnsOK
  <2> QED BY <1>1, <2>1, <2>2 DEF MapsOK
<1>5. OpenOK' /\ ShutOK' /\ FileOK'
  BY <1>1, <1>3 DEF IInv, OpenOK, ShutOK, FileOK
<1>6. StateOK'
  BY <1>1, <1>2, <1>3 DEF StateOK, Errors, Done, Result
<1> QED BY <1>4, <1>5, <1>6 DEF IInv

(* cleanup releases what the section owns, and only that. *)
LEMMA CleanupStep ==
  ASSUME IInv, Cleanup
  PROVE  IInv'
<1> DEFINE mapped == sect.data # NULL /\ sect.is_mapped
<1>1. /\ phase' = "closed" /\ UNCHANGED <<file, pos>>
      /\ heap' = IF sect.data \in Addr /\ sect.mode # "VIEW"
                   THEN Free(heap, sect.data) ELSE heap
      /\ maps' = IF mapped THEN maps \ {Mapping(sect)} ELSE maps
      /\ sect' = [sect EXCEPT !.data = NULL, !.is_mapped = FALSE,
                              !.map_start = IF mapped THEN 0 ELSE @,
                              !.map_size = IF mapped THEN 0 ELSE @]
      /\ ret' = Done("cleanup", "GOOD")
  BY DEF Cleanup, Unmapped
<1>2. /\ sect \in Section /\ heap \in [Addr -> Image]
      /\ sect.data \in Addr => sect.mode # "VIEW"
      /\ Allocated(heap) = IF sect.data \in Addr THEN {sect.data} ELSE {}
      /\ sect.data = MAPPED => mapped
  BY DEF IInv, OpenOK, ShutOK, BufferOK, OwnsOK
<1>3. heap' \in [Addr -> Image] /\ Allocated(heap') = {}
  BY <1>1, <1>2, FreeFacts
<1>4. sect' \in Section /\ sect'.data = NULL
  BY <1>1, <1>2, 0 \in Size DEF Section, Size
<1>5. maps' = {}
  BY <1>1, <1>2 DEF IInv, MapsOK
<1>6. OpenOK' /\ ShutOK' /\ MapsOK'
  BY <1>1, <1>3, <1>4, <1>5 DEF OpenOK, ShutOK, MapsOK
<1>7. StateOK' /\ FileOK'
  BY <1>1 DEF IInv, StateOK, FileOK, Errors, Done, Result
<1> QED BY <1>6, <1>7 DEF IInv

(* load fills a fresh section, or cleans it up again. *)
LEMMA LoadStep ==
  ASSUME IInv, NEW c \in 0 .. MaxAlloc, Load(c)
  PROVE  IInv'
<1>1. /\ phase # "open" /\ UNCHANGED <<maps, file>> /\ maps = {}
      /\ heap \in [Addr -> Image] /\ Allocated(heap) = {} /\ FileOK
  BY DEF Load, IInv, ShutOK, MapsOK
<1>2. PICK o \in InitOutcomes(heap, c), readFails \in BOOLEAN :
       IF o.err # "GOOD" THEN
         /\ sect' = o.sect
         /\ heap' = o.heap
         /\ phase' = "closed"
         /\ ret' = Done("load", o.err)
         /\ UNCHANGED pos
       ELSE IF readFails THEN
         /\ sect' = [o.sect EXCEPT !.mode = "MODIFY", !.data = NULL]
         /\ heap' = Free(o.heap, o.sect.data)
         /\ phase' = "closed"
         /\ ret' = Done("load", "IO")
         /\ UNCHANGED pos
       ELSE
         \E n \in ReadCounts(o.sect.capacity) :
         LET buf == [i \in 0 .. n - 1 |-> file.bytes[pos + i]]
         IN  /\ sect' = [o.sect EXCEPT !.mode = "MODIFY", !.size = n,
                                       !.rindex = 0, !.windex = n]
             /\ heap' = [o.heap EXCEPT ![o.sect.data] = Overlay(@, 0, n, buf)]
             /\ phase' = "open"
             /\ ret' = Done("load", "GOOD")
             /\ pos' = pos + n
  BY DEF Load
<1>3. /\ BufferOK(o.sect, o.heap)
      /\ o.sect.mode = "CREATE"
      /\ \/ o.err = "NOMEM" /\ o.heap = heap /\ o.sect = ZeroSection
         \/ o.err = "GOOD" /\ o.sect.data \in Addr
  BY <1>1, <1>2, InitFacts
<1>4. CASE o.err # "GOOD"
  <2>1. /\ sect' \in Section /\ sect'.data = NULL /\ heap' = heap
        /\ phase' = "closed" /\ ret' = Done("load", "NOMEM") /\ UNCHANGED pos
    BY <1>2, <1>3, <1>4 DEF BufferOK, ZeroSection
  <2>2. ShutOK' /\ OpenOK' /\ StateOK'
    BY <1>1, <2>1 DEF ShutOK, OpenOK, StateOK, Errors, Done, Result
  <2>3. MapsOK' /\ FileOK'
    BY <1>1, <2>1 DEF MapsOK, FileOK
  <2> QED BY <2>2, <2>3 DEF IInv
<1>5. CASE o.err = "GOOD" /\ readFails
  <2>1. /\ sect' = [o.sect EXCEPT !.mode = "MODIFY", !.data = NULL]
        /\ heap' = Free(o.heap, o.sect.data)
        /\ phase' = "closed" /\ ret' = Done("load", "IO") /\ UNCHANGED pos
    BY <1>2, <1>5
  <2>2. /\ o.sect \in Section /\ o.heap \in [Addr -> Image]
        /\ Allocated(o.heap) = {o.sect.data} /\ o.sect.data \in Addr
    BY <1>3, <1>5 DEF BufferOK, OwnsOK
  <2>3. sect' \in Section /\ sect'.data = NULL
    BY <2>1, <2>2 DEF Section, Mode
  <2>4. heap' \in [Addr -> Image] /\ Allocated(heap') = {}
    BY <2>1, <2>2, FreeFacts
  <2>5. ShutOK' /\ OpenOK' /\ StateOK'
    BY <2>1, <2>3, <2>4 DEF ShutOK, OpenOK, StateOK, Errors, Done, Result
  <2>6. MapsOK' /\ FileOK'
    BY <1>1, <2>1, <2>3 DEF MapsOK, FileOK
  <2> QED BY <2>5, <2>6 DEF IInv
<1>6. CASE o.err = "GOOD" /\ ~readFails
  <2>0. PICK n \in ReadCounts(o.sect.capacity) :
          LET buf == [i \in 0 .. n - 1 |-> file.bytes[pos + i]]
          IN  /\ sect' = [o.sect EXCEPT !.mode = "MODIFY", !.size = n,
                                        !.rindex = 0, !.windex = n]
              /\ heap' = [o.heap EXCEPT ![o.sect.data] = Overlay(@, 0, n, buf)]
              /\ phase' = "open"
              /\ ret' = Done("load", "GOOD")
              /\ pos' = pos + n
    BY <1>2, <1>6
  <2> DEFINE buf == [i \in 0 .. n - 1 |-> file.bytes[pos + i]]
             d == o.sect.data
             c2 == o.sect.capacity
             new == Overlay(o.heap[d], 0, n, buf)
  <2>1. /\ sect' = [o.sect EXCEPT !.mode = "MODIFY", !.size = n,
                                  !.rindex = 0, !.windex = n]
        /\ heap' = [o.heap EXCEPT ![d] = new]
        /\ phase' = "open" /\ ret' = Done("load", "GOOD") /\ pos' = pos + n
    BY <2>0
  <2>2. /\ o.sect \in Section /\ o.heap \in [Addr -> Image]
        /\ Allocated(o.heap) = {d} /\ d \in Addr /\ d # NULL /\ d # MAPPED
        /\ c2 \in 1 .. MaxAlloc /\ o.heap[d] \in [0 .. c2 - 1 -> Cell]
        /\ ~o.sect.is_mapped
    BY <1>3, <1>6 DEF BufferOK, OwnsOK
  <2>3. /\ n \in Nat /\ n <= c2 /\ (n > 0 => pos + n <= file.len)
        /\ pos \in Nat /\ file.len \in Nat /\ file.len < SizeMod
    <3>1. pos \in Nat /\ file.len \in Nat /\ file.len < SizeMod
      BY <1>1 DEF FileOK, Size
    <3>2. c2 \in Nat
      BY <2>2
    <3>3. n \in ReadCounts(c2)
      BY <2>0
    <3> QED BY <3>1, <3>2, <3>3 DEF ReadCounts, Left
  <2> HIDE DEF d, c2
  <2>4. \A i \in 0 .. n - 1 : buf[i] = file.bytes[pos + i] /\ pos + i \in 0 .. file.len - 1
    BY <2>3
  <2>5. \A i \in 0 .. n - 1 : buf[i] \in Cell /\ (Careful => buf[i] \in Byte)
    BY <1>1, <2>4 DEF FileOK
  <2> HIDE DEF buf
  <2>6. new \in [0 .. c2 - 1 -> Cell]
    <3>1. 0 \in Nat /\ c2 \in Nat /\ 0 + n <= c2
      BY <2>2, <2>3
    <3> QED BY <2>2, <2>3, <2>5, <3>1, OverlayInside
  <2>7. ASSUME Careful, NEW i \in 0 .. n - 1
        PROVE  new[i] \in Byte
    BY <2>3, <2>5, <2>7, OverlayStart
  <2> HIDE DEF new
  <2>8. new \in Image /\ DOMAIN new # {}
    BY <2>2, <2>6, c2 \in 0 .. MaxAlloc, ImageIntro, NonEmpty
  <2>9. heap' \in [Addr -> Image] /\ heap'[d] = new
    BY <2>1, <2>2, <2>8
  <2>10. Allocated(heap') = {d}
    BY <2>1, <2>2, <2>8 DEF Allocated
  <2>11. n \in Size /\ 0 \in Size
    BY <2>2, <2>3 DEF Size
  <2>12. /\ sect' \in Section
         /\ sect'.data = d /\ sect'.capacity = c2 /\ sect'.size = n
         /\ sect'.rindex = 0 /\ sect'.windex = n /\ sect'.mode = "MODIFY"
         /\ ~sect'.is_mapped
    BY <2>1, <2>2, <2>11 DEF Section, Mode, d, c2
  <2>13. BufferOK(sect', heap')
    BY <2>2, <2>3, <2>6, <2>7, <2>9, <2>10, <2>12
       DEF BufferOK, CursorsOK, OwnsOK, WrittenOK
  <2>14. FileOK'
    <3>1. pos' \in Size /\ (Within => pos' <= file.len)
      BY <1>1, <2>1, <2>3 DEF FileOK, Size
    <3> QED BY <1>1, <3>1 DEF FileOK
  <2>15. OpenOK' /\ ShutOK' /\ MapsOK' /\ StateOK'
    BY <1>1, <2>1, <2>2, <2>12, <2>13
       DEF OpenOK, ShutOK, MapsOK, StateOK, Errors, Done, Result
  <2> QED BY <2>14, <2>15 DEF IInv
<1> QED BY <1>4, <1>5, <1>6

(* What is left of a division is at most what was divided. *)
LEMMA ModFacts ==
  ASSUME NEW a \in Nat, NEW b \in Nat \ {0}
  PROVE  a % b \in Nat /\ a % b <= a
OBVIOUS

(* loadv maps the page that holds the position, and views from there on. *)
LEMMA LoadViewStep ==
  ASSUME IInv, NEW c \in 0 .. MaxAlloc, LoadView(c)
  PROVE  IInv'
<1> DEFINE remaining == Minus(file.len, pos)
           size      == ViewSize(c)
           off       == pos % PageSize
           start     == pos - off
           msize     == Plus(size, off)
<1>1. /\ phase # "open" /\ UNCHANGED <<heap, file, pos>> /\ maps = {}
      /\ heap \in [Addr -> Image] /\ Allocated(heap) = {} /\ FileOK
  BY DEF LoadView, IInv, ShutOK, MapsOK
<1>2. CASE ret' = Done("loadv", "IO") /\ UNCHANGED <<sect, maps, phase>>
  BY <1>1, <1>2 DEF IInv, FileOK, OpenOK, ShutOK, MapsOK, StateOK, Errors,
                    Done, Result, Mapping
<1>3. CASE /\ sect' = [data |-> MAPPED, capacity |-> size, size |-> size,
                       rindex |-> 0, windex |-> 0, mode |-> "VIEW",
                       is_mapped |-> TRUE,
                       map_start |-> start, map_off |-> off, map_size |-> msize]
           /\ maps' = maps \cup {[start |-> start, size |-> msize]}
           /\ phase' = "open"
           /\ ret' = Done("loadv", "GOOD")
  <2>1. pos \in Size /\ pos \in Nat /\ file.len \in Nat /\ file.len < SizeMod
        /\ (Careful => pos <= file.len)
    <3>1. Careful => Within
      BY DEF LoadView, Called, Careful
    <3> QED BY <1>1, <3>1 DEF FileOK, Size
  <2>2. off \in Nat /\ off <= pos
    BY <2>1, ModFacts
  <2> HIDE DEF off
  <2>3. remaining \in Size /\ (Careful => remaining = file.len - pos)
    BY <2>1 DEF Minus, Size
  <2>a. size = IF c > 0 /\ c < remaining THEN c ELSE remaining
    BY DEF ViewSize
  <2> HIDE DEF remaining
  <2> HIDE DEF size
  <2>4. size \in Size /\ size <= remaining
    BY <2>3, <2>a DEF Size
  <2>5. off \in Size /\ start \in Size /\ start + off = pos
    BY <2>1, <2>2 DEF Size
  <2>6. msize \in Size /\ (Careful => msize = off + size)
    BY <2>1, <2>2, <2>3, <2>4, <2>5 DEF Plus, Size
  <2> HIDE DEF start, msize
  <2>7. sect' \in Section
    BY <1>3, <2>4, <2>5, <2>6 DEF Section, Mode, Size
  <2>8. BufferOK(sect', heap')
    BY <1>1, <1>3, <2>4, <2>7
       DEF BufferOK, CursorsOK, OwnsOK, WrittenOK, Size
  <2>9. MapsOK'
    <3>1. maps' = {Mapping(sect')} /\ sect'.data = MAPPED
      BY <1>1, <1>3 DEF Mapping
    <3>2. ASSUME Careful
          PROVE  /\ sect'.map_start + sect'.map_off + sect'.size <= file.len
                 /\ sect'.map_size = sect'.map_off + sect'.size
      BY <1>3, <2>1, <2>3, <2>4, <2>5, <2>6, <3>2 DEF Size
    <3> QED BY <1>1, <3>1, <3>2 DEF MapsOK
  <2>10. OpenOK' /\ ShutOK' /\ FileOK' /\ StateOK'
    BY <1>1, <1>3, <2>8 DEF OpenOK, ShutOK, FileOK, StateOK, Errors, Done, Result
  <2> QED BY <2>9, <2>10 DEF IInv
<1> QED BY <1>2, <1>3 DEF LoadView

(* Rounding the file up to whole pages does not shorten it. *)
LEMMA LastPageFacts == FileOK => LastPageEnd \in Nat /\ LastPageEnd >= file.len
<1> SUFFICES ASSUME FileOK PROVE LastPageEnd \in Nat /\ LastPageEnd >= file.len
  OBVIOUS
<1>1. file.len \in Nat
  BY DEF FileOK
<1>2. file.len % PageSize \in 0 .. PageSize - 1
  BY <1>1
<1> QED BY <1>1, <1>2 DEF LastPageEnd

(* Every byte of the content is a cell, and a byte the client or a file    *)
(* supplied if the client never moves the file position past the end.      *)
LEMMA ContentCells ==
  ASSUME IInv, phase = "open", sect.data # NULL, NEW i \in 0 .. sect.size - 1
  PROVE  CellAt(sect, i) \in Cell /\ (Careful => CellAt(sect, i) \in Byte)
<1>1. /\ sect \in Section /\ sect.size \in Nat /\ sect.capacity \in Nat
      /\ sect.size <= sect.capacity /\ i \in Nat /\ i < sect.size
      /\ sect.map_start \in Nat /\ sect.map_off \in Nat
  BY DEF IInv, OpenOK, BufferOK, Section, Size, CursorsOK
<1>2. CASE sect.data \in Addr
  <2>1. /\ heap[sect.data] \in [0 .. sect.capacity - 1 -> Cell]
        /\ Careful => \A j \in 0 .. sect.size - 1 : heap[sect.data][j] \in Byte
    BY <1>2 DEF IInv, OpenOK, BufferOK, OwnsOK, WrittenOK
  <2>2. CellAt(sect, i) = heap[sect.data][i]
    BY <1>2 DEF CellAt
  <2> QED BY <1>1, <2>1, <2>2
<1>3. CASE sect.data = MAPPED
  <2> DEFINE j == sect.map_off + i
             at == sect.map_start + j
  <2>1. /\ FileOK /\ file.len \in Nat
        /\ file.bytes \in [0 .. file.len - 1 -> Cell]
        /\ Careful => \A x \in 0 .. file.len - 1 : file.bytes[x] \in Byte
    BY DEF IInv, FileOK
  <2>2. CellAt(sect, i) = IF j >= sect.map_size \/ at >= LastPageEnd THEN Junk
                          ELSE IF at < file.len THEN file.bytes[at] ELSE Nul
    BY <1>3 DEF CellAt, MappedCell
  <2>3. at \in Nat /\ (at < file.len => file.bytes[at] \in Cell)
    <3>1. at \in Nat
      BY <1>1
    <3> HIDE DEF at
    <3>2. at < file.len => at \in 0 .. file.len - 1
      BY <2>1, <3>1
    <3> QED BY <2>1, <3>1, <3>2
  <2>4. CellAt(sect, i) \in Cell
    BY <2>2, <2>3 DEF Cell
  <2>5. ASSUME Careful PROVE CellAt(sect, i) \in Byte
    <3>1. /\ sect.map_start + sect.map_off + sect.size <= file.len
          /\ sect.map_size = sect.map_off + sect.size
      BY <1>3, <2>5 DEF IInv, MapsOK
    <3>2. at < file.len /\ j < sect.map_size /\ j \in Nat
      BY <1>1, <2>1, <3>1
    <3>3. ~(j >= sect.map_size) /\ ~(at >= LastPageEnd)
      <4>1. sect.map_size \in Nat /\ LastPageEnd \in Nat /\ LastPageEnd >= file.len
        BY <1>1, <2>1, <3>1, LastPageFacts
      <4> QED BY <2>1, <2>3, <3>2, <4>1
    <3>4. CellAt(sect, i) = file.bytes[at] /\ at \in 0 .. file.len - 1
      BY <2>1, <2>2, <2>3, <3>2, <3>3
    <3> QED BY <2>1, <2>5, <3>4
  <2> QED BY <2>4, <2>5
<1> QED BY <1>1, <1>2, <1>3 DEF Section

(* serialize writes content to the file and leaves the section alone. *)
LEMMA SerializeStep ==
  ASSUME IInv, Serialize
  PROVE  IInv'
<1>1. phase = "open" /\ UNCHANGED <<sect, heap, maps, phase>>
      /\ ret'.err \in Errors
  BY DEF Serialize, Done, Result, Errors
<1>2. OpenOK' /\ ShutOK' /\ StateOK'
  BY <1>1 DEF IInv, OpenOK, ShutOK, StateOK
<1>3. CASE UNCHANGED <<file, pos>>
  BY <1>1, <1>2, <1>3 DEF IInv, FileOK, MapsOK, Mapping
<1>4. ASSUME sect.data # NULL, NEW k \in 1 .. MaxFile, k <= sect.size,
             pos + k <= MaxFile, file' = Written(k), pos' = pos + k
      PROVE  IInv'
  <2> DEFINE end == pos + k
             len == IF end > file.len THEN end ELSE file.len
             f(i) == IF i \in pos .. end - 1 THEN CellAt(sect, i - pos)
                     ELSE IF i < file.len THEN file.bytes[i] ELSE Nul
  <2>1. /\ pos \in Nat /\ file.len \in 0 .. MaxFile /\ k \in Nat
        /\ sect.size \in Nat
        /\ file.bytes \in [0 .. file.len - 1 -> Cell]
        /\ Within => pos <= file.len
        /\ Careful => \A i \in 0 .. file.len - 1 : file.bytes[i] \in Byte
    <3>1. sect.size \in Nat
      BY <1>1 DEF IInv, OpenOK, BufferOK, Section, Size
    <3> QED BY <3>1 DEF IInv, FileOK, Size
  <2>2. file' = [len |-> len, bytes |-> [i \in 0 .. len - 1 |-> f(i)]]
    BY <1>4 DEF Written
  <2>3. len \in 0 .. MaxFile /\ end <= len /\ file.len <= len
    BY <1>4, <2>1
  <2> HIDE DEF len
  <2>4. ASSUME NEW i \in 0 .. len - 1
        PROVE  f(i) \in Cell /\ (Careful => f(i) \in Byte)
    <3>1. CASE i \in pos .. end - 1
      <4>1. i - pos \in 0 .. sect.size - 1
        BY <1>4, <2>1, <3>1
      <4> QED BY <1>1, <1>4, <3>1, <4>1, ContentCells
    <3>2. CASE i \notin pos .. end - 1 /\ i < file.len
      <4>1. i \in 0 .. file.len - 1
        BY <2>1, <3>2
      <4> QED BY <2>1, <3>2, <4>1
    <3>3. CASE i \notin pos .. end - 1 /\ ~(i < file.len)
      BY <3>3 DEF Cell
    <3> QED BY <3>1, <3>2, <3>3
  <2> HIDE DEF f
  <2>5. FileOK'
    <3>1. file'.len = len /\ file'.bytes = [i \in 0 .. len - 1 |-> f(i)]
          /\ file' = [len |-> file'.len, bytes |-> file'.bytes]
      BY <2>2
    <3>2. pos' \in Size /\ pos' <= len
      BY <1>4, <2>1, <2>3 DEF Size
    <3> QED BY <2>3, <2>4, <3>1, <3>2 DEF FileOK
  <2>6. MapsOK'
    <3>1. file'.len = len
      BY <2>2
    <3>2. ASSUME Careful, sect.data = MAPPED
          PROVE  sect.map_start + sect.map_off + sect.size <= len
      <4>1. sect.map_start + sect.map_off + sect.size <= file.len
        BY <3>2 DEF IInv, MapsOK
      <4>2. sect.map_start + sect.map_off + sect.size \in Nat
        BY <1>1 DEF IInv, OpenOK, BufferOK, Section, Size
      <4> QED BY <2>1, <2>3, <4>1, <4>2
    <3> QED BY <1>1, <3>1, <3>2 DEF IInv, MapsOK, Mapping
  <2> QED BY <1>2, <2>5, <2>6 DEF IInv
<1> QED BY <1>3, <1>4 DEF Serialize

(* The client's own move of the file position. *)
LEMMA ClientSeekStep ==
  ASSUME IInv, NEW p \in 0 .. MaxPos, ClientSeek(p)
  PROVE  IInv'
<1>1. /\ UNCHANGED <<sect, heap, maps, file, phase>> /\ pos' = p
      /\ ret'.err \in Errors /\ (Within => p <= file.len)
  BY DEF ClientSeek, Done, Result, Errors, Within, Called
<1>2. FileOK'
  <2>1. p \in Size
    BY DEF Size
  <2> QED BY <1>1, <2>1 DEF IInv, FileOK
<1> QED BY <1>1, <1>2 DEF IInv, OpenOK, ShutOK, MapsOK, StateOK, Mapping

(* Every step keeps the invariant. *)
LEMMA StepIInv == IInv /\ [Next]_vars => IInv'
<1> SUFFICES ASSUME IInv, [Next]_vars PROVE IInv'
  OBVIOUS
<1>1. CASE Building
  BY <1>1, InitStep, LoadStep, LoadViewStep, CleanupStep DEF Building
<1>2. CASE Using
  <2>1. ASSUME NEW n \in 0 .. MaxBuf, NEW buf \in Buffer(n),
               Write(n, buf) \/ PutStr(n, buf)
        PROVE  IInv'
    BY <2>1, StoreStep DEF Write, PutStr
  <2>2. ASSUME NEW n \in 0 .. MaxBuf, Read(n)
        PROVE  IInv'
    BY <2>2, LookStep
  <2>3. ASSUME NEW p \in 0 .. MaxAlloc + 1,
               EnsureCapacity(p) \/ GetStr(p) \/ SeekRead(p) \/ SeekWrite(p)
        PROVE  IInv'
    BY <2>3, EnsureStep, LookStep
  <2>4. ASSUME Compact \/ Reset PROVE IInv'
    BY <2>4, CompactStep, LookStep, 0 \in Nat
  <2> QED BY <1>2, <2>1, <2>2, <2>3, <2>4 DEF Using
<1>3. CASE Filing
  BY <1>3, SerializeStep, ClientSeekStep DEF Filing
<1>4. CASE UNCHANGED vars
  BY <1>4 DEF vars, IInv, FileOK, OpenOK, ShutOK, MapsOK, Mapping, StateOK
<1> QED BY <1>1, <1>2, <1>3, <1>4 DEF Next

(* It holds in every reachable state. *)
THEOREM Invariance == Spec => []IInv
BY InitIInv, StepIInv, PTL DEF Spec

(***************************************************************************)
(* The theorems                                                            *)
(***************************************************************************)

(* Every variable keeps its type. *)
THEOREM TypeCorrect == Spec => []TypeOK
<1>1. IInv => TypeOK
  <2> SUFFICES ASSUME IInv PROVE TypeOK
    OBVIOUS
  <2>1. sect \in Section /\ heap \in [Addr -> Image]
    BY DEF IInv, OpenOK, ShutOK, BufferOK
  <2>2. maps \subseteq [start : Nat, size : Nat]
    BY <2>1 DEF IInv, MapsOK, Mapping, Section, Size
  <2> QED BY <2>1, <2>2 DEF TypeOK, IInv, FileOK, StateOK, Errors
<1> QED BY <1>1, Invariance, PTL

(* Whatever the client calls, in whatever order and whichever calls fail,  *)
(* the cursors of an open section stay inside its content and the content  *)
(* inside its buffer.                                                      *)
THEOREM CursorSafety == Spec => []CursorsInBounds
<1>1. IInv => CursorsInBounds
  BY DEF IInv, OpenOK, BufferOK, CursorsOK, CursorsInBounds
<1> QED BY <1>1, Invariance, PTL

(* The section always owns exactly the one region its data pointer and     *)
(* capacity describe: nothing leaks, nothing dangles, nothing is overrun.  *)
THEOREM Ownership == Spec => []OwnsExactly
<1>1. IInv => OwnsExactly
  <2> SUFFICES ASSUME IInv PROVE OwnsExactly
    OBVIOUS
  <2>1. CASE phase = "open"
    <3>1. OwnsOK(sect, heap)
      BY <2>1 DEF IInv, OpenOK, BufferOK
    <3>2. sect.data \in Addr => DOMAIN heap[sect.data] = 0 .. sect.capacity - 1
      BY <3>1 DEF OwnsOK
    <3>3. (sect.data = MAPPED) = (sect.mode = "VIEW")
      BY <3>1 DEF OwnsOK
    <3>4. maps = IF sect.data = MAPPED
                   THEN {Mapping(sect)} ELSE {}
      BY DEF IInv, MapsOK
    <3> QED BY <2>1, <3>1, <3>2, <3>3, <3>4 DEF OwnsOK, OwnsExactly
  <2>2. CASE phase # "open"
    BY <2>2 DEF IInv, ShutOK, MapsOK, OwnsExactly
  <2> QED BY <2>1, <2>2
<1> QED BY <1>1, Invariance, PTL

(* If the client never moves the file position past the end of the file,   *)
(* or never asks for a view, a section shows only bytes that the client or *)
(* the file supplied.                                                      *)
THEOREM NoJunk == Careful => (Spec => []NoJunkExposed)
<1>1. Careful /\ IInv => NoJunkExposed
  <2> SUFFICES ASSUME Careful, IInv, phase = "open",
                      NEW i \in 0 .. sect.size - 1
               PROVE  CellAt(sect, i) \in Byte
    BY DEF NoJunkExposed
  <2>1. sect.data # NULL
    BY DEF IInv, OpenOK, BufferOK, OwnsOK, CursorsOK, Section, Size
  <2> QED BY <2>1, ContentCells
<1>2. CASE Careful
  <2>1. IInv => NoJunkExposed
    BY <1>1, <1>2
  <2> QED BY <2>1, Invariance, PTL
<1> QED BY <1>2

(* A memory mapped view lies inside the file, whatever was written to the  *)
(* file since, if the client that asks for views never moves the file      *)
(* position past the end of the file.                                      *)
THEOREM ViewInside == Careful => (Spec => []ViewWithinFile)
<1>1. Careful /\ IInv => ViewWithinFile
  BY DEF IInv, MapsOK, ViewWithinFile
<1>2. CASE Careful
  <2>1. IInv => ViewWithinFile
    BY <1>1, <1>2
  <2> QED BY <2>1, Invariance, PTL
<1> QED BY <1>2

(***************************************************************************)
(* What a call may never do                                                *)
(***************************************************************************)

(* An outcome that is a failure has changed nothing. *)
Steady(s, h, o) == o.err # "GOOD" => o.sect = s /\ o.heap = h

(* resize changes nothing when it fails, and keeps the data pointer unless *)
(* it ends with the capacity asked for.                                    *)
LEMMA ResizeSteady ==
  ASSUME NEW s \in Section, NEW h, NEW c, NEW o \in ResizeOutcomes(s, h, c)
  PROVE  /\ Steady(s, h, o)
         /\ o.sect.data # s.data => o.sect.capacity = c
<1>1. PICK m \in Malloc(h, c) :
        o = IF m.data = NULL
              THEN Outcome("NOMEM", s, h)
              ELSE Outcome("GOOD", Resized(s, m.data, c), Moved(s, m.heap, m.data))
  BY Zenon DEF ResizeOutcomes, Resized
<1>2. CASE m.data = NULL
  BY <1>1, <1>2 DEF Outcome, Steady
<1>3. CASE m.data # NULL
  <2>1. o.err = "GOOD" /\ o.sect = Resized(s, m.data, c)
    BY <1>1, <1>3, Zenon DEF Outcome
  <2>2. Resized(s, m.data, c).capacity = c
    BY DEF Section, Resized
  <2> QED BY <2>1, <2>2 DEF Steady
<1> QED BY <1>2, <1>3

(* ensure_capacity moves the buffer only to grow it. *)
LEMMA EnsureSteady ==
  ASSUME NEW s \in Section, NEW h, NEW min \in Nat,
         NEW o \in EnsureOutcomes(s, h, min)
  PROVE  /\ Steady(s, h, o)
         /\ o.sect.data # s.data => o.sect.capacity > s.capacity
<1>1. CASE s.mode = "VIEW" \/ s.capacity >= min
  BY <1>1 DEF EnsureOutcomes, Outcome, Steady
<1>2. CASE ~(s.mode = "VIEW" \/ s.capacity >= min)
  <2> DEFINE c == Grown(s.capacity, min)
  <2>1. s.capacity \in Nat
    BY DEF Section, Size
  <2>2. c > s.capacity
    BY <1>2, <2>1 DEF Grown, Plus
  <2>3. o \in ResizeOutcomes(s, h, c)
    BY <1>2 DEF EnsureOutcomes
  <2> HIDE DEF c
  <2> QED BY <2>2, <2>3, ResizeSteady
<1> QED BY <1>1, <1>2

(* compact moves the buffer only to shrink it. *)
LEMMA CompactSteady ==
  ASSUME NEW s \in Section, NEW h, s.size <= s.capacity,
         NEW o \in CompactOutcomes(s, h)
  PROVE  /\ Steady(s, h, o)
         /\ o.sect.data # s.data => o.sect.capacity < s.capacity
<1>1. CASE s.mode = "VIEW" \/ s.data = NULL \/ s.size = s.capacity
  BY <1>1 DEF CompactOutcomes, Outcome, Steady
<1>2. CASE ~(s.mode = "VIEW" \/ s.data = NULL \/ s.size = s.capacity)
  <2>1. s.size \in Nat /\ s.capacity \in Nat /\ s.size < s.capacity
    BY <1>2 DEF Section, Size
  <2>2. o \in ResizeOutcomes(s, h, s.size)
    BY <1>2 DEF CompactOutcomes
  <2> QED BY <2>1, <2>2, ResizeSteady
<1> QED BY <1>1, <1>2

(* write moves the buffer only when ensure_capacity does. *)
LEMMA WriteSteady ==
  ASSUME NEW s, NEW h, BufferOK(s, h), NEW n \in 0 .. MaxBuf, NEW buf,
         NEW o \in WriteOutcomes(s, h, n, buf)
  PROVE  /\ Steady(s, h, o)
         /\ o.sect.data # s.data => o.sect.capacity > s.capacity
<1> DEFINE min == Plus(s.windex, n)
           St(e) == Outcome("GOOD",
                      Stored(e.sect, Plus(e.sect.windex, n)),
                      IF e.sect.data \in Addr
                        THEN [e.heap EXCEPT
                                ![e.sect.data] = Overlay(@, e.sect.windex, n, buf)]
                        ELSE e.heap)
<1>1. PICK e \in EnsureOutcomes(s, h, min) :
        o = IF e.err = "GOOD" THEN St(e) ELSE e
  BY Zenon DEF WriteOutcomes, Stored
<1>2. s \in Section /\ min \in Nat /\ min < SizeMod
  <2>1. s \in Section /\ s.windex \in Nat /\ s.windex < SizeMod
    BY DEF BufferOK, Section, Size
  <2>2. n \in Nat /\ n < SizeMod
    OBVIOUS
  <2> QED BY <2>1, <2>2 DEF Plus
<1> HIDE DEF min
<1>3. /\ Steady(s, h, e)
      /\ e.sect.data # s.data => e.sect.capacity > s.capacity
      /\ e.sect \in Section
  BY <1>2, EnsureSteady, EnsureFacts DEF BufferOK
<1>4. CASE e.err # "GOOD"
  BY <1>1, <1>3, <1>4
<1>5. CASE e.err = "GOOD"
  <2>1. o.err = "GOOD" /\ o.sect = Stored(e.sect, Plus(e.sect.windex, n))
    BY <1>1, <1>5, Zenon DEF Outcome
  <2>2. o.sect.data = e.sect.data /\ o.sect.capacity = e.sect.capacity
    BY <1>3, <2>1 DEF Stored, Section
  <2> QED BY <1>3, <2>1, <2>2 DEF Steady
<1> QED BY <1>4, <1>5
(* No step that leaves an open section open changes it when it fails, or   *)
(* moves its buffer except to grow it or, in compact, to shrink it.        *)
KeepsOnFailure == ret'.err # "GOOD" => sect' = sect /\ heap' = heap

KeepsPointer ==
  sect'.data # sect.data =>
    \/ sect'.capacity > sect.capacity
    \/ ret'.op = "compact" /\ sect'.capacity < sect.capacity

(* A call ends as one of its outcomes does. *)
LEMMA TakeKeeps ==
  ASSUME NEW op, NEW n, NEW outcomes, Take(op, n, outcomes),
         \A o \in outcomes :
           /\ Steady(sect, heap, o)
           /\ o.sect.data # sect.data =>
                IF op = "compact" THEN o.sect.capacity < sect.capacity
                                  ELSE o.sect.capacity > sect.capacity
  PROVE  KeepsOnFailure /\ KeepsPointer
<1>1. PICK o \in outcomes :
        /\ sect' = o.sect
        /\ heap' = o.heap
        /\ ret' = Result(op, o.err, IF o.err = "GOOD" THEN n ELSE 0, NoBytes)
  BY Zenon DEF Take
<1>2. ret'.err = o.err /\ ret'.op = op
  BY <1>1, Zenon DEF Result
<1>3. /\ Steady(sect, heap, o)
      /\ o.sect.data # sect.data =>
           IF op = "compact" THEN o.sect.capacity < sect.capacity
                             ELSE o.sect.capacity > sect.capacity
  OBVIOUS
<1>4. KeepsOnFailure
  BY <1>1, <1>2, <1>3 DEF Steady, KeepsOnFailure
<1>5. KeepsPointer
  BY <1>1, <1>2, <1>3 DEF KeepsPointer
<1> QED BY <1>4, <1>5

LEMMA StepKeeps ==
  ASSUME IInv, Next, phase = "open", phase' = "open"
  PROVE  KeepsOnFailure /\ KeepsPointer
<1>1. /\ BufferOK(sect, heap)
      /\ sect \in Section /\ sect.size <= sect.capacity
  BY DEF IInv, OpenOK, BufferOK, CursorsOK
<1>2. ~Building
  BY DEF Building, InitSection, Load, LoadView, Cleanup
<1>3. ASSUME NEW n \in 0 .. MaxBuf, NEW buf \in Buffer(n),
             Write(n, buf) \/ PutStr(n, buf)
      PROVE  KeepsOnFailure /\ KeepsPointer
  <2> DEFINE outs == IF sect.mode = "VIEW"
                       THEN {Outcome("BADSTATE", sect, heap)}
                       ELSE WriteOutcomes(sect, heap, n, buf)
  <2>1. Take("write", n, outs)
    BY <1>3 DEF Write, PutStr, StoreCall
  <2>2. ASSUME NEW o \in outs
        PROVE  /\ Steady(sect, heap, o)
               /\ o.sect.data # sect.data => o.sect.capacity > sect.capacity
    <3>1. CASE sect.mode = "VIEW"
      BY <3>1 DEF Outcome, Steady
    <3>2. CASE sect.mode # "VIEW"
      BY <1>1, <3>2, WriteSteady
    <3> QED BY <3>1, <3>2
  <2> HIDE DEF outs
  <2> QED BY <2>1, <2>2, TakeKeeps
<1>4. ASSUME NEW min \in 0 .. MaxAlloc + 1, EnsureCapacity(min)
      PROVE  KeepsOnFailure /\ KeepsPointer
  <2>1. Take("ensure_capacity", 0, EnsureOutcomes(sect, heap, min))
    BY <1>4 DEF EnsureCapacity
  <2>2. \A o \in EnsureOutcomes(sect, heap, min) :
          /\ Steady(sect, heap, o)
          /\ o.sect.data # sect.data => o.sect.capacity > sect.capacity
    BY <1>1, min \in Nat, EnsureSteady
  <2> QED BY <2>1, <2>2, TakeKeeps
<1>5. ASSUME Compact
      PROVE  KeepsOnFailure /\ KeepsPointer
  <2>1. Take("compact", 0, CompactOutcomes(sect, heap))
    BY <1>5 DEF Compact
  <2>2. \A o \in CompactOutcomes(sect, heap) :
          /\ Steady(sect, heap, o)
          /\ o.sect.data # sect.data => o.sect.capacity < sect.capacity
    BY <1>1, CompactSteady
  <2> QED BY <2>1, <2>2, TakeKeeps
<1>6. ASSUME NEW p, Read(p) \/ GetStr(p) \/ SeekRead(p) \/ SeekWrite(p) \/ Reset
      PROVE  KeepsOnFailure /\ KeepsPointer
  <2>1. heap' = heap /\ sect'.data = sect.data
    BY <1>1, <1>6 DEF Read, GetStr, SeekRead, SeekWrite, Reset, Section
  <2>2. ret'.err # "GOOD" => sect' = sect
    BY <1>6 DEF Read, GetStr, SeekRead, SeekWrite, Reset, Done, Result
  <2> QED BY <2>1, <2>2 DEF KeepsOnFailure, KeepsPointer
<1>7. CASE Using
  BY <1>3, <1>4, <1>5, <1>6, <1>7 DEF Using
<1>8. CASE Filing
  <2>1. sect' = sect /\ heap' = heap
    BY <1>8 DEF Filing, Serialize, ClientSeek
  <2> QED BY <2>1 DEF KeepsOnFailure, KeepsPointer
<1> QED BY <1>2, <1>7, <1>8 DEF Next

(* A call that refuses, or runs out of memory half way, leaves an open     *)
(* section and every byte of the heap as they were: coil_section_resize    *)
(* allocates before it touches anything.                                   *)
THEOREM FailureIsClean == Spec => FailureChangesNothing
<1>1. IInv /\ [Next]_vars =>
        [phase = "open" /\ phase' = "open" /\ ret'.err # "GOOD" =>
           sect' = sect /\ heap' = heap]_vars
  BY StepKeeps DEF KeepsOnFailure
<1> QED BY <1>1, Invariance, PTL DEF Spec, FailureChangesNothing

(* A pointer into the buffer of an open section stays valid until a call   *)
(* has to grow the buffer, or coil_section_compact shrinks it.             *)
THEOREM PointersStable == Spec => PointersSurvive
<1>1. IInv /\ [Next]_vars =>
        [phase = "open" /\ phase' = "open" /\ sect'.data # sect.data =>
           \/ sect'.capacity > sect.capacity
           \/ ret'.op = "compact" /\ sect'.capacity < sect.capacity]_vars
  BY StepKeeps DEF KeepsPointer
<1> QED BY <1>1, Invariance, PTL DEF Spec, PointersSurvive


(* A result has the fields it is made of. *)
LEMMA ResultFields ==
  ASSUME NEW op, NEW err, NEW n, NEW out
  PROVE  /\ Result(op, err, n, out).op = op /\ Result(op, err, n, out).err = err
         /\ Result(op, err, n, out).n = n /\ Result(op, err, n, out).out = out
         /\ Done(op, err).op = op /\ Done(op, err).err = err
         /\ Done(op, err).n = 0 /\ Done(op, err).out = NoBytes
BY DEF Result, Done

(***************************************************************************)
(* What a call does to the content                                         *)
(***************************************************************************)

(* Growing keeps the content: every byte below size is where it was.       *)
LEMMA EnsureContent ==
  ASSUME NEW s, NEW h, BufferOK(s, h), s.mode # "VIEW",
         NEW min \in Nat, min < SizeMod, NEW o \in EnsureOutcomes(s, h, min)
  PROVE  /\ o.sect.size = s.size /\ o.sect.rindex = s.rindex
         /\ o.sect.windex = s.windex
         /\ \A i \in 0 .. s.size - 1 : o.heap[o.sect.data][i] = h[s.data][i]
<1>1. CASE s.capacity >= min
  BY <1>1 DEF EnsureOutcomes, Outcome
<1>2. CASE ~(s.capacity >= min)
  <2> DEFINE c == Grown(s.capacity, min)
  <2>1. s \in Section /\ s.capacity \in Nat /\ s.size \in Nat /\ s.size <= s.capacity
    BY DEF BufferOK, Section, Size, CursorsOK
  <2>2. c \in Nat /\ min <= c /\ s.size <= c
    BY <1>2, <2>1 DEF Grown, Plus
  <2>3. o \in ResizeOutcomes(s, h, c)
    BY <1>2 DEF EnsureOutcomes
  <2> HIDE DEF c
  <2>4. CASE o = Outcome("NOMEM", s, h)
    BY <2>4 DEF Outcome
  <2>5. CASE o # Outcome("NOMEM", s, h)
    <3>1. /\ o.sect = Resized(s, o.sect.data, c)
          /\ o.sect.data \in Addr /\ c \in 1 .. MaxAlloc
          /\ \A i \in 0 .. s.size - 1 : o.heap[o.sect.data][i] = h[s.data][i]
      BY <2>2, <2>3, <2>5, ResizeFacts
    <3>2. c \in Size
      BY <3>1 DEF Size
    <3>3. /\ o.sect.size = s.size /\ o.sect.rindex = s.rindex
          /\ o.sect.windex = s.windex
      BY <2>1, <3>1, <3>2, ResizedFields
    <3> QED BY <3>1, <3>3
  <2> QED BY <2>4, <2>5
<1> QED BY <1>1, <1>2

(* So does compacting. *)
LEMMA CompactContent ==
  ASSUME NEW s, NEW h, BufferOK(s, h), s.mode # "VIEW",
         NEW o \in CompactOutcomes(s, h)
  PROVE  /\ o.sect.size = s.size /\ o.sect.rindex = s.rindex
         /\ o.sect.windex = s.windex
         /\ \A i \in 0 .. s.size - 1 : o.heap[o.sect.data][i] = h[s.data][i]
<1>1. CASE s.data = NULL \/ s.size = s.capacity
  BY <1>1 DEF CompactOutcomes, Outcome
<1>2. CASE ~(s.data = NULL \/ s.size = s.capacity)
  <2>1. s \in Section /\ s.size \in Nat /\ s.size <= s.size
    BY DEF BufferOK, Section, Size
  <2>2. o \in ResizeOutcomes(s, h, s.size)
    BY <1>2 DEF CompactOutcomes
  <2>3. CASE o = Outcome("NOMEM", s, h)
    BY <2>3 DEF Outcome
  <2>4. CASE o # Outcome("NOMEM", s, h)
    <3>1. /\ o.sect = Resized(s, o.sect.data, s.size)
          /\ o.sect.data \in Addr
          /\ \A i \in 0 .. s.size - 1 : o.heap[o.sect.data][i] = h[s.data][i]
      BY <2>1, <2>2, <2>4, ResizeFacts
    <3>2. s.size \in Size
      BY <2>1 DEF Section
    <3>3. /\ o.sect.size = s.size /\ o.sect.rindex = s.rindex
          /\ o.sect.windex = s.windex
      BY <2>1, <3>1, <3>2, ResizedFields
    <3> QED BY <3>1, <3>3
  <2> QED BY <2>3, <2>4
<1> QED BY <1>1, <1>2

(* A write that succeeds puts the buffer at the write cursor, moves the    *)
(* cursor behind it, and keeps every byte outside it.                      *)
LEMMA WriteContent ==
  ASSUME NEW s, NEW h, BufferOK(s, h), s.mode # "VIEW",
         NEW n \in 0 .. MaxBuf, NEW buf \in Buffer(n),
         NEW o \in WriteOutcomes(s, h, n, buf), o.err = "GOOD"
  PROVE  /\ o.sect.windex = s.windex + n /\ o.sect.rindex = s.rindex
         /\ o.sect.size = IF s.windex + n > s.size THEN s.windex + n ELSE s.size
         /\ o.sect.size > 0 => o.sect.data \in Addr
         /\ \A i \in 0 .. o.sect.size - 1 :
              o.heap[o.sect.data][i] =
                IF i \in s.windex .. s.windex + n - 1 THEN buf[i - s.windex]
                ELSE h[s.data][i]
<1> DEFINE min == Plus(s.windex, n)
<1>1. /\ s \in Section /\ s.windex \in Nat /\ s.size \in Nat /\ s.capacity \in Nat
      /\ s.windex <= s.size /\ s.size <= s.capacity /\ s.capacity <= MaxAlloc
      /\ n \in Nat
  <2>1. s.data # MAPPED
    BY DEF BufferOK, OwnsOK
  <2> QED BY <2>1 DEF BufferOK, Section, Size, CursorsOK, OwnsOK
<1>2. min = s.windex + n /\ min \in Nat /\ min < SizeMod
  BY <1>1 DEF Plus
<1> HIDE DEF min
<1> DEFINE St(e) == Outcome("GOOD",
                      Stored(e.sect, Plus(e.sect.windex, n)),
                      IF e.sect.data \in Addr
                        THEN [e.heap EXCEPT
                                ![e.sect.data] = Overlay(@, e.sect.windex, n, buf)]
                        ELSE e.heap)
<1>3. PICK e \in EnsureOutcomes(s, h, min) :
        o = IF e.err = "GOOD" THEN St(e) ELSE e
  BY Zenon DEF WriteOutcomes, Stored, min
<1>4. e.err = "GOOD" /\ o = St(e)
  BY <1>3
<1>5. /\ BufferOK(e.sect, e.heap) /\ e.sect.mode # "VIEW"
      /\ e.sect.capacity >= min
  BY <1>2, <1>4, EnsureFacts
<1>6. /\ e.sect.size = s.size /\ e.sect.rindex = s.rindex
      /\ e.sect.windex = s.windex
      /\ \A i \in 0 .. s.size - 1 : e.heap[e.sect.data][i] = h[s.data][i]
  BY <1>2, EnsureContent
<1> DEFINE d == e.sect.data
           w == s.windex
           new == Overlay(e.heap[d], w, n, buf)
<1>7. /\ o.sect = Stored(e.sect, min)
      /\ o.heap = IF d \in Addr THEN [e.heap EXCEPT ![d] = new] ELSE e.heap
  BY <1>4, <1>6, Zenon DEF Outcome, min
<1>8. /\ o.sect.data = d /\ o.sect.windex = min /\ o.sect.rindex = s.rindex
      /\ o.sect.size = IF min > s.size THEN min ELSE s.size
  <2>1. e.sect \in Section /\ min \in Size
    BY <1>2, <1>5 DEF BufferOK, Size
  <2> QED BY <1>6, <1>7, <2>1, StoredFields
<1>9. o.sect.size > 0 => d \in Addr
  <2>1. e.sect.capacity >= o.sect.size /\ o.sect.size \in Nat
    BY <1>1, <1>2, <1>5, <1>6, <1>8 DEF BufferOK, CursorsOK, Section, Size
  <2>2. d \notin Addr => d = NULL /\ e.sect.capacity = 0
    BY <1>5 DEF BufferOK, OwnsOK, Section
  <2> QED BY <2>1, <2>2
<1>10. ASSUME NEW i \in 0 .. o.sect.size - 1
       PROVE  o.heap[d][i] = IF i \in w .. w + n - 1 THEN buf[i - w] ELSE h[s.data][i]
  <2>1. /\ i \in Nat /\ o.sect.size \in Nat /\ i < o.sect.size
        /\ e.sect.capacity \in Nat /\ o.sect.size <= e.sect.capacity
    BY <1>1, <1>2, <1>5, <1>6, <1>8 DEF BufferOK, CursorsOK, Section, Size
  <2>2. d \in Addr
    BY <1>9, <2>1
  <2>3. /\ e.heap \in [Addr -> Image]
        /\ DOMAIN e.heap[d] = 0 .. e.sect.capacity - 1
    BY <1>5, <2>2 DEF BufferOK, OwnsOK
  <2>4. o.heap[d] = new
    BY <1>7, <2>2, <2>3
  <2>5. new[i] = IF i \in w .. w + n - 1 THEN buf[i - w] ELSE e.heap[d][i]
    <3>1. i \in DOMAIN e.heap[d]
      BY <2>1, <2>3
    <3> QED BY <3>1 DEF Overlay
  <2>6. i \notin w .. w + n - 1 => i \in 0 .. s.size - 1
    BY <1>1, <1>2, <1>8, <2>1
  <2> HIDE DEF new
  <2> QED BY <1>6, <2>4, <2>5, <2>6
<1> QED BY <1>2, <1>8, <1>9, <1>10


(***************************************************************************)
(* String tables                                                           *)
(***************************************************************************)

(* Nothing but coil_section_putstr puts bytes into the section. *)
OnlyStrings == Calls \cap {"write", "load", "loadv"} = {}

(* The content is empty or ends with a terminator.                         *)
Ended(s, h) ==
  s.size > 0 => s.data \in Addr /\ h[s.data][s.size - 1] = Nul

TableOK == phase = "open" => Ended(sect, heap)

(* What coil_section_getstr returned last lies in the content it points to. *)
FoundOK ==
  ret.op = "getstr" /\ ret.err = "GOOD" =>
    phase = "open" /\ ret.n \in Nat /\ ret.n < sect.size

(* A terminated string put anywhere into a table leaves a table: it ends   *)
(* the content itself, or the old end stays or is overwritten by its end.  *)
LEMMA PutStrEnds ==
  ASSUME NEW s, NEW h, BufferOK(s, h), s.mode # "VIEW", Ended(s, h),
         NEW n \in 0 .. MaxBuf, NEW buf \in Buffer(n), IsString(n, buf),
         NEW o \in WriteOutcomes(s, h, n, buf)
  PROVE  Ended(o.sect, o.heap)
<1>1. CASE o.err # "GOOD"
  <2>1. o.sect = s /\ o.heap = h
    BY <1>1, WriteFacts
  <2> QED BY <2>1
<1>2. CASE o.err = "GOOD"
  <2> DEFINE w == s.windex
             last == o.sect.size - 1
  <2>1. /\ o.sect.size = IF w + n > s.size THEN w + n ELSE s.size
        /\ o.sect.size > 0 => o.sect.data \in Addr
        /\ \A i \in 0 .. o.sect.size - 1 :
             o.heap[o.sect.data][i] =
               IF i \in w .. w + n - 1 THEN buf[i - w] ELSE h[s.data][i]
    BY <1>2, WriteContent
  <2>2. w \in Nat /\ s.size \in Nat /\ w <= s.size /\ n \in Nat /\ n > 0
    BY DEF BufferOK, Section, Size, CursorsOK, IsString
  <2>3. o.sect.size \in Nat /\ o.sect.size > 0 /\ last \in 0 .. o.sect.size - 1
    BY <2>1, <2>2
  <2>4. o.heap[o.sect.data][last] =
          IF last \in w .. w + n - 1 THEN buf[last - w] ELSE h[s.data][last]
    BY <2>1, <2>3
  <2>5. CASE last \in w .. w + n - 1
    <3>1. last - w = n - 1 /\ n - 1 \in 0 .. n - 1
      BY <2>1, <2>2, <2>5
    <3>2. buf[n - 1] = Nul
      BY <3>1 DEF IsString
    <3> HIDE DEF last
    <3>3. o.heap[o.sect.data][last] = Nul
      BY <2>4, <2>5, <3>1, <3>2
    <3> QED BY <2>1, <2>3, <3>3 DEF Ended, last
  <2>6. CASE last \notin w .. w + n - 1
    <3>1. o.sect.size = s.size /\ s.size > 0
      BY <2>1, <2>2, <2>6
    <3> QED BY <2>1, <2>3, <2>4, <2>6, <3>1 DEF Ended
  <2> QED BY <2>5, <2>6
<1> QED BY <1>1, <1>2

(* An outcome that keeps the content keeps its end. *)
LEMMA KeptEnds ==
  ASSUME NEW s, NEW h, BufferOK(s, h), s.mode # "VIEW", Ended(s, h),
         NEW t, NEW g, BufferOK(t, g), t.mode # "VIEW", t.size = s.size,
         \A i \in 0 .. s.size - 1 : g[t.data][i] = h[s.data][i]
  PROVE  Ended(t, g)
<1>1. s.size \in Nat /\ t.data \in Addr \cup {NULL, MAPPED}
      /\ t.size <= t.capacity
  BY DEF BufferOK, Section, Size, CursorsOK
<1>2. t.size > 0 => t.data \in Addr
  <2>1. t.data # MAPPED /\ (t.data = NULL => t.capacity = 0)
    BY DEF BufferOK, OwnsOK
  <2> QED BY <1>1, <2>1
<1>3. s.size > 0 => s.size - 1 \in 0 .. s.size - 1
  BY <1>1
<1> QED BY <1>2, <1>3 DEF Ended

(* A call that ends with one of a set of tables, and is not a look-up.     *)
LEMMA TakeTable ==
  ASSUME phase = "open", NEW op, op # "getstr", NEW n, NEW outcomes,
         Take(op, n, outcomes), \A o \in outcomes : Ended(o.sect, o.heap)
  PROVE  TableOK' /\ FoundOK'
<1>1. PICK o \in outcomes :
        /\ sect' = o.sect
        /\ heap' = o.heap
        /\ ret' = Result(op, o.err, IF o.err = "GOOD" THEN n ELSE 0, NoBytes)
  BY Zenon DEF Take
<1>2. ret'.op = op
  BY <1>1, Zenon DEF Result
<1>3. Ended(sect', heap')
  BY <1>1
<1> QED BY <1>2, <1>3 DEF TableOK, FoundOK, Ended

(* Every step of a client that only puts strings keeps the table.          *)
LEMMA TableStep ==
  ASSUME IInv, OnlyStrings, TableOK, FoundOK, Next
  PROVE  TableOK' /\ FoundOK'
<1> USE DEF Called
<1>1. ASSUME NEW c \in 0 .. MaxAlloc, InitSection(c)
      PROVE  TableOK' /\ FoundOK'
  <2>1. PICK o \in InitOutcomes(heap, c) :
          sect' = o.sect /\ heap' = o.heap /\ ret' = Done("init", o.err)
    BY <1>1 DEF InitSection
  <2>2. o.sect.size = 0
    <3>1. heap \in [Addr -> Image] /\ Allocated(heap) = {}
      BY <1>1 DEF InitSection, IInv, ShutOK
    <3> QED BY <3>1, InitFacts
  <2>3. sect'.size = 0 /\ ret'.op = "init"
    BY <2>1, <2>2 DEF Done, Result
  <2> QED BY <2>3 DEF TableOK, FoundOK, Ended
<1>2. ASSUME Cleanup PROVE TableOK' /\ FoundOK'
  <2>1. phase' = "closed" /\ ret'.op = "cleanup"
    BY <1>2 DEF Cleanup, Done, Result
  <2> QED BY <2>1 DEF TableOK, FoundOK
<1>3. ASSUME NEW n \in 0 .. MaxBuf, NEW buf \in Buffer(n), PutStr(n, buf)
      PROVE  TableOK' /\ FoundOK'
  <2> DEFINE outs == IF sect.mode = "VIEW"
                       THEN {Outcome("BADSTATE", sect, heap)}
                       ELSE WriteOutcomes(sect, heap, n, buf)
  <2>1. /\ phase = "open" /\ Take("write", n, outs) /\ IsString(n, buf)
        /\ BufferOK(sect, heap) /\ Ended(sect, heap)
    BY <1>3 DEF PutStr, StoreCall, IInv, OpenOK, TableOK
  <2>2. ASSUME NEW o \in outs PROVE Ended(o.sect, o.heap)
    <3>1. CASE sect.mode = "VIEW"
      BY <2>1, <3>1 DEF Outcome
    <3>2. CASE sect.mode # "VIEW"
      BY <2>1, <3>2, PutStrEnds
    <3> QED BY <3>1, <3>2
  <2> HIDE DEF outs
  <2> QED BY <2>1, <2>2, TakeTable
<1>4. ASSUME NEW op \in {"ensure_capacity", "compact"}, NEW outs, phase = "open",
             Take(op, 0, outs),
             \A o \in outs :
               /\ BufferOK(o.sect, o.heap)
               /\ sect.mode # "VIEW" => o.sect.mode # "VIEW"
               /\ sect.mode = "VIEW" => o.sect = sect /\ o.heap = heap
               /\ sect.mode # "VIEW" =>
                    /\ o.sect.size = sect.size
                    /\ \A i \in 0 .. sect.size - 1 :
                         o.heap[o.sect.data][i] = heap[sect.data][i]
      PROVE  TableOK' /\ FoundOK'
  <2>1. BufferOK(sect, heap) /\ Ended(sect, heap)
    BY <1>4 DEF IInv, OpenOK, TableOK
  <2>2. ASSUME NEW o \in outs PROVE Ended(o.sect, o.heap)
    <3>1. CASE sect.mode = "VIEW"
      BY <1>4, <2>1, <3>1
    <3>2. CASE sect.mode # "VIEW"
      BY <1>4, <2>1, <3>2, KeptEnds
    <3> QED BY <3>1, <3>2
  <2> QED BY <1>4, <2>2, TakeTable
<1>5. ASSUME NEW p \in 0 .. MaxAlloc + 1, EnsureCapacity(p)
      PROVE  TableOK' /\ FoundOK'
  <2>1. /\ phase = "open" /\ BufferOK(sect, heap)
        /\ Take("ensure_capacity", 0, EnsureOutcomes(sect, heap, p))
    BY <1>5 DEF EnsureCapacity, IInv, OpenOK
  <2>2. p \in Nat /\ p < SizeMod
    OBVIOUS
  <2> QED BY <1>4, <2>1, <2>2, EnsureFacts, EnsureContent
<1>6. ASSUME Compact PROVE TableOK' /\ FoundOK'
  <2>1. /\ phase = "open" /\ BufferOK(sect, heap)
        /\ Take("compact", 0, CompactOutcomes(sect, heap))
    BY <1>6 DEF Compact, IInv, OpenOK
  <2> QED BY <1>4, <2>1, CompactFacts, CompactContent
<1>7. ASSUME NEW p \in Nat,
             Read(p) \/ Reset \/ SeekRead(p) \/ SeekWrite(p)
      PROVE  TableOK' /\ FoundOK'
  <2>1. sect \in Section
    BY <1>7, OpenCursors DEF Read, Reset, SeekRead, SeekWrite
  <2>2. /\ sect'.size = sect.size /\ sect'.data = sect.data
        /\ heap' = heap /\ phase' = phase
    BY <1>7, <2>1 DEF Read, Reset, SeekRead, SeekWrite, Section
  <2>3. ret'.op \in {"read", "reset", "seek_read", "seek_write"}
    BY <1>7, ResultFields DEF Read, Reset, SeekRead, SeekWrite
  <2> QED BY <2>2, <2>3 DEF TableOK, FoundOK, Ended
<1>8. ASSUME NEW p \in 0 .. MaxAlloc + 1, GetStr(p)
      PROVE  TableOK' /\ FoundOK'
  <2>1. /\ phase = "open" /\ UNCHANGED <<sect, heap, phase>> /\ sect.size \in Nat
        /\ ret' = IF p >= sect.size THEN Done("getstr", "INVAL")
                  ELSE Result("getstr", "GOOD", p, NoBytes)
    BY <1>8, OpenCursors DEF GetStr
  <2>2. TableOK'
    BY <2>1 DEF TableOK, Ended
  <2>3. ret'.err = "GOOD" => ret'.n = p /\ p < sect.size
    BY <2>1 DEF Done, Result
  <2> QED BY <2>1, <2>2, <2>3 DEF FoundOK
<1>9. ASSUME Filing PROVE TableOK' /\ FoundOK'
  <2>1. UNCHANGED <<sect, heap, phase>>
    BY <1>9 DEF Filing, Serialize, ClientSeek
  <2>2. \E e : ret' = Done("serialize", e) \/ ret' = Done("lseek", e)
    BY <1>9, Zenon DEF Filing, Serialize, ClientSeek
  <2>3. ret'.op # "getstr"
    BY <2>2, ResultFields
  <2> QED BY <2>1, <2>3 DEF TableOK, FoundOK, Ended
<1>10. CASE Building
  <2>1. ~Called("load") /\ ~Called("loadv")
    BY DEF OnlyStrings
  <2> QED BY <1>1, <1>2, <1>10, <2>1 DEF Building, Load, LoadView
<1>11. CASE Using
  <2>1. ~Called("write")
    BY DEF OnlyStrings
  <2>2. 0 \in Nat
    OBVIOUS
  <2> QED BY <1>3, <1>5, <1>6, <1>7, <1>8, <1>11, <2>1, <2>2 DEF Using, Write
<1> QED BY <1>9, <1>10, <1>11 DEF Next

(* In a table that only coil_section_putstr filled, every string that      *)
(* coil_section_getstr finds ends inside the content, whatever seeks,      *)
(* resets and overwrites built the table.                                  *)
THEOREM StringSafety == OnlyStrings => (Spec => []StringsTerminated)
<1>1. OnlyStrings \in BOOLEAN
  BY DEF OnlyStrings
<1>2. CASE OnlyStrings
  <2>1. Init => TableOK /\ FoundOK
    BY DEF Init, TableOK, FoundOK, Done, Result
  <2>2. IInv /\ TableOK /\ FoundOK /\ [Next]_vars => TableOK' /\ FoundOK'
    <3> SUFFICES ASSUME IInv, TableOK, FoundOK, [Next]_vars
                 PROVE  TableOK' /\ FoundOK'
      OBVIOUS
    <3>1. CASE UNCHANGED vars
      BY <3>1 DEF vars, TableOK, FoundOK, Ended
    <3> QED BY <1>2, <3>1, TableStep
  <2>3. TableOK /\ FoundOK /\ IInv => StringsTerminated
    <3> SUFFICES ASSUME TableOK, FoundOK, IInv, ret.op = "getstr", ret.err = "GOOD"
                 PROVE  \E i \in ret.n .. sect.size - 1 : CellAt(sect, i) = Nul
      BY DEF StringsTerminated
    <3>1. phase = "open" /\ ret.n \in Nat /\ ret.n < sect.size /\ sect.size \in Nat
      BY OpenCursors DEF FoundOK
    <3>2. sect.data \in Addr /\ heap[sect.data][sect.size - 1] = Nul
      BY <3>1 DEF TableOK, Ended
    <3>3. CellAt(sect, sect.size - 1) = Nul
      BY <3>2 DEF CellAt
    <3>4. sect.size - 1 \in ret.n .. sect.size - 1
      BY <3>1
    <3> QED BY <3>3, <3>4
  <2> QED BY <2>1, <2>2, <2>3, Invariance, PTL DEF Spec
<1> QED BY <1>1, <1>2


(***************************************************************************)
(* Views                                                                   *)
(***************************************************************************)

(* A view that lies inside the file shows the file from where it starts.   *)
LEMMA ViewCell ==
  ASSUME FileOK, NEW s \in Section, s.data = MAPPED,
         s.map_start + s.map_off + s.size <= file.len,
         s.map_size = s.map_off + s.size, NEW i \in 0 .. s.size - 1
  PROVE  /\ s.map_start + s.map_off + i \in 0 .. file.len - 1
         /\ CellAt(s, i) = file.bytes[s.map_start + s.map_off + i]
<1> DEFINE j  == s.map_off + i
           at == s.map_start + j
<1>1. /\ s.map_start \in Nat /\ s.map_off \in Nat /\ s.size \in Nat
      /\ i \in Nat /\ i < s.size /\ file.len \in Nat
  BY DEF FileOK, Section, Size
<1>2. /\ at = s.map_start + s.map_off + i /\ at \in 0 .. file.len - 1
      /\ at < file.len /\ ~(j >= s.map_size)
  BY <1>1
<1>3. ~(at >= LastPageEnd)
  <2>1. LastPageEnd \in Nat /\ LastPageEnd >= file.len
    BY LastPageFacts
  <2> HIDE DEF at
  <2> QED BY <1>1, <1>2, <2>1
<1>4. CellAt(s, i) = IF j >= s.map_size \/ at >= LastPageEnd THEN Junk
                     ELSE IF at < file.len THEN file.bytes[at] ELSE Nul
  BY DEF CellAt, MappedCell
<1> HIDE DEF at, j
<1> QED BY <1>2, <1>3, <1>4

(* A loadv that succeeds has mapped the page of the position, and the view *)
(* starts at the position.                                                 *)
LEMMA ViewPlace ==
  ASSUME IInv, NEW c \in 0 .. MaxAlloc, LoadView(c), ret'.err = "GOOD"
  PROVE  /\ sect' \in Section /\ sect'.data = MAPPED /\ sect'.mode = "VIEW"
         /\ sect'.map_start + sect'.map_off = pos
         /\ sect'.rindex = 0 /\ sect'.windex = 0
         /\ phase' = "open" /\ ret' = Done("loadv", "GOOD")
         /\ UNCHANGED <<heap, file, pos>>
<1> DEFINE size  == ViewSize(c)
           off   == pos % PageSize
           start == pos - off
           msize == Plus(size, off)
<1>1. /\ sect' = [data |-> MAPPED, capacity |-> size, size |-> size,
                  rindex |-> 0, windex |-> 0, mode |-> "VIEW",
                  is_mapped |-> TRUE,
                  map_start |-> start, map_off |-> off, map_size |-> msize]
      /\ phase' = "open" /\ ret' = Done("loadv", "GOOD")
      /\ UNCHANGED <<heap, file, pos>>
  BY ResultFields DEF LoadView
<1>2. sect' \in Section
  BY <1>1, LoadViewStep DEF IInv, OpenOK, BufferOK
<1>3. pos \in Nat /\ off \in Nat
  BY ModFacts DEF IInv, FileOK, Size
<1> HIDE DEF off, size, msize
<1>4. sect'.map_start = pos - off /\ sect'.map_off = off
  BY <1>1
<1> QED BY <1>1, <1>2, <1>3, <1>4

(* Only loadv reports as loadv. *)
LEMMA OnlyLoadView ==
  ASSUME IInv, Next, ret'.op = "loadv"
  PROVE  \E c \in 0 .. MaxAlloc : LoadView(c)
<1> DEFINE Names == {"init", "cleanup", "load", "write", "ensure_capacity",
                     "compact", "read", "getstr", "reset", "seek_read",
                     "seek_write", "serialize", "lseek"}
<1>1. ASSUME NEW op, NEW n, NEW outs, Take(op, n, outs) PROVE ret'.op = op
  BY <1>1, ResultFields DEF Take
<1>2. ASSUME NEW op \in Names, \E e : ret' = Done(op, e) PROVE FALSE
  BY <1>2, ResultFields
<1>3. ASSUME NEW c \in 0 .. MaxAlloc, InitSection(c) \/ Load(c) PROVE FALSE
  <2>1. \E e : ret' = Done("init", e) \/ ret' = Done("load", e)
    BY <1>3, Zenon DEF InitSection, Load
  <2> QED BY <1>2, <2>1
<1>4. ASSUME NEW n, NEW buf, Write(n, buf) \/ PutStr(n, buf) PROVE FALSE
  BY <1>1, <1>4 DEF Write, PutStr, StoreCall
<1>5. ASSUME NEW p, EnsureCapacity(p) \/ Compact PROVE FALSE
  BY <1>1, <1>5 DEF EnsureCapacity, Compact
<1>6. ASSUME NEW p, Read(p) \/ GetStr(p) PROVE FALSE
  <2>1. \E e, n, out : ret' = Result("read", e, n, out) \/ ret' = Result("getstr", e, n, out)
    BY <1>6, Zenon DEF Read, GetStr, Done
  <2> QED BY <2>1, ResultFields
<1>7. ASSUME NEW p, SeekRead(p) \/ SeekWrite(p) \/ Reset \/ Cleanup PROVE FALSE
  <2>1. \E op \in Names : \E e : ret' = Done(op, e)
    BY <1>7 DEF SeekRead, SeekWrite, Reset, Cleanup
  <2> QED BY <1>2, <2>1
<1>8. ASSUME Filing PROVE FALSE
  <2>1. \E e : ret' = Done("serialize", e) \/ ret' = Done("lseek", e)
    BY <1>8, Zenon DEF Filing, Serialize, ClientSeek
  <2> QED BY <1>2, <2>1
<1> QED BY <1>3, <1>4, <1>5, <1>6, <1>7, <1>8 DEF Next, Building, Using

(* If the client that asks for it keeps the file position in the file, a   *)
(* view starts at the byte the position is at, although the mapping starts *)
(* at a page boundary, and loadv leaves the position where it was.         *)
THEOREM ViewsStartThere == Careful => (Spec => ViewStartsAtPosition)
<1>1. Careful \in BOOLEAN
  BY DEF Careful
<1>2. CASE Careful
  <2> DEFINE Starts ==
               ret'.op = "loadv" /\ ret'.err = "GOOD" =>
                 /\ pos' = pos
                 /\ \A i \in 0 .. sect'.size - 1 : CellAt(sect', i) = file.bytes[pos + i]
  <2>1. ASSUME IInv, Next, ret'.op = "loadv", ret'.err = "GOOD"
        PROVE  /\ pos' = pos
               /\ \A i \in 0 .. sect'.size - 1 : CellAt(sect', i) = file.bytes[pos + i]
    <3>1. PICK c \in 0 .. MaxAlloc : LoadView(c)
      BY <2>1, OnlyLoadView
    <3>2. /\ sect' \in Section /\ sect'.data = MAPPED
          /\ sect'.map_start + sect'.map_off = pos
          /\ UNCHANGED <<file, pos>>
      BY <2>1, <3>1, ViewPlace
    <3>3. /\ sect'.map_start + sect'.map_off + sect'.size <= file.len
          /\ sect'.map_size = sect'.map_off + sect'.size
      <4>1. MapsOK'
        BY <2>1, <3>1, LoadViewStep DEF IInv
      <4> QED BY <1>2, <3>2, <4>1 DEF MapsOK
    <3>4. FileOK
      BY <2>1 DEF IInv
    <3> QED BY <3>2, <3>3, <3>4, ViewCell
  <2>2. IInv /\ [Next]_vars => [Starts]_vars
    BY <2>1
  <2> QED BY <2>2, Invariance, PTL DEF Spec, ViewStartsAtPosition
<1> QED BY <1>1, <1>2
=============================================================================

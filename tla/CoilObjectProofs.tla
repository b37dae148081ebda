--------------------------- MODULE CoilObjectProofs ---------------------------
(***************************************************************************)
(* Theorems about CoilObject, for any number of regions, sections,         *)
(* structures, descriptors and names.                                      *)
(***************************************************************************)
EXTENDS CoilObject, DataProofs

Memory == [Region -> [live : BOOLEAN, cells : Seq(Cells)]]

-----------------------------------------------------------------------------
(***************************************************************************)
(* Cells, regions and sections                                             *)
(***************************************************************************)

(* A byte nobody wrote is a cell, and so is what is read behind the end. *)
LEMMA ZeroIsCell == Zero \in Cells
BY DEF Cells

LEMMA CellInIsCell ==
  ASSUME NEW cells \in Seq(Cells), NEW k \in Nat \ {0}
  PROVE  CellIn(cells, k) \in Cells
BY ZeroIsCell DEF CellIn

(* What is cut out of cells has the size that was asked for. *)
LEMMA CellsOfFacts ==
  ASSUME NEW cells \in Seq(Cells), NEW off \in Nat, NEW size \in Nat
  PROVE  CellsOf(cells, off, size) \in Seq(Cells) /\ Len(CellsOf(cells, off, size)) = size
<1>1. CellsOf(cells, off, size) \in [1 .. size -> Cells]
  BY CellInIsCell DEF CellsOf
<1> QED BY <1>1, FunctionIsSeq

(* The bytes of a section are as many as its size. *)
LEMMA BytesFacts ==
  ASSUME NEW m \in Memory, NEW s \in SlotType, s.data # 0
  PROVE  Bytes(s, m) \in Seq(Cells) /\ Len(Bytes(s, m)) = s.size
<1>1. s.data \in Region /\ s.off \in Nat /\ s.size \in Nat
  BY DEF SlotType, Region
<1>2. m[s.data].cells \in Seq(Cells)
  BY <1>1 DEF Memory
<1>3. CASE s.size = 0
  BY <1>3 DEF Bytes
<1>4. CASE s.size # 0
  BY <1>1, <1>2, <1>4, CellsOfFacts DEF Bytes
<1> QED BY <1>3, <1>4

(* Region r was free and is now in use; nothing else has happened. *)
Takes(m, r, n) ==
  /\ r \in Region /\ ~m[r].live /\ n[r].live
  /\ \A q \in Region : q # r => n[q] = m[q]

(* An allocation takes one free region or none. *)
LEMMA AllocFacts ==
  ASSUME ObjectAssumption, NEW m \in Memory, NEW cells \in Seq(Cells),
         NEW a \in Alloc(m, cells)
  PROVE  /\ a.mem \in Memory
         /\ a.r \in 0 .. MaxRegion
         /\ a.r = 0 => a.mem = m
         /\ a.r # 0 => Takes(m, a.r, a.mem)
<1>1. CASE a.r = 0 /\ a.mem = m
  BY <1>1 DEF ObjectAssumption
<1>2. CASE \E r \in OneOf(FreeRegions(m)) :
             a = [r |-> r, mem |-> [m EXCEPT ![r] = [live |-> TRUE, cells |-> cells]]]
  <2>1. PICK r \in FreeRegions(m) :
             a = [r |-> r, mem |-> [m EXCEPT ![r] = [live |-> TRUE, cells |-> cells]]]
    BY <1>2 DEF OneOf
  <2>2. r \in Region /\ ~m[r].live /\ r # 0
    BY DEF FreeRegions, Region
  <2>3. a.r = r /\ a.mem = [m EXCEPT ![r] = [live |-> TRUE, cells |-> cells]]
    BY <2>1
  <2> QED BY <2>2, <2>3 DEF Memory, Takes, Region, ObjectAssumption
<1> QED BY <1>1, <1>2 DEF Alloc

(* Making a section gives it a free region of its own, or nothing. *)
LEMMA FilledFacts ==
  ASSUME ObjectAssumption, NEW m \in Memory, NEW cells \in Seq(Cells),
         NEW view \in BOOLEAN, NEW p \in Nat, NEW q \in Nat,
         NEW o \in Filled(m, cells, view, p, q)
  PROVE  /\ o.pos \in Nat /\ o.mem \in Memory /\ o.s \in SlotType
         /\ o.err # "GOOD" => o.mem = m /\ o.s = NoSlot
         /\ o.err = "GOOD" => /\ o.s.data # 0 /\ ~o.s.mapped
                              /\ o.s.view = view
                              /\ Takes(m, o.s.data, o.mem)
<1>1. PICK a \in Alloc(m, cells) :
        o = IF a.r = 0 THEN Lost("NOMEM", m, p)
            ELSE Got(Slot(a.r, 0, Len(cells), view, FALSE), a.mem, q)
  BY DEF Filled
<1>2. /\ a.mem \in Memory /\ a.r \in 0 .. MaxRegion
      /\ a.r # 0 => Takes(m, a.r, a.mem)
  BY AllocFacts
<1>3. CASE a.r = 0
  BY <1>1, <1>3 DEF Lost, NoSlot, Slot, SlotType, ObjectAssumption
<1>4. CASE a.r # 0
  <2>1. o = Got(Slot(a.r, 0, Len(cells), view, FALSE), a.mem, q)
    BY <1>1, <1>4
  <2>2. /\ o.err = "GOOD" /\ o.pos = q /\ o.mem = a.mem
        /\ o.s = Slot(a.r, 0, Len(cells), view, FALSE)
    BY <2>1 DEF Got
  <2>3. o.s.data = a.r /\ o.s.view = view /\ ~o.s.mapped
    BY <2>2 DEF Slot
  <2>4. Slot(a.r, 0, Len(cells), view, FALSE) \in SlotType
    BY <1>2 DEF Slot, SlotType
  <2> QED BY <1>2, <1>4, <2>2, <2>3, <2>4
<1> QED BY <1>3, <1>4

(* The structure after a cleanup. *)
LEMMA NoSlotType == ObjectAssumption => NoSlot \in SlotType
BY DEF NoSlot, Slot, SlotType, ObjectAssumption

(* What is released is not live, all else is as it was. *)
LEMMA ReleaseFacts ==
  ASSUME NEW m \in Memory, NEW rs
  PROVE  /\ Release(m, rs) \in Memory
         /\ \A r \in Region : Release(m, rs)[r].live = (m[r].live /\ r \notin rs)
<1>1. Gone \in [live : BOOLEAN, cells : Seq(Cells)] /\ Gone.live = FALSE
  BY DEF Gone
<1>2. Release(m, rs) \in Memory
  BY <1>1 DEF Release, Memory
<1>3. ASSUME NEW r \in Region
      PROVE  Release(m, rs)[r].live = (m[r].live /\ r \notin rs)
  <2>1. m[r].live \in BOOLEAN
    BY DEF Memory
  <2>2. Release(m, rs)[r] = IF r \in rs THEN Gone ELSE m[r]
    BY DEF Release
  <2>3. CASE r \in rs
    BY <2>2, <2>3, <1>1
  <2>4. CASE r \notin rs
    BY <2>2, <2>4, <2>1
  <2> QED BY <2>3, <2>4
<1> QED BY <1>2, <1>3

(* delete and update free one region or none. *)
LEMMA FreedFacts ==
  ASSUME TypeOK, NEW s \in SlotType
  PROVE  /\ Freed(s) \in Memory
         /\ \A r \in Region :
              Freed(s)[r].live = (mem[r].live /\ (s.view \/ r # s.data))
<1>1. mem \in Memory
  BY DEF TypeOK, Memory
<1>2. CASE ~s.view /\ s.data # 0
  BY <1>1, <1>2, ReleaseFacts DEF Freed
<1>3. CASE ~(~s.view /\ s.data # 0)
  BY <1>1, <1>3 DEF Freed, Region, Memory
<1> QED BY <1>2, <1>3

-----------------------------------------------------------------------------
(***************************************************************************)
(* What loading makes of a section                                         *)
(***************************************************************************)

(* Where a load through the descriptor of the object begins. *)
LEMMA PositionIsNat == ASSUME TypeOK PROVE Position \in Nat
BY DEF TypeOK, ObjectType, Position

LEMMA AvailableFacts ==
  ASSUME TypeOK, NEW off \in Nat, NEW size \in Nat
  PROVE  Available(off, size) \in Nat
<1>1. Len(file) \in Nat
  BY SeqIsFunction DEF TypeOK
<1> QED BY <1>1 DEF Available

(* A read never gets more than it asks for. *)
LEMMA ReadCountsFacts ==
  ASSUME TypeOK, NEW off \in Nat, NEW size \in Nat, NEW n \in ReadCounts(off, size)
  PROVE  n \in Nat /\ n <= size
<1>1. Len(file) \in Nat
  BY SeqIsFunction DEF TypeOK
<1> QED BY <1>1 DEF ReadCounts, Available

(* What is read from the file is a beginning of what is there. *)
LEMMA ReadIsFilled ==
  ASSUME ObjectAssumption, TypeOK, NEW off \in Nat, NEW size \in Nat,
         NEW view, NEW o \in FilledFromFile(off, size, view)
  PROVE  \E n \in ReadCounts(off, size) :
           /\ n \in Nat /\ off + n \in Nat /\ CellsOf(file, off, n) \in Seq(Cells)
           /\ o \in Filled(mem, CellsOf(file, off, n), view, off, off + n)
<1>1. PICK n \in ReadCounts(off, size) :
        o \in Filled(mem, CellsOf(file, off, n), view, off, off + n)
  BY DEF FilledFromFile
<1>2. n \in Nat
  BY ReadCountsFacts
<1>3. CellsOf(file, off, n) \in Seq(Cells)
  BY <1>2, CellsOfFacts DEF TypeOK
<1> QED BY <1>1, <1>2, <1>3

(* A result of Filled, for the proofs of what is built from it. *)
IsResult(o) ==
  /\ o.pos \in Nat /\ o.mem \in Memory /\ o.s \in SlotType
  /\ o.err = "GOOD" => o.s.data # 0

(* Every way to make a section is a section or a failure. *)
LEMMA LostIsResult ==
  ASSUME ObjectAssumption, NEW m \in Memory, NEW p \in Nat, NEW e, e # "GOOD"
  PROVE  IsResult(Lost(e, m, p))
BY NoSlotType DEF Lost, IsResult

LEMMA GotIsResult ==
  ASSUME NEW m \in Memory, NEW p \in Nat, NEW s \in SlotType, s.data # 0
  PROVE  IsResult(Got(s, m, p))
BY DEF Got, IsResult

LEMMA FilledIsResult ==
  ASSUME ObjectAssumption, NEW m \in Memory, NEW cells \in Seq(Cells),
         NEW view \in BOOLEAN, NEW p \in Nat, NEW q \in Nat,
         NEW o \in Filled(m, cells, view, p, q)
  PROVE  IsResult(o)
<1>1. o.pos \in Nat /\ o.mem \in Memory /\ o.s \in SlotType
  BY FilledFacts
<1>2. o.err = "GOOD" => o.s.data # 0
  BY FilledFacts
<1> QED BY <1>1, <1>2 DEF IsResult

LEMMA CopiedIsResult ==
  ASSUME ObjectAssumption, TypeOK, NEW i \in Nat, Resident(obj, i),
         obj.loaded <= Len(obj.slots), NEW view \in BOOLEAN, NEW o \in Copied(i, view)
  PROVE  IsResult(o)
<1>1. i + 1 \in 1 .. Len(obj.slots)
  BY DEF Resident, TypeOK, ObjectType
<1>2. obj.slots[i + 1] \in SlotType /\ obj.slots[i + 1].data # 0
  BY <1>1 DEF Resident, TypeOK, ObjectType
<1>3. Bytes(obj.slots[i + 1], mem) \in Seq(Cells)
  BY <1>2, BytesFacts DEF TypeOK, Memory
<1> QED BY <1>3, PositionIsNat, FilledIsResult DEF Copied, TypeOK, Memory

LEMMA ReadFileIsResult ==
  ASSUME ObjectAssumption, TypeOK, NEW off \in Nat, NEW size \in Nat,
         NEW view \in BOOLEAN, NEW o \in ReadFile(off, size, view)
  PROVE  IsResult(o)
<1>2. mem \in Memory /\ file \in Seq(Cells)
  BY DEF TypeOK, Memory
<1>3. CellsOf(file, off, size) \in Seq(Cells)
  BY <1>2, CellsOfFacts
<1>4. CASE o \in FilledFromFile(off, size, view)
  <2>1. PICK n \in Nat :
          /\ off + n \in Nat /\ CellsOf(file, off, n) \in Seq(Cells)
          /\ o \in Filled(mem, CellsOf(file, off, n), view, off, off + n)
    BY <1>4, ReadIsFilled
  <2> QED BY <1>2, <2>1, FilledIsResult
<1>5. CASE \E a \in Alloc(mem, CellsOf(file, off, size)) :
             o = Lost("IO", IF view THEN a.mem ELSE mem, off)
  <2>1. PICK a \in Alloc(mem, CellsOf(file, off, size)) :
             o = Lost("IO", IF view THEN a.mem ELSE mem, off)
    BY <1>5
  <2>2. a.mem \in Memory
    BY <1>2, <1>3, AllocFacts
  <2>3. (IF view THEN a.mem ELSE mem) \in Memory
    BY <1>2, <2>2
  <2> QED BY <2>1, <2>3, LostIsResult
<1> QED BY <1>4, <1>5 DEF ReadFile

LEMMA MappedFileIsResult ==
  ASSUME ObjectAssumption, TypeOK, NEW off \in Nat, NEW size \in Nat,
         NEW o \in MappedFile(off, size)
  PROVE  IsResult(o)
<1> DEFINE n == IF off > Len(file) THEN size ELSE Available(off, size)
<1>1. n \in Nat
  BY AvailableFacts
<1>2. mem \in Memory /\ file \in Seq(Cells)
  BY DEF TypeOK, Memory
<1>3. CellsOf(file, off, n) \in Seq(Cells)
  BY <1>1, <1>2, CellsOfFacts
<1> HIDE DEF n
<1>4. CASE o = Lost("IO", mem, off)
  BY <1>2, <1>4, LostIsResult
<1>5. CASE \E a \in Alloc(mem, CellsOf(file, off, n)) :
             o = IF a.r = 0 THEN Lost("IO", mem, off)
                 ELSE Got(Slot(a.r, 0, n, TRUE, TRUE), a.mem, off)
  <2>1. PICK a \in Alloc(mem, CellsOf(file, off, n)) :
             o = IF a.r = 0 THEN Lost("IO", mem, off)
                 ELSE Got(Slot(a.r, 0, n, TRUE, TRUE), a.mem, off)
    BY <1>5
  <2>2. a.mem \in Memory /\ a.r \in 0 .. MaxRegion
    BY <1>2, <1>3, AllocFacts
  <2>3. CASE a.r = 0
    BY <2>1, <2>3, <1>2, LostIsResult
  <2>4. CASE a.r # 0
    <3>1. Slot(a.r, 0, n, TRUE, TRUE) \in SlotType /\ Slot(a.r, 0, n, TRUE, TRUE).data # 0
      BY <1>1, <2>2, <2>4 DEF Slot, SlotType
    <3> QED BY <2>1, <2>2, <2>4, <3>1, GotIsResult
  <2> QED BY <2>3, <2>4
<1> QED BY <1>4, <1>5 DEF MappedFile, n

LEMMA FetchedIsResult ==
  ASSUME ObjectAssumption, TypeOK, NEW hdr \in HeaderType, NEW flags,
         NEW o \in Fetched(hdr, flags)
  PROVE  IsResult(o)
<1> DEFINE view == "VIEW" \in flags
<1>1. mem \in Memory /\ Position \in Nat /\ <<>> \in Seq(Cells) /\ view \in BOOLEAN
  BY PositionIsNat DEF TypeOK, Memory
<1>2. hdr.off \in Nat /\ hdr.size \in Nat
  BY DEF HeaderType
<1> HIDE DEF view
<1>3. CASE o \in Viewed(hdr) /\ obj.map # 0
  <2>1. o = Got(Slot(obj.map, hdr.off, hdr.size, TRUE, FALSE), mem, Position)
    BY <1>3 DEF Viewed
  <2>2. /\ Slot(obj.map, hdr.off, hdr.size, TRUE, FALSE) \in SlotType
        /\ Slot(obj.map, hdr.off, hdr.size, TRUE, FALSE).data # 0
    BY <1>2, <1>3 DEF Slot, SlotType, TypeOK, ObjectType
  <2> QED BY <2>1, <2>2, <1>1, GotIsResult
<1>4. CASE o \in Filled(mem, <<>>, view, Position, Position)
  BY <1>1, <1>4, FilledIsResult
<1>5. CASE o = Lost("IO", mem, Position)
  BY <1>1, <1>5, LostIsResult
<1>6. CASE o \in MappedFile(hdr.off, hdr.size)
  BY <1>2, <1>6, MappedFileIsResult
<1>7. CASE o \in ReadFile(hdr.off, hdr.size, view)
  BY <1>1, <1>2, <1>7, ReadFileIsResult
<1> QED BY <1>3, <1>4, <1>5, <1>6, <1>7 DEF Fetched, view

(* The object keeps what it loaded in an array of the same length. *)
LEMMA KeptFacts ==
  ASSUME ObjectAssumption, NEW array \in Seq(SlotType), NEW i \in Nat, i < Len(array),
         NEW o, IsResult(o), o.err = "GOOD", NEW k \in Kept(array, i, o)
  PROVE  /\ k.slots \in Seq(SlotType) /\ Len(k.slots) = Len(array)
         /\ k.mem \in Memory
         /\ \A j \in 1 .. Len(array) : j # i + 1 => k.slots[j] = array[j]
<1>1. i + 1 \in 1 .. Len(array)
  OBVIOUS
<1>2. o.mem \in Memory /\ o.s \in SlotType /\ o.s.data # 0
  BY DEF IsResult
<1>3. CASE k = [slots |-> array, mem |-> o.mem]
  BY <1>2, <1>3
<1>4. CASE k = [slots |-> ReplaceAt(array, i + 1, o.s), mem |-> o.mem]
  BY <1>1, <1>2, <1>4, ReplacedFacts DEF ReplaceAt
<1>5. CASE \E a \in Alloc(o.mem, Bytes(o.s, o.mem)) :
             k = [slots |-> IF a.r = 0 THEN array
                            ELSE ReplaceAt(array, i + 1, Slot(a.r, 0, o.s.size, FALSE, FALSE)),
                  mem |-> a.mem]
  <2>1. PICK a \in Alloc(o.mem, Bytes(o.s, o.mem)) :
             k = [slots |-> IF a.r = 0 THEN array
                            ELSE ReplaceAt(array, i + 1, Slot(a.r, 0, o.s.size, FALSE, FALSE)),
                  mem |-> a.mem]
    BY <1>5
  <2>2. Bytes(o.s, o.mem) \in Seq(Cells)
    BY <1>2, BytesFacts
  <2>3. a.mem \in Memory /\ a.r \in 0 .. MaxRegion
    BY <1>2, <2>2, AllocFacts
  <2>4. Slot(a.r, 0, o.s.size, FALSE, FALSE) \in SlotType
    BY <1>2, <2>3 DEF Slot, SlotType
  <2>5. k.mem = a.mem /\ k.slots = IF a.r = 0 THEN array
                            ELSE [array EXCEPT ![i + 1] = Slot(a.r, 0, o.s.size, FALSE, FALSE)]
    BY <2>1 DEF ReplaceAt
  <2>6. CASE a.r = 0
    BY <2>3, <2>5, <2>6
  <2>7. CASE a.r # 0
    <3> DEFINE e == Slot(a.r, 0, o.s.size, FALSE, FALSE)
    <3>1. e \in SlotType
      BY <2>4
    <3>2. k.slots = [array EXCEPT ![i + 1] = e]
      BY <2>5, <2>7
    <3> HIDE DEF e
    <3>3. /\ [array EXCEPT ![i + 1] = e] \in Seq(SlotType)
          /\ Len([array EXCEPT ![i + 1] = e]) = Len(array)
          /\ \A j \in 1 .. Len(array) :
               [array EXCEPT ![i + 1] = e][j] = IF j = i + 1 THEN e ELSE array[j]
      BY ONLY <1>1, <3>1, array \in Seq(SlotType), ReplacedFacts
    <3> QED BY <2>3, <2>5, <3>2, <3>3
  <2> QED BY <2>6, <2>7
<1> QED BY <1>3, <1>4, <1>5 DEF Kept

-----------------------------------------------------------------------------
(***************************************************************************)
(* Types and array lengths                                                 *)
(***************************************************************************)

(* The client creates no empty section in an object that has loaded some,  *)
(* and converts a mapped object to memory with all its sections loaded or  *)
(* none.                                                                   *)
Tidy == Calls \cap {"create empty after load", "unmap partly loaded"} = {}

(* The counts of an object are within its sections array. *)
Fits(o) ==
  /\ o.loaded <= o.count
  /\ o.slots # <<>> => o.count <= Len(o.slots)
  /\ o.slots = <<>> => o.loaded = 0

Shape ==
  /\ Fits(obj)
  /\ phase = "ready" => obj.count <= Len(obj.headers)
  /\ phase # "ready" => obj.slots = <<>> /\ obj.map = 0
  /\ phase # "undefined"

(* The arguments of the operations. *)
LEMMA EmptyObjectFacts ==
  ObjectAssumption => /\ EmptyObject \in ObjectType /\ Fits(EmptyObject)
                      /\ EmptyObject.slots = <<>> /\ EmptyObject.map = 0
                      /\ EmptyObject.count <= Len(EmptyObject.headers)
BY DEF EmptyObject, ObjectType, Fits, ObjectAssumption

(* A loaded section is inside the array. *)
LEMMA LoadedSlots ==
  ASSUME ObjectAssumption, NEW o \in ObjectType, Fits(o), NEW j \in 1 .. o.loaded
  PROVE  j \in 1 .. Len(o.slots) /\ o.slots[j] \in SlotType
<1>1. o.slots \in Seq(SlotType) /\ o.loaded \in Nat /\ o.count \in Nat
  BY DEF ObjectType, ObjectAssumption
<1>2. o.slots # <<>>
  BY <1>1 DEF Fits
<1>3. o.loaded <= Len(o.slots)
  BY <1>1, <1>2 DEF Fits
<1> QED BY <1>1, <1>3

(* The values of coil_u16_t and of a region or NULL. *)
Count   == 0 .. CountMod - 1
Address == 0 .. MaxRegion

(* An object with other arrays and counts. *)
With(o, headers, count, slots, loaded) ==
  [o EXCEPT !.headers = headers, !.count = count, !.slots = slots, !.loaded = loaded]

(* Such an object has what was put into it and else what it had. *)
LEMMA WithFacts ==
  ASSUME NEW o \in ObjectType, NEW headers \in Seq(HeaderType),
         NEW count \in Count, NEW slots \in Seq(SlotType), NEW loaded \in Count
  PROVE  LET q == With(o, headers, count, slots, loaded)
         IN  /\ q \in ObjectType
             /\ q.headers = headers /\ q.count = count
             /\ q.slots = slots /\ q.loaded = loaded
             /\ q.map = o.map /\ q.fd = o.fd /\ q.target = o.target
BY DEF ObjectType, With, Count

(* One lemma for each operation: types and array lengths survive it. *)
LEMMA ObjInitType ==
  ASSUME ObjectAssumption, TypeOK, Shape, ObjInit
  PROVE  TypeOK' /\ Shape'
BY EmptyObjectFacts DEF TypeOK, Shape, ObjInit

LEMMA ObjCleanupType ==
  ASSUME ObjectAssumption, TypeOK, Shape, ObjCleanup
  PROVE  TypeOK' /\ Shape'
<1>1. obj' = EmptyObject /\ phase' = "raw" /\ hs' = hs /\ file' = file
  BY DEF ObjCleanup
<1>2. mem' \in Memory
  BY ReleaseFacts DEF ObjCleanup, TypeOK, Memory
<1>3. fds' \in [Fd -> [open : BOOLEAN, pos : Nat]]
  <2>1. CASE obj.fd = NoFd
    BY <2>1 DEF ObjCleanup, TypeOK
  <2>2. CASE obj.fd # NoFd
    BY <2>2 DEF ObjCleanup, TypeOK, ObjectType
  <2> QED BY <2>1, <2>2
<1> QED BY <1>1, <1>2, <1>3, EmptyObjectFacts DEF TypeOK, Shape, Memory

LEMMA SetTargetDefaultsType ==
  ASSUME ObjectAssumption, TypeOK, Shape, NEW t \in Targets, SetTargetDefaults(t)
  PROVE  TypeOK' /\ Shape'
<1>1. obj' = [obj EXCEPT !.target = t] /\ UNCHANGED <<mem, hs, file, fds, phase>>
  BY DEF SetTargetDefaults
<1>2. obj' \in ObjectType
  BY <1>1 DEF TypeOK, ObjectType
<1>3. /\ obj'.count = obj.count /\ obj'.loaded = obj.loaded /\ obj'.map = obj.map
      /\ obj'.slots = obj.slots /\ obj'.headers = obj.headers
  BY <1>1 DEF TypeOK, ObjectType
<1> QED BY <1>1, <1>2, <1>3 DEF TypeOK, Shape, Fits

LEMMA FindSectionType ==
  ASSUME TypeOK, Shape, NEW n \in Names, FindSection(n)
  PROVE  TypeOK' /\ Shape'
BY DEF TypeOK, Shape, Fits, FindSection

LEMMA FillHandleType ==
  ASSUME ObjectAssumption, TypeOK, Shape, NEW h \in Handle, NEW cells \in Contents,
         FillHandle(h, cells)
  PROVE  TypeOK' /\ Shape'
<1>1. PICK o \in Filled(mem, cells, FALSE, 0, 0) : hs' = [hs EXCEPT ![h] = o.s] /\ mem' = o.mem
  BY DEF FillHandle
<1>2. mem \in Memory /\ cells \in Seq(Cells) /\ 0 \in Nat /\ FALSE \in BOOLEAN
  <2>1. cells \in Seq(Range(cells)) /\ Range(cells) \subseteq Cells
    BY DEF ObjectAssumption, Cells
  <2> QED BY <2>1 DEF TypeOK, Memory
<1>3. IsResult(o)
  BY <1>1, <1>2, FilledIsResult
<1> QED BY <1>1, <1>3 DEF IsResult, FillHandle, TypeOK, Shape, Memory

LEMMA DropHandleType ==
  ASSUME ObjectAssumption, TypeOK, Shape, NEW h \in Handle, DropHandle(h)
  PROVE  TypeOK' /\ Shape'
BY NoSlotType, ReleaseFacts DEF DropHandle, TypeOK, Shape, Memory

LEMMA DescriptorType ==
  ASSUME ObjectAssumption, TypeOK, Shape, NEW f \in Fd,
         OpenFd(f) \/ Rewind(f) \/ Truncate(f) \/ CloseFd(f)
  PROVE  TypeOK' /\ Shape'
<1>1. /\ UNCHANGED <<obj, mem, hs, phase>>
      /\ file' = file \/ file' = <<>>
  BY DEF OpenFd, Rewind, Truncate, CloseFd
<1>2. \E d \in [open : BOOLEAN, pos : Nat] : fds' = [fds EXCEPT ![f] = d]
  <2>1. fds[f] \in [open : BOOLEAN, pos : Nat]
    BY DEF TypeOK
  <2>2. CASE OpenFd(f)
    BY <2>2 DEF OpenFd
  <2>3. CASE Rewind(f) \/ Truncate(f)
    <3>1. fds' = [fds EXCEPT ![f] = [fds[f] EXCEPT !.pos = 0]]
      BY <2>3 DEF Rewind, Truncate
    <3> QED BY <2>1, <3>1
  <2>4. CASE CloseFd(f)
    <3>1. fds' = [fds EXCEPT ![f] = [fds[f] EXCEPT !.open = FALSE]]
      BY <2>4 DEF CloseFd
    <3> QED BY <2>1, <3>1
  <2> QED BY <2>2, <2>3, <2>4
<1>3. fds' \in [Fd -> [open : BOOLEAN, pos : Nat]]
  BY <1>2 DEF TypeOK
<1>4. file' \in Seq(Cells)
  <2>1. <<>> \in Seq(Cells)
    OBVIOUS
  <2> QED BY <1>1, <2>1 DEF TypeOK
<1> QED BY <1>1, <1>3, <1>4 DEF TypeOK, Shape, Fits

(* A new header goes behind the others, a new section to the end of the    *)
(* array.                                                                  *)
LEMMA GrownFacts ==
  ASSUME ObjectAssumption, NEW o \in ObjectType, Fits(o), NEW s \in SlotType
  PROVE  /\ Grown(o, s) \in Seq(SlotType) /\ Len(Grown(o, s)) = o.count + 1
         /\ Grown(o, s)[o.count + 1] = s
         /\ \A j \in 1 .. o.loaded : Grown(o, s)[j] = o.slots[j]
         /\ \A j \in o.loaded + 1 .. o.count : Grown(o, s)[j] = NoSlot
<1>1. o.count \in Nat /\ o.loaded \in Nat /\ o.loaded <= o.count
  BY DEF ObjectType, Fits, ObjectAssumption
<1>2. \A j \in 1 .. o.loaded : o.slots[j] \in SlotType
  BY LoadedSlots
<1>3. Grown(o, s) \in [1 .. o.count + 1 -> SlotType]
  BY <1>1, <1>2, NoSlotType DEF Grown
<1> QED BY <1>1, <1>3, FunctionIsSeq DEF Grown

(* The count after a section more. *)
LEMMA Wrapped ==
  ASSUME ObjectAssumption, NEW k \in 0 .. CountMod - 1
  PROVE  (k + 1) % CountMod = IF k + 1 = CountMod THEN 0 ELSE k + 1
<1>1. CASE k + 1 = CountMod
  BY <1>1 DEF ObjectAssumption
<1>2. CASE k + 1 # CountMod
  BY <1>2 DEF ObjectAssumption
<1> QED BY <1>1, <1>2

(* The new section is at index section_count, and the array reaches it. *)
LEMMA CreateSectionType ==
  ASSUME ObjectAssumption, Tidy, TypeOK, Shape, NEW n \in Names,
         NEW h \in Handle \cup {NoHandle}, CreateSection(n, h)
  PROVE  TypeOK' /\ Shape'
<1>0. obj \in ObjectType /\ phase = "ready" /\ UNCHANGED <<mem, file, fds, phase>>
  BY DEF CreateSection, TypeOK
<1>1. CASE UNCHANGED <<obj, hs>>
  BY <1>0, <1>1 DEF TypeOK, Shape, Fits
<1>2. CASE ~ UNCHANGED <<obj, hs>>
  <2> DEFINE k == obj.count
             hdr == SectionHeader(n, obj.target, IF h \in Handle THEN hs[h].size ELSE 0, 0)
             headers == Append(SubSeq(obj.headers, 1, k), hdr)
             count == (k + 1) % CountMod
             named == [obj EXCEPT !.headers = headers, !.count = count]
  <2>1. IF h \in Handle
          THEN /\ obj' = [named EXCEPT !.slots = Grown(obj, hs[h]),
                                       !.loaded = IF k >= @ THEN count ELSE @]
               /\ hs' = HandedOver(h)
          ELSE obj' = named /\ hs' = hs
    BY <1>2 DEF CreateSection
  <2>2. /\ k \in 0 .. CountMod - 1 /\ k <= Len(obj.headers) /\ obj.headers \in Seq(HeaderType)
        /\ obj.loaded \in Nat /\ obj.loaded <= k
    BY <1>0 DEF ObjectType, Shape, Fits, ObjectAssumption
  <2>3. hdr \in HeaderType
    BY <1>0 DEF SectionHeader, HeaderType, ObjectType, TypeOK, SlotType
  <2>4. headers \in Seq(HeaderType) /\ Len(headers) = k + 1
    <3> HIDE DEF hdr
    <3> QED BY <2>2, <2>3
  <2>5. count \in Count /\ count \in Nat /\ count <= k + 1 /\ (count = 0 \/ count = k + 1)
    BY <2>2, Wrapped DEF ObjectAssumption, Count
  <2> HIDE DEF headers, count, hdr
  <2>6. CASE h \in Handle
    <3> DEFINE slots == Grown(obj, hs[h])
    <3>1. hs[h] \in SlotType
      BY <2>6 DEF TypeOK
    <3>2. slots \in Seq(SlotType) /\ Len(slots) = k + 1
      BY <1>0, <3>1, GrownFacts DEF Shape
    <3>3. obj' = [obj EXCEPT !.headers = headers, !.count = count,
                             !.slots = slots, !.loaded = count]
      BY <1>0, <2>1, <2>2, <2>6 DEF ObjectType
    <3> HIDE DEF slots
    <3>4. obj' = With(obj, headers, count, slots, count)
      BY <3>3 DEF With
    <3>5. /\ obj' \in ObjectType /\ obj'.headers = headers /\ obj'.count = count
          /\ obj'.slots = slots /\ obj'.loaded = count
      BY <1>0, <2>4, <2>5, <3>2, <3>4, WithFacts
    <3>6. Fits(obj') /\ obj'.count <= Len(obj'.headers)
      BY <2>2, <2>4, <2>5, <3>2, <3>5 DEF Fits, ObjectAssumption
    <3>7. hs' \in [Handle -> SlotType]
      BY <2>1, <2>6, NoSlotType DEF HandedOver, TypeOK
    <3> QED BY <1>0, <3>5, <3>6, <3>7 DEF TypeOK, Shape
  <2>7. CASE h \notin Handle
    <3>1. obj.slots = <<>> /\ obj.loaded = 0
      BY <2>7 DEF CreateSection, Careful, Called, Tidy, Shape, Fits
    <3>2. obj' = named /\ hs' = hs
      BY <2>1, <2>7
    <3>3. obj' = With(obj, headers, count, obj.slots, obj.loaded)
      BY <1>0, <3>2 DEF With, ObjectType
    <3>4. obj.slots \in Seq(SlotType) /\ obj.loaded \in Count
      BY <1>0 DEF ObjectType, Count
    <3>5. /\ obj' \in ObjectType /\ obj'.headers = headers /\ obj'.count = count
          /\ obj'.slots = obj.slots /\ obj'.loaded = obj.loaded
      <4> DEFINE slots  == obj.slots
                 loaded == obj.loaded
                 q      == With(obj, headers, count, slots, loaded)
      <4>1. slots \in Seq(SlotType) /\ loaded \in Count /\ obj' = q
        BY <3>3, <3>4
      <4> HIDE DEF slots, loaded
      <4>2. /\ q \in ObjectType /\ q.headers = headers /\ q.count = count
            /\ q.slots = slots /\ q.loaded = loaded
        BY <1>0, <2>4, <2>5, <4>1, WithFacts
      <4> HIDE DEF q
      <4> QED BY ONLY <4>1, <4>2 DEF slots, loaded
    <3>6. Fits(obj') /\ obj'.count <= Len(obj'.headers)
      BY <2>2, <2>4, <2>5, <3>1, <3>5 DEF Fits, ObjectAssumption
    <3> QED BY <1>0, <3>2, <3>5, <3>6 DEF TypeOK, Shape
  <2> QED BY <2>6, <2>7
<1> QED BY <1>1, <1>2

(* Shifting moves the loaded sections behind section i down by one. *)
LEMMA ShiftedFacts ==
  ASSUME ObjectAssumption, NEW o \in ObjectType, Fits(o), NEW i \in Nat, i < o.count
  PROVE  /\ Shifted(o, i) \in Seq(SlotType) /\ Len(Shifted(o, i)) = Len(o.slots)
         /\ o.slots = <<>> => Shifted(o, i) = <<>>
<1> DEFINE last    == i = o.count - 1 \/ i >= o.loaded - 1
           cleared == IF Resident(o, i) /\ ~o.slots[i + 1].view
                        THEN [o.slots EXCEPT ![i + 1].data = 0] ELSE o.slots
           shifted == [j \in DOMAIN cleared |->
                         IF ~last /\ j \in i + 1 .. o.loaded - 1
                           THEN cleared[j + 1] ELSE cleared[j]]
<1>1. /\ o.slots \in Seq(SlotType) /\ o.loaded \in Nat /\ o.count \in Nat
      /\ Len(o.slots) \in Nat /\ o.loaded <= Len(o.slots)
  BY LoadedSlots DEF ObjectType, ObjectAssumption, Fits
<1>2. cleared \in Seq(SlotType) /\ Len(cleared) = Len(o.slots)
  <2>1. CASE Resident(o, i) /\ ~o.slots[i + 1].view
    <3> DEFINE e == [o.slots[i + 1] EXCEPT !.data = 0]
    <3>1. i + 1 \in 1 .. Len(o.slots) /\ o.slots[i + 1] \in SlotType
      BY <1>1, <2>1, LoadedSlots DEF Resident
    <3>2. e \in SlotType
      BY <3>1 DEF SlotType, ObjectAssumption
    <3>3. cleared = [o.slots EXCEPT ![i + 1] = e]
      BY <2>1, <3>1
    <3> HIDE DEF e, cleared
    <3>4. /\ [o.slots EXCEPT ![i + 1] = e] \in Seq(SlotType)
          /\ Len([o.slots EXCEPT ![i + 1] = e]) = Len(o.slots)
      BY ONLY <1>1, <3>1, <3>2, ReplacedFacts
    <3> QED BY <3>3, <3>4
  <2>2. CASE ~(Resident(o, i) /\ ~o.slots[i + 1].view)
    BY <1>1, <2>2
  <2> QED BY <2>1, <2>2
<1>3. Shifted(o, i) = shifted
  BY DEF Shifted
<1> HIDE DEF cleared
<1>4. DOMAIN cleared = 1 .. Len(o.slots)
  BY <1>2
<1>5. shifted \in [1 .. Len(o.slots) -> SlotType]
  BY <1>1, <1>2, <1>4
<1> HIDE DEF shifted
<1>6. shifted \in Seq(SlotType) /\ Len(shifted) = Len(o.slots)
  BY <1>1, <1>5, FunctionIsSeq
<1>7. o.slots = <<>> => shifted = <<>>
  BY <1>6
<1> QED BY <1>3, <1>6, <1>7

(* A deletion shortens the headers and the counts, not the array. *)
LEMMA DeleteSectionType ==
  ASSUME ObjectAssumption, TypeOK, Shape, NEW i \in Nat, DeleteSection(i)
  PROVE  TypeOK' /\ Shape'
<1>0. obj \in ObjectType /\ phase = "ready" /\ UNCHANGED <<hs, file, fds, phase>>
  BY DEF DeleteSection, TypeOK
<1>1. CASE UNCHANGED <<obj, mem>>
  BY <1>0, <1>1 DEF TypeOK, Shape, Fits
<1>2. CASE i < obj.count
  <2>1. /\ mem' = IF Resident(obj, i) THEN Freed(obj.slots[i + 1]) ELSE mem
        /\ obj' = With(obj, RemoveAt(obj.headers, i + 1), obj.count - 1,
                        Shifted(obj, i), Fewer(obj.loaded))
    <3>1. ~(i >= obj.count)
      BY <1>0, <1>2 DEF ObjectType, ObjectAssumption
    <3>2. obj' = [obj EXCEPT !.headers = RemoveAt(obj.headers, i + 1), !.slots = Shifted(obj, i),
                             !.count = obj.count - 1, !.loaded = Fewer(obj.loaded)]
      BY <3>1 DEF DeleteSection
    <3>3. mem' = IF Resident(obj, i) THEN Freed(obj.slots[i + 1]) ELSE mem
      BY <3>1 DEF DeleteSection
    <3> QED BY <1>0, <3>2, <3>3 DEF With, ObjectType
  <2>2. /\ obj.headers \in Seq(HeaderType) /\ obj.count <= Len(obj.headers)
        /\ obj.loaded \in 0 .. CountMod - 1 /\ obj.loaded <= obj.count
        /\ obj.count \in 0 .. CountMod - 1 /\ i + 1 \in 1 .. Len(obj.headers)
    BY <1>0, <1>2 DEF ObjectType, Shape, Fits
  <2>3. RemoveAt(obj.headers, i + 1) \in Seq(HeaderType)
        /\ Len(RemoveAt(obj.headers, i + 1)) = Len(obj.headers) - 1
    BY <2>2, RemoveAtFacts
  <2>4. /\ Shifted(obj, i) \in Seq(SlotType) /\ Len(Shifted(obj, i)) = Len(obj.slots)
        /\ obj.slots = <<>> => Shifted(obj, i) = <<>>
    BY <1>0, <1>2, ShiftedFacts DEF Shape
  <2>5. /\ obj' \in ObjectType
        /\ obj'.count = obj.count - 1 /\ obj'.loaded = Fewer(obj.loaded)
        /\ obj'.headers = RemoveAt(obj.headers, i + 1)
        /\ obj'.slots = Shifted(obj, i)
    <3>1. Fewer(obj.loaded) \in Count /\ obj.count - 1 \in Count
      BY <1>2, <2>2 DEF Fewer, ObjectAssumption, Count
    <3>2. Shifted(obj, i) \in Seq(SlotType)
      BY <2>4
    <3> QED BY <1>0, <2>1, <2>3, <3>1, <3>2, WithFacts
  <2>6. Fits(obj') /\ obj'.count <= Len(obj'.headers)
    <3>1. /\ obj'.count = obj.count - 1 /\ obj'.loaded = Fewer(obj.loaded)
          /\ Len(obj'.headers) = Len(obj.headers) - 1
          /\ obj'.slots = Shifted(obj, i)
      BY <2>3, <2>5
    <3>2. Fewer(obj.loaded) <= obj.count - 1 /\ (obj.loaded = 0 => Fewer(obj.loaded) = 0)
      BY <1>2, <2>2 DEF Fewer
    <3>3. Shifted(obj, i) # <<>> => obj.slots # <<>>
      BY <2>4
    <3>4. Shifted(obj, i) = <<>> => obj.slots = <<>>
      BY <2>4, <1>0 DEF ObjectType
    <3>5. obj.slots \in Seq(SlotType)
      BY <1>0 DEF ObjectType
    <3> QED BY <2>2, <2>4, <3>1, <3>2, <3>3, <3>4, <3>5 DEF Shape, Fits
  <2>7. mem' \in Memory
    <3>1. CASE Resident(obj, i)
      <4>1. obj.slots[i + 1] \in SlotType
        BY <1>0, <2>2, <3>1, LoadedSlots DEF Resident, Shape
      <4> QED BY <2>1, <3>1, <4>1, FreedFacts
    <3>2. CASE ~Resident(obj, i)
      BY <2>1, <3>2 DEF TypeOK, Memory
    <3> QED BY <3>1, <3>2
  <2> QED BY <1>0, <2>5, <2>6, <2>7 DEF TypeOK, Shape, Memory
<1>3. CASE i >= obj.count
  BY <1>1, <1>3 DEF DeleteSection
<1> QED BY <1>0, <1>2, <1>3 DEF ObjectType, ObjectAssumption

(* An update replaces a section in its place. *)
LEMMA UpdateSectionType ==
  ASSUME ObjectAssumption, TypeOK, Shape, NEW i \in Nat, NEW h \in Handle,
         UpdateSection(i, h)
  PROVE  TypeOK' /\ Shape'
<1>0. obj \in ObjectType /\ phase = "ready" /\ UNCHANGED <<file, fds, phase>>
  BY DEF UpdateSection, TypeOK
<1>1. CASE UNCHANGED <<obj, mem, hs>>
  BY <1>0, <1>1 DEF TypeOK, Shape, Fits
<1>2. CASE i < obj.count
  <2> DEFINE hdr     == [obj.headers[i + 1] EXCEPT !.size = hs[h].size]
             headers == [obj.headers EXCEPT ![i + 1] = hdr]
             sized   == [obj EXCEPT !.headers = headers]
  <2>1. hs[h] \in SlotType
    BY DEF TypeOK
  <2>2. /\ obj.headers \in Seq(HeaderType) /\ obj.count <= Len(obj.headers)
        /\ i + 1 \in 1 .. Len(obj.headers)
    BY <1>0, <1>2 DEF ObjectType, Shape
  <2>3. hdr \in HeaderType
    <3>1. obj.headers[i + 1] \in HeaderType /\ hs[h].size \in Nat
      BY <2>1, <2>2 DEF SlotType
    <3> QED BY <3>1 DEF HeaderType
  <2>4. headers \in Seq(HeaderType) /\ Len(headers) = Len(obj.headers)
    <3> HIDE DEF hdr
    <3> QED BY ONLY <2>2, <2>3, ReplacedFacts
  <2>5. IF obj.slots # <<>> /\ i < obj.loaded
          THEN /\ mem' = Freed(obj.slots[i + 1])
               /\ obj' = [sized EXCEPT !.slots = [obj.slots EXCEPT ![i + 1] = hs[h]]]
               /\ hs' = HandedOver(h)
          ELSE obj' = sized /\ UNCHANGED <<mem, hs>>
    <3>1. ~(i >= obj.count)
      BY <1>0, <1>2 DEF ObjectType, ObjectAssumption
    <3>2. sized = [obj EXCEPT !.headers[i + 1].size = hs[h].size]
      BY <1>0 DEF ObjectType
    <3>3. [sized EXCEPT !.slots[i + 1] = hs[h]]
            = [sized EXCEPT !.slots = [obj.slots EXCEPT ![i + 1] = hs[h]]]
      BY <1>0 DEF ObjectType
    <3> HIDE DEF sized, headers
    <3> QED BY <3>1, <3>2, <3>3 DEF UpdateSection
  <2> HIDE DEF headers
  <2>6. sized \in ObjectType /\ Fits(sized) /\ sized.count <= Len(sized.headers)
    BY <1>0, <2>2, <2>4 DEF ObjectType, Shape, Fits
  <2>7. CASE obj.slots # <<>> /\ i < obj.loaded
    <3> DEFINE slots == [obj.slots EXCEPT ![i + 1] = hs[h]]
    <3>1. i + 1 \in 1 .. Len(obj.slots) /\ obj.slots[i + 1] \in SlotType
          /\ obj.slots \in Seq(SlotType)
      BY <1>0, <2>7, LoadedSlots DEF Shape, ObjectType
    <3>2. slots \in Seq(SlotType) /\ Len(slots) = Len(obj.slots)
      BY ONLY <2>1, <3>1, ReplacedFacts
    <3> HIDE DEF slots
    <3>3. slots # <<>>
      BY <3>1, <3>2
    <3>4. obj' = [obj EXCEPT !.headers = headers, !.slots = slots]
      BY <1>0, <2>5, <2>7 DEF slots, ObjectType
    <3>5. obj' \in ObjectType /\ Fits(obj') /\ obj'.count <= Len(obj'.headers)
      BY <1>0, <2>2, <2>4, <2>7, <3>2, <3>3, <3>4 DEF ObjectType, Shape, Fits
    <3>6. mem' \in Memory
      BY <2>5, <2>7, <3>1, FreedFacts
    <3>7. hs' \in [Handle -> SlotType]
      BY <2>5, <2>7, NoSlotType DEF HandedOver, TypeOK
    <3> QED BY <1>0, <3>5, <3>6, <3>7 DEF TypeOK, Shape, Memory
  <2>8. CASE ~(obj.slots # <<>> /\ i < obj.loaded)
    BY <1>0, <2>5, <2>6, <2>8 DEF TypeOK, Shape
  <2> QED BY <2>7, <2>8
<1>3. CASE i >= obj.count
  BY <1>1, <1>3 DEF UpdateSection
<1> QED BY <1>0, <1>2, <1>3 DEF ObjectType, ObjectAssumption

(* The array of a load is the object's, or a new one of NoSlots.           *)
LEMMA SectionsArrayFacts ==
  ASSUME ObjectAssumption, TypeOK, Shape
  PROVE  /\ SectionsArray \in Seq(SlotType) /\ obj.count <= Len(SectionsArray)
         /\ \A j \in 1 .. obj.loaded : SectionsArray[j] = obj.slots[j]
<1>1. obj.count \in Nat /\ obj.loaded \in Nat /\ obj.slots \in Seq(SlotType)
  BY DEF TypeOK, ObjectType, ObjectAssumption
<1>2. CASE obj.slots = <<>>
  <2> DEFINE array == [j \in 1 .. obj.count |-> NoSlot]
  <2>1. array \in [1 .. obj.count -> SlotType]
    BY NoSlotType
  <2>2. SectionsArray = array
    BY <1>2 DEF SectionsArray
  <2> HIDE DEF array
  <2>3. array \in Seq(SlotType) /\ Len(array) = obj.count
    BY <1>1, <2>1, FunctionIsSeq
  <2>4. obj.loaded = 0
    BY <1>2 DEF Shape, Fits
  <2> QED BY <1>1, <2>2, <2>3, <2>4
<1>3. CASE obj.slots # <<>>
  BY <1>1, <1>3 DEF SectionsArray, Shape, Fits
<1> QED BY <1>2, <1>3

(* What the client receives is a section. *)
LEMMA HandedType ==
  ASSUME ObjectAssumption, TypeOK, NEW h \in Handle, NEW o, IsResult(o), Handed(h, o)
  PROVE  /\ hs' \in [Handle -> SlotType]
         /\ fds' \in [Fd -> [open : BOOLEAN, pos : Nat]]
<1>1. hs' \in [Handle -> SlotType]
  BY DEF Handed, IsResult, TypeOK
<1>2. fds' \in [Fd -> [open : BOOLEAN, pos : Nat]]
  <2>1. CASE obj.fd = NoFd
    BY <2>1 DEF Handed, TypeOK
  <2>2. CASE obj.fd # NoFd
    <3>1. obj.fd \in Fd /\ fds[obj.fd] \in [open : BOOLEAN, pos : Nat] /\ o.pos \in Nat
      BY <2>2 DEF TypeOK, ObjectType, IsResult
    <3>2. fds' = [fds EXCEPT ![obj.fd].pos = o.pos]
      BY <2>2 DEF Handed
    <3> QED BY <3>1, <3>2 DEF TypeOK
  <2> QED BY <2>1, <2>2
<1> QED BY <1>1, <1>2

(* A load may set loaded_count to any index below section_count. *)
LEMMA LoadSectionType ==
  ASSUME ObjectAssumption, TypeOK, Shape, NEW i \in Nat, NEW h \in Handle, NEW flags,
         LoadSection(i, h, flags)
  PROVE  TypeOK' /\ Shape'
<1>0. /\ obj \in ObjectType /\ phase = "ready" /\ file' = file
      /\ obj.count \in Nat /\ obj.loaded \in Nat /\ obj.loaded <= obj.count
  BY DEF LoadSection, TypeOK, ObjectType, ObjectAssumption, Shape, Fits
<1>1. CASE UNCHANGED <<obj, mem, hs, fds, phase>>
  BY <1>0, <1>1 DEF TypeOK, Shape, Fits
<1>2. CASE Resident(obj, i) /\ LoadResident(i, h, flags)
  <2> DEFINE view == "VIEW" \in flags
  <2>1. PICK o \in Copied(i, view) : Handed(h, o) /\ mem' = o.mem
    BY <1>2 DEF LoadResident
  <2>2. obj.loaded <= Len(obj.slots) /\ view \in BOOLEAN
    BY <1>0, LoadedSlots DEF Shape
  <2> HIDE DEF view
  <2>3. IsResult(o)
    BY <1>2, <2>2, CopiedIsResult
  <2>4. UNCHANGED <<obj, phase>>
    BY <1>2 DEF LoadResident
  <2>5. /\ hs' \in [Handle -> SlotType]
        /\ fds' \in [Fd -> [open : BOOLEAN, pos : Nat]]
    BY <2>1, <2>3, HandedType
  <2> QED BY <1>0, <2>1, <2>3, <2>4, <2>5 DEF TypeOK, Shape, Fits, IsResult, Memory
<1>3. CASE i < obj.count /\ LoadFetched(i, h, flags)
  <2> DEFINE array == SectionsArray
             held  == [obj EXCEPT !.slots = array]
  <2>1. array \in Seq(SlotType) /\ obj.count <= Len(array) /\ i < Len(array)
        /\ Len(array) \in Nat
    BY <1>0, <1>3, SectionsArrayFacts
  <2> HIDE DEF array
  <2>2. ~(i >= Len(array))
    BY <2>1
  <2>3. PICK o \in Fetched(obj.headers[i + 1], flags) :
          /\ Handed(h, o)
          /\ IF o.err # "GOOD" THEN obj' = held /\ mem' = o.mem
             ELSE \E k \in Kept(array, i, o) :
                    /\ obj' = [held EXCEPT !.slots = k.slots,
                                           !.loaded = IF i >= @ THEN i + 1 ELSE @]
                    /\ mem' = k.mem
    BY <1>3, <2>2 DEF LoadFetched, array
  <2>4. UNCHANGED phase
    BY <1>3, <2>2 DEF LoadFetched, array
  <2>5. obj.headers[i + 1] \in HeaderType
    BY <1>0, <1>3 DEF ObjectType, Shape
  <2>6. IsResult(o)
    BY <2>3, <2>5, FetchedIsResult
  <2>7. /\ hs' \in [Handle -> SlotType]
        /\ fds' \in [Fd -> [open : BOOLEAN, pos : Nat]]
    BY <2>3, <2>6, HandedType
  <2>8. /\ obj.headers \in Seq(HeaderType) /\ obj.count \in Count
        /\ obj.loaded \in Count /\ obj.count <= Len(obj.headers)
    BY <1>0 DEF ObjectType, Shape, Count
  <2>9. ASSUME NEW slots \in Seq(SlotType), Len(slots) = Len(array),
               NEW loaded \in Count, loaded <= obj.count,
               obj' = With(obj, obj.headers, obj.count, slots, loaded), mem' \in Memory
        PROVE  TypeOK' /\ Shape'
    <3>1. /\ obj' \in ObjectType /\ obj'.headers = obj.headers /\ obj'.count = obj.count
          /\ obj'.slots = slots /\ obj'.loaded = loaded
      <4> DEFINE q == With(obj, obj.headers, obj.count, slots, loaded)
      <4>1. /\ q \in ObjectType /\ q.headers = obj.headers /\ q.count = obj.count
            /\ q.slots = slots /\ q.loaded = loaded
        BY <1>0, <2>8, <2>9, WithFacts
      <4> HIDE DEF q
      <4>2. obj' = q
        BY <2>9 DEF q
      <4> QED BY ONLY <4>1, <4>2
    <3>2. Fits(obj') /\ obj'.count <= Len(obj'.headers)
      BY <1>0, <1>3, <2>1, <2>8, <2>9, <3>1 DEF Fits
    <3> QED BY <1>0, <2>4, <2>7, <2>9, <3>1, <3>2 DEF TypeOK, Shape, Memory
  <2>10. CASE o.err # "GOOD"
    <3>1. obj' = With(obj, obj.headers, obj.count, array, obj.loaded) /\ mem' \in Memory
      BY <1>0, <2>3, <2>6, <2>10 DEF With, ObjectType, IsResult
    <3> QED BY <1>0, <2>1, <2>8, <2>9, <3>1
  <2>11. CASE o.err = "GOOD"
    <3> DEFINE loaded == IF i >= obj.loaded THEN i + 1 ELSE obj.loaded
    <3>1. PICK k \in Kept(array, i, o) :
                 /\ obj' = [held EXCEPT !.slots = k.slots,
                                        !.loaded = IF i >= @ THEN i + 1 ELSE @]
                 /\ mem' = k.mem
      BY <2>3, <2>11
    <3>2. k.slots \in Seq(SlotType) /\ Len(k.slots) = Len(array) /\ k.mem \in Memory
      BY <2>1, <2>6, <2>11, KeptFacts
    <3>3. loaded \in Count /\ loaded <= obj.count
      BY <1>0, <1>3, <2>8 DEF ObjectAssumption, Count
    <3>4. obj' = With(obj, obj.headers, obj.count, k.slots, loaded)
      BY <1>0, <3>1 DEF With, ObjectType
    <3> HIDE DEF loaded
    <3> QED BY <2>9, <3>1, <3>2, <3>3, <3>4
  <2> QED BY <2>10, <2>11
<1>4. CASE i >= obj.count
  BY <1>1, <1>4 DEF LoadSection
<1>5. CASE i < obj.count
  <2>1. ~(i >= obj.count)
    BY <1>0, <1>5
  <2> QED BY <1>1, <1>2, <1>3, <1>5, <2>1 DEF LoadSection
<1> QED BY <1>0, <1>4, <1>5

-----------------------------------------------------------------------------
(***************************************************************************)
(* Loading and saving                                                      *)
(***************************************************************************)

(* Section headers from the file are section headers, whatever it holds.   *)
LEMMA HeadersFacts ==
  ASSUME ObjectAssumption, TypeOK, NEW at \in Nat, NEW k \in Nat
  PROVE  Headers(at, k) \in Seq(HeaderType) /\ Len(Headers(at, k)) = k
<1>1. ASSUME NEW j \in Nat PROVE HeaderAt(j) \in HeaderType
  BY DEF HeaderAt, HeaderType, SectionHeader, ObjectAssumption
<1>2. Headers(at, k) \in [1 .. k -> HeaderType]
  BY <1>1 DEF Headers
<1> QED BY <1>2, FunctionIsSeq

(* A count that was read is a coil_u16_t. *)
LEMMA CountIsShort ==
  ASSUME ObjectAssumption, NEW cell, IsHeader(cell)
  PROVE  cell.section_count \in Count
BY DEF IsHeader, ObjectHeaders, ObjectHeader, Count

LEMMA PositionSet ==
  ASSUME TypeOK, NEW f \in Fd, NEW p \in Nat, fds' = [fds EXCEPT ![f].pos = p]
  PROVE  fds' \in [Fd -> [open : BOOLEAN, pos : Nat]]
BY DEF TypeOK

(* An object that was just loaded. *)
Fresh(f, map, k, headers) ==
  [EmptyObject EXCEPT !.fd = f, !.map = map, !.count = k, !.headers = headers]

(* Loads that fail and loads that succeed leave such an object. *)
LEMMA FreshIs ==
  ASSUME ObjectAssumption, NEW f, NEW k, NEW headers
  PROVE  /\ [EmptyObject EXCEPT !.fd = f, !.count = k] = Fresh(f, 0, k, <<>>)
         /\ [EmptyObject EXCEPT !.fd = f, !.count = k, !.headers = headers]
              = Fresh(f, 0, k, headers)
<1>1. EmptyObject \in ObjectType /\ EmptyObject.map = 0 /\ EmptyObject.headers = <<>>
  BY EmptyObjectFacts DEF EmptyObject
<1> QED BY <1>1 DEF ObjectType, Fresh

LEMMA FreshFacts ==
  ASSUME ObjectAssumption, NEW f \in Fd, NEW map \in Address,
         NEW k \in Count, NEW headers \in Seq(HeaderType)
  PROVE  LET o == Fresh(f, map, k, headers)
         IN  /\ o \in ObjectType /\ Fits(o) /\ o.slots = <<>> /\ o.loaded = 0
             /\ o.map = map /\ o.count = k /\ o.headers = headers /\ o.fd = f
<1> DEFINE o == Fresh(f, map, k, headers)
<1>1. EmptyObject \in ObjectType /\ EmptyObject.slots = <<>> /\ EmptyObject.loaded = 0
  BY EmptyObjectFacts DEF EmptyObject
<1>2. /\ o \in ObjectType /\ o.slots = <<>> /\ o.loaded = 0
      /\ o.map = map /\ o.count = k /\ o.headers = headers /\ o.fd = f
  BY <1>1 DEF Fresh, ObjectType, Count, Address
<1> HIDE DEF o
<1>3. Fits(o)
  BY <1>2 DEF Fits, ObjectAssumption, Count
<1> QED BY <1>2, <1>3 DEF o

(* A load that fails leaves no arrays behind. *)
LEMMA LoadFailsType ==
  ASSUME ObjectAssumption, TypeOK, Shape, NEW op, NEW err, NEW f \in Fd,
         NEW k \in Count, NEW p \in Nat, LoadFails(op, err, f, k, p)
  PROVE  TypeOK' /\ Shape'
<1>1. obj' = [EmptyObject EXCEPT !.fd = f, !.count = k] /\ phase' = "failed"
      /\ UNCHANGED <<mem, hs, file>>
  BY DEF LoadFails
<1>2. fds' \in [Fd -> [open : BOOLEAN, pos : Nat]]
  BY PositionSet DEF LoadFails
<1>3. obj' \in ObjectType /\ Fits(obj') /\ obj'.slots = <<>> /\ obj'.map = 0
  <2>1. obj' = Fresh(f, 0, k, <<>>)
    BY <1>1, FreshIs
  <2>2. <<>> \in Seq(HeaderType) /\ 0 \in Address
    BY DEF ObjectAssumption, Address
  <2> DEFINE none == <<>>
             null == 0
             q    == Fresh(f, null, k, none)
  <2>3. none \in Seq(HeaderType) /\ null \in Address /\ obj' = q
    BY <2>1, <2>2
  <2> HIDE DEF none, null
  <2>4. q \in ObjectType /\ Fits(q) /\ q.slots = <<>> /\ q.map = null
    BY <2>3, FreshFacts
  <2> HIDE DEF q
  <2> QED BY ONLY <2>3, <2>4 DEF null
<1> QED BY <1>1, <1>2, <1>3 DEF TypeOK, Shape

(* A load through the descriptor has the headers it counts. *)
LEMMA LoadFileType ==
  ASSUME ObjectAssumption, TypeOK, Shape, NEW f \in Fd, LoadFile(f)
  PROVE  TypeOK' /\ Shape'
<1> DEFINE p    == fds[f].pos
           cell == CellIn(file, p + 1)
           k    == IF IsHeader(cell) THEN cell.section_count ELSE 0
<1>1. p \in Nat /\ p + 1 \in Nat
  BY DEF TypeOK
<1> HIDE DEF cell, p
<1>2. k \in Count /\ k \in Nat /\ 0 \in Count
  BY CountIsShort DEF ObjectAssumption, Count
<1> HIDE DEF k
<1>3. \A n \in {0} \cup ReadCounts(p + 1, k) : p + 1 + n \in Nat
  <2>1. \A n \in ReadCounts(p + 1, k) : n \in Nat
    BY <1>1, <1>2, ReadCountsFacts
  <2> QED BY <1>1, <2>1
<1>4. \/ LoadFails("load_file", "IO", f, 0, p)
      \/ LoadFails("load_file", "FORMAT", f, 0, p + 1)
      \/ LoadFails("load_file", "NOMEM", f, k, p + 1)
      \/ \E n \in {0} \cup ReadCounts(p + 1, k) :
           LoadFails("load_file", "IO", f, k, p + 1 + n)
      \/ /\ obj' = [EmptyObject EXCEPT !.fd = f, !.count = k,
                                        !.headers = Headers(p + 1, k)]
         /\ fds' = [fds EXCEPT ![f].pos = p + 1 + k]
         /\ phase' = "ready"
         /\ UNCHANGED <<mem, hs, file>>
  BY DEF LoadFile, p, cell, k
<1>5. CASE LoadFails("load_file", "IO", f, 0, p)
  BY <1>1, <1>2, <1>5, LoadFailsType
<1>6. CASE LoadFails("load_file", "FORMAT", f, 0, p + 1)
  BY <1>1, <1>2, <1>6, LoadFailsType
<1>7. CASE LoadFails("load_file", "NOMEM", f, k, p + 1)
  BY <1>1, <1>2, <1>7, LoadFailsType
<1>8. CASE \E n \in {0} \cup ReadCounts(p + 1, k) :
             LoadFails("load_file", "IO", f, k, p + 1 + n)
  BY <1>2, <1>3, <1>8, LoadFailsType
<1>9. CASE /\ obj' = [EmptyObject EXCEPT !.fd = f, !.count = k,
                                         !.headers = Headers(p + 1, k)]
           /\ fds' = [fds EXCEPT ![f].pos = p + 1 + k]
           /\ phase' = "ready"
           /\ UNCHANGED <<mem, hs, file>>
  <2>1. Headers(p + 1, k) \in Seq(HeaderType) /\ Len(Headers(p + 1, k)) = k
    BY <1>1, <1>2, HeadersFacts
  <2>2. obj' = Fresh(f, 0, k, Headers(p + 1, k))
    BY <1>9, FreshIs
  <2>3. 0 \in Address
    BY DEF ObjectAssumption, Address
  <2>4. obj' \in ObjectType /\ Fits(obj') /\ obj'.count <= Len(obj'.headers)
    BY <1>2, <2>1, <2>2, <2>3, FreshFacts
  <2>5. fds' \in [Fd -> [open : BOOLEAN, pos : Nat]]
    <3>1. p + 1 + k \in Nat
      BY <1>1, <1>2
    <3> QED BY <1>9, <3>1, PositionSet
  <2> QED BY <1>9, <2>4, <2>5 DEF TypeOK, Shape
<1> QED BY <1>4, <1>5, <1>6, <1>7, <1>8, <1>9

(* So has a mapping: what is not in the file reads as zero. *)
LEMMA MmapType ==
  ASSUME ObjectAssumption, TypeOK, Shape, NEW f \in Fd, Mmap(f)
  PROVE  TypeOK' /\ Shape'
<1>0. 0 \in Nat /\ 0 \in Count /\ mem \in Memory /\ file \in Seq(Cells)
  BY DEF ObjectAssumption, TypeOK, Memory, Count
<1>1. CASE LoadFails("mmap", "IO", f, 0, 0) \/ LoadFails("mmap", "FORMAT", f, 0, 0)
  BY <1>0, <1>1, LoadFailsType
<1>2. CASE IsHeader(file[1]) /\ LoadFails("mmap", "NOMEM", f, file[1].section_count, 0)
  BY <1>0, <1>2, CountIsShort, LoadFailsType
<1>3. CASE /\ IsHeader(file[1])
           /\ \E a \in {x \in Alloc(mem, file) : x.r # 0} :
                /\ mem' = a.mem
                /\ obj' = [EmptyObject EXCEPT
                             !.fd = f, !.map = a.r, !.count = file[1].section_count,
                             !.headers = Headers(1, file[1].section_count)]
           /\ fds' = [fds EXCEPT ![f].pos = 0]
           /\ phase' = "ready"
           /\ UNCHANGED <<hs, file>>
  <2> DEFINE k == file[1].section_count
  <2>1. PICK a \in Alloc(mem, file) :
          /\ mem' = a.mem
          /\ obj' = [EmptyObject EXCEPT !.fd = f, !.map = a.r, !.count = k,
                                        !.headers = Headers(1, k)]
    BY <1>3
  <2>2. k \in Count /\ k \in Nat /\ 1 \in Nat
    BY <1>3, CountIsShort DEF Count
  <2> HIDE DEF k
  <2>3. Headers(1, k) \in Seq(HeaderType) /\ Len(Headers(1, k)) = k
    BY <2>2, HeadersFacts
  <2>4. a.mem \in Memory /\ a.r \in Address
    BY <1>0, AllocFacts DEF Address
  <2>5. obj' \in ObjectType /\ Fits(obj') /\ obj'.count <= Len(obj'.headers)
    <3>1. obj' = Fresh(f, a.r, k, Headers(1, k))
      BY <2>1 DEF Fresh
    <3> QED BY <2>2, <2>3, <2>4, <3>1, FreshFacts
  <2>6. fds' \in [Fd -> [open : BOOLEAN, pos : Nat]]
    BY <1>0, <1>3, PositionSet
  <2> QED BY <1>3, <2>1, <2>4, <2>5, <2>6 DEF TypeOK, Shape, Memory
<1> QED BY <1>1, <1>2, <1>3 DEF Mmap

(***************************************************************************)
(* What converting a mapped object leaves: the mapping is gone, and every  *)
(* loaded section is empty or has a region of its own that was free.       *)
(***************************************************************************)
Detached(u) ==
  /\ u.obj.map = 0 /\ Len(u.obj.slots) = obj.loaded
  /\ \A j \in 1 .. obj.loaded :
       \/ u.obj.slots[j] = NoSlot
       \/ /\ u.obj.slots[j].data \in FreeRegions(mem)
          /\ ~u.obj.slots[j].view /\ ~u.obj.slots[j].mapped
  /\ \A j, k \in 1 .. obj.loaded :
       u.obj.slots[j].data = u.obj.slots[k].data /\ u.obj.slots[j].data # 0 => j = k
  /\ \A r \in Region :
       u.mem[r].live = /\ r # obj.map
                       /\ mem[r].live \/ \E j \in 1 .. obj.loaded : u.obj.slots[j].data = r

Converted(o, slots) == [o EXCEPT !.map = 0, !.slots = slots]

(* A conversion changes the mapping and the array only. *)
LEMMA ConvertedFacts ==
  ASSUME ObjectAssumption, NEW o \in ObjectType, NEW slots \in Seq(SlotType),
         NEW q, q = Converted(o, slots)
  PROVE  /\ q \in ObjectType /\ q.map = 0 /\ q.slots = slots
         /\ q.headers = o.headers /\ q.count = o.count
         /\ q.loaded = o.loaded /\ q.fd = o.fd /\ q.target = o.target
<1> DEFINE null == 0
<1>1. null \in 0 .. MaxRegion /\ q = [o EXCEPT !.map = null, !.slots = slots]
  BY DEF ObjectAssumption, Converted
<1> HIDE DEF null
<1>2. q \in ObjectType
  BY <1>1 DEF ObjectType
<1>3. /\ q.map = null /\ q.slots = slots
      /\ q.headers = o.headers /\ q.count = o.count
      /\ q.loaded = o.loaded /\ q.fd = o.fd /\ q.target = o.target
  BY <1>1 DEF ObjectType
<1> QED BY <1>2, <1>3 DEF null

(* Every outcome of a conversion leaves all as it was or detaches all.     *)
LEMMA UnmapFacts ==
  ASSUME ObjectAssumption, TypeOK, Shape, NEW u \in UnmapOutcomes
  PROVE  /\ u.obj \in ObjectType /\ u.mem \in Memory
         /\ u.obj.headers = obj.headers /\ u.obj.count = obj.count
         /\ u.obj.loaded = obj.loaded /\ u.obj.fd = obj.fd /\ u.obj.target = obj.target
         /\ \/ u.obj = obj /\ u.mem = mem /\ (u.err = "GOOD" => obj.map = 0)
            \/ obj.map # 0 /\ Detached(u)
<1> DEFINE full  == {j \in 1 .. obj.loaded : obj.slots[j].data # 0 /\ obj.slots[j].size > 0}
           moves == Injection(full, FreeRegions(mem))
           same  == [err |-> "GOOD", obj |-> obj, mem |-> mem]
           slots(new) == [j \in 1 .. obj.loaded |->
                            IF j \in full
                              THEN Slot(new[j], 0, obj.slots[j].size, FALSE, FALSE)
                              ELSE NoSlot]
           moved(new) == [r \in Region |->
                            IF r = obj.map THEN Gone
                            ELSE IF r \in Range(new)
                              THEN LET j == CHOOSE j \in full : new[j] = r
                                   IN  [live |-> TRUE, cells |-> Bytes(obj.slots[j], mem)]
                            ELSE mem[r]]
           Moved(new) == [err |-> "GOOD",
                          obj |-> [obj EXCEPT !.map = 0, !.slots = slots(new)],
                          mem |-> moved(new)]
<1>0. /\ obj \in ObjectType /\ mem \in Memory /\ obj.loaded \in Nat
      /\ \A j \in 1 .. obj.loaded : obj.slots[j] \in SlotType
  <2> HIDE DEF full, moves, same, slots, moved, Moved
  <2>1. obj \in ObjectType /\ mem \in Memory
    BY DEF TypeOK, Memory
  <2>2. obj.loaded \in Nat
    BY <2>1 DEF ObjectType, ObjectAssumption
  <2>3. Fits(obj)
    BY DEF Shape
  <2> QED BY <2>1, <2>2, <2>3, LoadedSlots
<1>1. u \in (IF obj.map = 0 THEN {same}
             ELSE {Moved(new) : new \in OneOf(moves)}
                  \cup (IF moves = {} \/ (MallocMayFail /\ obj.count > 0)
                       THEN {[same EXCEPT !.err = "NOMEM"]} ELSE {}))
  BY DEF UnmapOutcomes
<1> HIDE DEF moves
<1>2. CASE u = same \/ u = [same EXCEPT !.err = "NOMEM"]
  <2>1. u.obj = obj /\ u.mem = mem /\ (u.err = "GOOD" => u = same)
    BY <1>2
  <2>2. u = same => obj.map = 0
    <3>1. CASE obj.map = 0
      BY <3>1
    <3>2. CASE obj.map # 0 /\ u = same
      <4>1. ASSUME NEW new, u = Moved(new) PROVE FALSE
        <5>1. u.obj.map = 0
          BY <1>0, <4>1 DEF ObjectType
        <5> QED BY <2>1, <3>2, <5>1
      <4>2. u.err = "GOOD"
        BY <3>2
      <4>3. u # [same EXCEPT !.err = "NOMEM"]
        BY <4>2
      <4> HIDE DEF same, Moved
      <4> QED BY <1>1, <3>2, <4>1, <4>3
    <3> QED BY <3>1, <3>2
  <2> HIDE DEF same
  <2> QED BY <1>0, <2>1, <2>2
<1>3. CASE obj.map # 0 /\ \E new \in OneOf(moves) : u = Moved(new)
  <2>1. PICK new \in moves : u = Moved(new)
    BY <1>3 DEF OneOf
  <2>2. /\ new \in [full -> FreeRegions(mem)]
        /\ \A j, k \in full : new[j] = new[k] => j = k
    BY DEF moves, Injection, IsInjective
  <2>3. FreeRegions(mem) \subseteq Region /\ 0 \notin Region
    BY DEF FreeRegions, Region, ObjectAssumption
  <2> DEFINE array == slots(new)
             after == moved(new)
  <2>4. array \in [1 .. obj.loaded -> SlotType]
    <3>1. ASSUME NEW j \in full PROVE Slot(new[j], 0, obj.slots[j].size, FALSE, FALSE) \in SlotType
      <4>1. new[j] \in 0 .. MaxRegion /\ obj.slots[j].size \in Nat
        BY <1>0, <2>2, <2>3 DEF Region, SlotType
      <4> QED BY <4>1 DEF Slot, SlotType
    <3> QED BY <3>1, NoSlotType
  <2>5. array \in Seq(SlotType) /\ Len(array) = obj.loaded
    BY <1>0, <2>4, FunctionIsSeq
  <2>6. \A j \in 1 .. obj.loaded :
          /\ j \in full => /\ array[j].data = new[j]
                           /\ ~array[j].view /\ ~array[j].mapped
          /\ j \notin full => array[j] = NoSlot /\ array[j].data = 0
    BY DEF Slot, NoSlot
  <2>7. after \in Memory
    <3>1. ASSUME NEW j \in full PROVE Bytes(obj.slots[j], mem) \in Seq(Cells)
      BY <1>0, BytesFacts
    <3>2. ASSUME NEW r \in Region PROVE after[r] \in [live : BOOLEAN, cells : Seq(Cells)]
      <4>1. CASE r = obj.map
        BY <4>1 DEF Gone
      <4>2. CASE r # obj.map /\ r \in Range(new)
        <5>1. PICK j \in full : new[j] = r /\ j = CHOOSE k \in full : new[k] = r
          BY <2>2, <4>2 DEF Range
        <5>2. after[r] = [live |-> TRUE, cells |-> Bytes(obj.slots[j], mem)]
          BY <4>2, <5>1
        <5> HIDE DEF after
        <5> QED BY <3>1, <5>2
      <4>3. CASE r # obj.map /\ r \notin Range(new)
        BY <1>0, <4>3 DEF Memory
      <4> QED BY <4>1, <4>2, <4>3
    <3> QED BY <3>2 DEF Memory
  <2>8. ASSUME NEW r \in Region
        PROVE  after[r].live = /\ r # obj.map
                               /\ mem[r].live \/ \E j \in 1 .. obj.loaded : array[j].data = r
    <3>1. mem[r].live \in BOOLEAN /\ r # 0
      BY <1>0, <2>3 DEF Memory
    <3>2. (\E j \in 1 .. obj.loaded : array[j].data = r) <=> r \in Range(new)
      <4>1. \A j \in 1 .. obj.loaded : array[j].data = r <=> j \in full /\ new[j] = r
        BY <2>6, <3>1
      <4>2. r \in Range(new) <=> \E j \in full : new[j] = r
        BY <2>2 DEF Range
      <4> HIDE DEF array
      <4> QED BY <4>1, <4>2
    <3>3. CASE r = obj.map
      BY <3>3 DEF Gone
    <3>4. CASE r # obj.map /\ r \in Range(new)
      <4>1. after[r].live = TRUE
        BY <3>4
      <4> HIDE DEF after, array
      <4> QED BY <3>2, <3>4, <4>1
    <3>5. CASE r # obj.map /\ r \notin Range(new)
      <4>1. after[r].live = mem[r].live
        BY <3>5
      <4> HIDE DEF after, array
      <4> QED BY <3>1, <3>2, <3>5, <4>1
    <3> QED BY <3>3, <3>4, <3>5
  <2>9. u.obj = [obj EXCEPT !.map = 0, !.slots = array] /\ u.mem = after
    BY <2>1
  <2> HIDE DEF array, after, Moved, same
  <2>10. /\ u.obj \in ObjectType /\ u.obj.map = 0 /\ u.obj.slots = array
         /\ u.obj.headers = obj.headers /\ u.obj.count = obj.count
         /\ u.obj.loaded = obj.loaded /\ u.obj.fd = obj.fd /\ u.obj.target = obj.target
    <3>1. u.obj = Converted(obj, array)
      BY <2>9 DEF Converted
    <3> QED BY <1>0, <2>5, <3>1, ConvertedFacts
  <2>11. Detached(u)
    <3>1. ASSUME NEW j \in 1 .. obj.loaded
          PROVE  \/ array[j] = NoSlot
                 \/ /\ array[j].data \in FreeRegions(mem)
                    /\ ~array[j].view /\ ~array[j].mapped
      BY <2>2, <2>6
    <3>2. ASSUME NEW j \in 1 .. obj.loaded, NEW k \in 1 .. obj.loaded,
                 array[j].data = array[k].data, array[j].data # 0
          PROVE  j = k
      <4>1. j \in full /\ k \in full
        BY <2>6, <3>2
      <4>2. new[j] = new[k]
        BY <2>6, <3>2, <4>1
      <4> QED BY <2>2, <4>1, <4>2
    <3>3. u.obj.map = 0 /\ u.obj.slots = array /\ u.mem = after
      BY <2>9, <2>10
    <3>4. \A j \in 1 .. obj.loaded :
            \/ u.obj.slots[j] = NoSlot
            \/ /\ u.obj.slots[j].data \in FreeRegions(mem)
               /\ ~u.obj.slots[j].view /\ ~u.obj.slots[j].mapped
      BY <3>1, <3>3
    <3>5. \A j, k \in 1 .. obj.loaded :
            u.obj.slots[j].data = u.obj.slots[k].data /\ u.obj.slots[j].data # 0 => j = k
      BY <3>2, <3>3
    <3>6. \A r \in Region :
            u.mem[r].live = /\ r # obj.map
                            /\ \/ mem[r].live
                               \/ \E j \in 1 .. obj.loaded : u.obj.slots[j].data = r
      BY <2>8, <3>3
    <3>7. Len(u.obj.slots) = obj.loaded
      BY <2>5, <3>3
    <3> QED BY <3>3, <3>4, <3>5, <3>6, <3>7 DEF Detached
  <2> QED BY <1>3, <2>7, <2>9, <2>10, <2>11
<1>4. \/ u = same \/ u = [same EXCEPT !.err = "NOMEM"]
      \/ obj.map # 0 /\ \E new \in OneOf(moves) : u = Moved(new)
  <2> HIDE DEF same, Moved
  <2> QED BY <1>1
<1> QED BY <1>2, <1>3, <1>4

(* The new array is long enough if all sections or none were loaded. *)
LEMMA UnmapShape ==
  ASSUME ObjectAssumption, Tidy, TypeOK, Shape, phase = "ready", UnmapReady,
         NEW u \in UnmapOutcomes
  PROVE  u.obj \in ObjectType /\ Fits(u.obj) /\ u.obj.count <= Len(u.obj.headers)
<1>1. /\ u.obj \in ObjectType
      /\ u.obj.headers = obj.headers /\ u.obj.count = obj.count
      /\ u.obj.loaded = obj.loaded
      /\ u.obj = obj \/ (obj.map # 0 /\ Len(u.obj.slots) = obj.loaded)
  BY UnmapFacts DEF Detached
<1>2. obj.count <= Len(obj.headers)
  BY DEF Shape
<1>3. CASE u.obj = obj
  BY <1>1, <1>2, <1>3 DEF Shape
<1>4. CASE obj.map # 0 /\ Len(u.obj.slots) = obj.loaded
  <2>1. obj.loaded \in {0, obj.count} /\ obj.loaded \in Nat /\ obj.loaded <= obj.count
    <3>1. obj.loaded \in Nat /\ obj.loaded <= obj.count
      BY DEF TypeOK, ObjectType, Shape, Fits
    <3>2. Careful("unmap partly loaded", obj.loaded \in {0, obj.count})
      BY <1>4 DEF UnmapReady
    <3>3. "unmap partly loaded" \notin Calls
      BY DEF Tidy
    <3> QED BY <3>1, <3>2, <3>3 DEF Careful, Called
  <2>2. u.obj.slots \in Seq(SlotType)
    BY <1>1 DEF ObjectType
  <2>3. u.obj.slots = <<>> <=> obj.loaded = 0
    BY <1>4, <2>1, <2>2
  <2> QED BY <1>1, <1>2, <1>4, <2>1, <2>3 DEF Fits
<1> QED BY <1>1, <1>3, <1>4

LEMMA UnmapType ==
  ASSUME ObjectAssumption, Tidy, TypeOK, Shape, Unmap
  PROVE  TypeOK' /\ Shape'
<1>1. PICK u \in UnmapOutcomes : obj' = u.obj /\ mem' = u.mem
  BY DEF Unmap
<1>2. phase = "ready" /\ UnmapReady /\ UNCHANGED <<hs, file, fds, phase>>
  BY DEF Unmap
<1>3. u.mem \in Memory
  BY UnmapFacts
<1>4. u.obj \in ObjectType /\ Fits(u.obj) /\ u.obj.count <= Len(u.obj.headers)
  BY <1>2, UnmapShape
<1> QED BY <1>1, <1>2, <1>3, <1>4 DEF TypeOK, Shape, Memory

(* A size that goes to the file. *)
LEMMA SavedSizeIsNat ==
  ASSUME ObjectAssumption, NEW o \in ObjectType, Fits(o), o.count <= Len(o.headers),
         NEW j \in 1 .. o.count
  PROVE  SavedSize(o, j) \in Nat
<1>1. CASE Resident(o, j - 1)
  <2>1. j \in 1 .. o.loaded
    BY <1>1 DEF Resident, ObjectType
  <2>2. o.slots[j] \in SlotType
    BY <2>1, LoadedSlots
  <2> QED BY <1>1, <2>2 DEF SavedSize, SlotType
<1>2. CASE ~Resident(o, j - 1)
  <2>1. o.headers[j] \in HeaderType
    BY DEF ObjectType
  <2> QED BY <1>2, <2>1 DEF SavedSize, HeaderType
<1> QED BY <1>1, <1>2

(* Sections follow one another. *)
LEMMA OffsetsSteps ==
  ASSUME ObjectAssumption, NEW o \in ObjectType, Fits(o), o.count <= Len(o.headers),
         NEW base \in Nat, o.count # 0
  PROVE  /\ Offsets(o, base)[1] = base
         /\ \A k \in 1 .. o.count - 1 :
              Offsets(o, base)[k + 1] = Offsets(o, base)[k] + SavedSize(o, k)
<1> DEFINE S    == {k \in Nat : k >= base}
           n    == o.count
           step == [i \in 1 .. n |-> [x \in S |-> x + (IF i = 1 THEN 0 ELSE SavedSize(o, i - 1))]]
           Off(f) == [i \in 1 .. n |->
                        IF i = 1 THEN base ELSE f[i - 1] + SavedSize(o, i - 1)]
           off  == CHOOSE f : f = Off(f)
<1>1. n \in Nat \ {0}
  BY DEF ObjectType
<1>2. ASSUME NEW i \in 1 .. n PROVE SavedSize(o, i) \in Nat
  BY SavedSizeIsNat
<1>3. \A x \in S, k \in Nat : x + k \in S
  OBVIOUS
<1>4. base \in S
  OBVIOUS
<1>5. step \in Steps(S, n)
  <2> HIDE DEF S
  <2>1. ASSUME NEW i \in 1 .. n, NEW x \in S
        PROVE  x + (IF i = 1 THEN 0 ELSE SavedSize(o, i - 1)) \in S
    <3>1. CASE i = 1
      BY <1>3, <3>1
    <3>2. CASE i # 1
      <4>1. i - 1 \in 1 .. n
        BY <1>1, <3>2
      <4> QED BY <1>2, <1>3, <3>2, <4>1
    <3> QED BY <3>1, <3>2
  <2> QED BY <2>1 DEF Steps
<1>6. PICK f \in [1 .. n -> S] : f[1] = base /\ \A i \in 2 .. n : f[i] = step[i][f[i - 1]]
  <2> HIDE DEF S, n, step
  <2> QED BY ONLY <1>1, <1>4, <1>5, Recursion
<1>7. f = Off(f)
  <2>1. ASSUME NEW i \in 2 .. n PROVE f[i] = f[i - 1] + SavedSize(o, i - 1)
    <3> HIDE DEF S
    <3>1. i \in 1 .. n /\ i # 1 /\ f[i - 1] \in S
      BY <1>1, <1>6
    <3>2. f[i] = step[i][f[i - 1]]
      <4> HIDE DEF step
      <4> QED BY <1>6
    <3> QED BY <3>1, <3>2
  <2>2. ASSUME NEW i \in 1 .. n PROVE f[i] = Off(f)[i]
    <3>1. CASE i = 1
      BY <1>6, <3>1
    <3>2. CASE i # 1
      <4>1. i \in 2 .. n
        BY <3>2
      <4> QED BY <2>1, <3>2, <4>1
    <3> QED BY <3>1, <3>2
  <2> HIDE DEF S
  <2>3. DOMAIN f = 1 .. n /\ f = [i \in 1 .. n |-> f[i]]
    BY <1>6
  <2> QED BY <2>2, <2>3
<1>8. off = Off(off)
  <2> HIDE DEF Off
  <2> QED BY <1>7
<1>9. Offsets(o, base) = off
  BY DEF Offsets
<1> HIDE DEF off
<1>10. off[1] = base
  BY <1>1, <1>8
<1>11. ASSUME NEW k \in 1 .. n - 1 PROVE off[k + 1] = off[k] + SavedSize(o, k)
  <2>1. k + 1 \in 1 .. n /\ k + 1 # 1 /\ (k + 1) - 1 = k
    BY <1>1
  <2>2. off[k + 1] = Off(off)[k + 1]
    BY <1>8
  <2> QED BY <2>1, <2>2
<1> QED BY <1>9, <1>10, <1>11

(* No section begins below the first, nor below the end of one before it.  *)
LEMMA OffsetsFacts ==
  ASSUME ObjectAssumption, NEW o \in ObjectType, Fits(o), o.count <= Len(o.headers),
         NEW base \in Nat, NEW j \in 1 .. o.count
  PROVE  /\ Offsets(o, base)[j] \in Nat /\ Offsets(o, base)[j] >= base
         /\ \A k \in 1 .. j - 1 : Offsets(o, base)[k] + SavedSize(o, k) <= Offsets(o, base)[j]
<1> DEFINE n   == o.count
           off == Offsets(o, base)
           Above(k) == /\ off[k] \in Nat /\ off[k] >= base
                       /\ \A i \in 1 .. k - 1 : off[i] + SavedSize(o, i) <= off[k]
           T   == {k \in Nat : \A i \in 1 .. k : Above(i)}
<1>1. n \in Nat /\ n # 0
  BY DEF ObjectType
<1>2. ASSUME NEW i \in 1 .. n PROVE SavedSize(o, i) \in Nat
  BY SavedSizeIsNat
<1>3. off[1] = base /\ \A k \in 1 .. n - 1 : off[k + 1] = off[k] + SavedSize(o, k)
  BY <1>1, OffsetsSteps
<1> HIDE DEF off
<1>4. 1 \in T
  BY <1>3
<1>5. ASSUME NEW k \in 1 .. n - 1, k \in T PROVE k + 1 \in T
  <2>1. k \in 1 .. n /\ k + 1 \in Nat /\ (k + 1) - 1 = k /\ \A i \in 1 .. k : Above(i)
    BY <1>1, <1>5
  <2>2. off[k + 1] = off[k] + SavedSize(o, k) /\ SavedSize(o, k) \in Nat
    BY <1>2, <1>3, <2>1
  <2>3. Above(k)
    BY <2>1
  <2>4. off[k + 1] \in Nat /\ off[k + 1] >= base
    BY <2>2, <2>3
  <2>5. ASSUME NEW i \in 1 .. k PROVE off[i] + SavedSize(o, i) <= off[k + 1]
    <3>1. CASE i = k
      BY <2>2, <2>4, <3>1
    <3>2. CASE i # k
      <4>1. i \in 1 .. k - 1 /\ i \in 1 .. n
        BY <1>1, <3>2
      <4>2. off[i] + SavedSize(o, i) <= off[k] /\ off[i] \in Nat /\ SavedSize(o, i) \in Nat
        BY <1>2, <2>1, <2>3, <4>1
      <4> QED BY <2>2, <2>3, <4>2
    <3> QED BY <3>1, <3>2
  <2>6. Above(k + 1)
    BY <2>1, <2>4, <2>5
  <2> HIDE DEF Above
  <2> QED BY <2>1, <2>6
<1>6. \A k \in 1 .. n : k \in T
  <2> HIDE DEF T, n
  <2> QED BY <1>1, <1>4, <1>5, UpTo
<1> QED BY <1>6 DEF off

(* What a save does to the headers, section by section.                    *)
LEMMA LaidOutFacts ==
  ASSUME ObjectAssumption, NEW o \in ObjectType, Fits(o), o.count <= Len(o.headers)
  PROVE  /\ LaidOut(o) \in Seq(HeaderType) /\ Len(LaidOut(o)) = Len(o.headers)
         /\ \A j \in 1 .. o.count : /\ LaidOut(o)[j].name = o.headers[j].name
                                    /\ LaidOut(o)[j].size = SavedSize(o, j)
                                    /\ LaidOut(o)[j].off = Offsets(o, 1 + o.count)[j]
                                    /\ LaidOut(o)[j].off >= 1 + o.count
<1>1. o.headers \in Seq(HeaderType) /\ Len(o.headers) \in Nat
      /\ DOMAIN o.headers = 1 .. Len(o.headers) /\ 1 + o.count \in Nat /\ o.count \in Nat
  BY DEF ObjectType
<1> DEFINE base == 1 + o.count
<1> HIDE DEF base
<1>2. ASSUME NEW j \in 1 .. Len(o.headers)
      PROVE  /\ LaidOut(o)[j] \in HeaderType
             /\ j <= o.count => /\ LaidOut(o)[j].name = o.headers[j].name
                                /\ LaidOut(o)[j].size = SavedSize(o, j)
                                /\ LaidOut(o)[j].off = Offsets(o, base)[j]
                                /\ LaidOut(o)[j].off >= base
  <2>1. o.headers[j] \in HeaderType
    BY <1>1
  <2>2. CASE j > o.count
    <3>1. LaidOut(o)[j] = o.headers[j]
      BY <1>1, <2>2 DEF LaidOut
    <3> QED BY <1>1, <2>1, <2>2, <3>1
  <2>3. CASE ~(j > o.count)
    <3> DEFINE size == SavedSize(o, j)
               off  == Offsets(o, base)[j]
    <3>1. j \in 1 .. o.count
      BY <1>1, <2>3
    <3>2. size \in Nat /\ off \in Nat /\ off >= base
      BY <1>1, <3>1, SavedSizeIsNat, OffsetsFacts DEF base
    <3>3. LaidOut(o)[j] = [o.headers[j] EXCEPT !.size = size, !.off = off]
      BY <1>1, <2>3 DEF LaidOut, base
    <3> HIDE DEF size, off
    <3>4. /\ LaidOut(o)[j] \in HeaderType
          /\ LaidOut(o)[j].name = o.headers[j].name
          /\ LaidOut(o)[j].size = size /\ LaidOut(o)[j].off = off
      BY <2>1, <3>2, <3>3 DEF HeaderType
    <3> QED BY <3>2, <3>4 DEF size, off
  <2> QED BY <2>2, <2>3
<1>3. LaidOut(o) \in [1 .. Len(o.headers) -> HeaderType]
  <2>1. LaidOut(o) = [j \in 1 .. Len(o.headers) |-> LaidOut(o)[j]]
    BY <1>1 DEF LaidOut
  <2> QED BY <1>2, <2>1
<1> QED BY <1>1, <1>2, <1>3, FunctionIsSeq DEF base

WriteType == [at : Nat \ {0}, cell : Cells]

(* The cells of a sequence, written from a position on.                    *)
LEMMA PutFacts ==
  ASSUME NEW at \in Nat, NEW cells \in Seq(Cells)
  PROVE  [k \in 1 .. Len(cells) |-> [at |-> at + k, cell |-> cells[k]]] \in Seq(WriteType)
<1>1. Len(cells) \in Nat
  OBVIOUS
<1>2. [k \in 1 .. Len(cells) |-> [at |-> at + k, cell |-> cells[k]]]
        \in [1 .. Len(cells) -> WriteType]
  BY <1>1 DEF WriteType
<1> QED BY <1>1, <1>2, FunctionIsSeq

(* The first cells that a save writes. *)
LEMMA HeaderCells ==
  ASSUME ObjectAssumption, NEW o \in ObjectType, o.count <= Len(o.headers)
  PROVE  /\ <<ObjectHeader(o.count)>> \o SubSeq(o.headers, 1, o.count) \in Seq(Cells)
         /\ Len(<<ObjectHeader(o.count)>> \o SubSeq(o.headers, 1, o.count)) = 1 + o.count
<1>1. ObjectHeader(o.count) \in Cells
  BY DEF ObjectType, Cells, ObjectHeaders
<1>2. o.headers \in Seq(HeaderType) /\ o.count \in Nat
  BY DEF ObjectType
<1>3. HeaderType \subseteq Cells
  BY DEF Cells
<1> DEFINE a == <<ObjectHeader(o.count)>>
           b == SubSeq(o.headers, 1, o.count)
<1>4. a \in Seq(Cells) /\ Len(a) = 1
  BY <1>1
<1>5. b \in Seq(HeaderType) /\ Len(b) = o.count
  BY <1>2
<1>6. b \in Seq(Cells)
  <2> HIDE DEF b
  <2>1. Len(b) \in Nat /\ b \in [1 .. Len(b) -> Cells]
    BY <1>3, <1>5
  <2> QED BY <2>1, FunctionIsSeq
<1> HIDE DEF a, b
<1>7. a \o b \in Seq(Cells) /\ Len(a \o b) = Len(a) + Len(b)
  <2>1. a \in Seq(Cells) /\ b \in Seq(Cells)
    BY <1>4, <1>6
  <2> QED BY ONLY <2>1
<1>8. Len(a \o b) = 1 + o.count
  BY ONLY <1>4, <1>5, <1>7
<1> QED BY <1>7, <1>8 DEF a, b

(* All the cells that a save writes. *)
LEMMA WritesFacts ==
  ASSUME ObjectAssumption, NEW o \in ObjectType, Fits(o), o.count <= Len(o.headers),
         NEW m \in Memory, NEW p \in Nat
  PROVE  WritesOf(o, m, p) \in Seq(WriteType)
<1> DEFINE data(j)        == IF Resident(o, j - 1) THEN Bytes(o.slots[j], m) ELSE <<>>
           put(at, cells) == [k \in 1 .. Len(cells) |-> [at |-> at + k, cell |-> cells[k]]]
           head == put(p, <<ObjectHeader(o.count)>> \o SubSeq(o.headers, 1, o.count))
           body == [j \in 1 .. o.count |-> put(o.headers[j].off, data(j))]
<1>1. head \in Seq(WriteType)
  BY HeaderCells, PutFacts
<1>2. ASSUME NEW j \in 1 .. o.count
      PROVE  data(j) \in Seq(Cells) /\ o.headers[j].off \in Nat
  <2>1. o.headers[j].off \in Nat
    <3>1. o.headers[j] \in HeaderType
      BY DEF ObjectType
    <3> QED BY <3>1 DEF HeaderType
  <2>2. CASE Resident(o, j - 1)
    <3>1. j \in 1 .. o.loaded /\ o.slots[j].data # 0
      BY <2>2 DEF Resident, ObjectType
    <3>2. o.slots[j] \in SlotType
      BY <3>1, LoadedSlots
    <3>3. Bytes(o.slots[j], m) \in Seq(Cells)
      BY <3>1, <3>2, BytesFacts
    <3> QED BY <2>1, <2>2, <3>3
  <2>3. CASE ~Resident(o, j - 1)
    BY <2>1, <2>3
  <2> QED BY <2>2, <2>3
<1>3. body \in [1 .. o.count -> Seq(WriteType)]
  <2>1. ASSUME NEW j \in 1 .. o.count PROVE put(o.headers[j].off, data(j)) \in Seq(WriteType)
    <3> DEFINE at == o.headers[j].off
               cells == data(j)
    <3>1. at \in Nat /\ cells \in Seq(Cells)
      BY <1>2
    <3> HIDE DEF at, cells
    <3>2. put(at, cells) \in Seq(WriteType)
      BY <3>1, PutFacts
    <3> QED BY <3>2 DEF at, cells
  <2> HIDE DEF put, data
  <2> QED BY <2>1
<1>4. FlattenSeq(body) \in Seq(WriteType)
  <2>1. o.count \in Nat
    BY DEF ObjectType
  <2> HIDE DEF body
  <2> QED BY <1>3, <2>1, FlattenedIsSeq
<1>5. WritesOf(o, m, p) = head \o FlattenSeq(body)
  BY DEF WritesOf
<1> HIDE DEF head, body
<1> QED BY <1>1, <1>4, <1>5

(* The file after some of the writes: a position holds what was last       *)
(* written to it, or what it held.                                         *)
LEMMA FileAfterFacts ==
  ASSUME TypeOK, NEW writes \in Seq(WriteType), NEW n \in 0 .. Len(writes)
  PROVE  /\ FileAfter(writes, n) \in Seq(Cells)
         /\ Len(FileAfter(writes, n)) \in {Len(file)} \cup {writes[k].at : k \in 1 .. n}
         /\ Len(file) <= Len(FileAfter(writes, n))
         /\ \A k \in 1 .. n : writes[k].at <= Len(FileAfter(writes, n))
         /\ \A c \in 1 .. Len(FileAfter(writes, n)) :
              \/ \E k \in 1 .. n : /\ writes[k].at = c
                                   /\ FileAfter(writes, n)[c] = writes[k].cell
              \/ /\ \A k \in 1 .. n : writes[k].at # c
                 /\ FileAfter(writes, n)[c] = CellIn(file, c)
<1> DEFINE ends == {Len(file)} \cup {writes[k].at : k \in 1 .. n}
           last == Max(ends)
           hits(c) == {k \in 1 .. n : writes[k].at = c}
           after == [c \in 1 .. last |->
                       IF hits(c) # {} THEN writes[Max(hits(c))].cell ELSE CellIn(file, c)]
           T == {j \in Nat : \E b \in Nat : \A k \in 1 .. j : writes[k].at <= b}
<1>0. Len(file) \in Nat /\ file \in Seq(Cells) /\ Len(writes) \in Nat /\ n \in Nat
  BY DEF TypeOK
<1>1. ASSUME NEW k \in 1 .. Len(writes) PROVE writes[k].at \in Nat /\ writes[k].cell \in Cells
  <2>1. writes[k] \in WriteType
    OBVIOUS
  <2> QED BY <2>1 DEF WriteType
<1>2. 0 \in T
  OBVIOUS
<1>3. ASSUME NEW j \in 0 .. n - 1, j \in T PROVE j + 1 \in T
  <2>1. PICK b \in Nat : \A k \in 1 .. j : writes[k].at <= b
    BY <1>3
  <2> DEFINE v == writes[j + 1].at
  <2>2. v \in Nat
    BY <1>0, <1>1
  <2>3. \A k \in 1 .. j : writes[k].at <= b + v
    <3> HIDE DEF v
    <3> QED BY <1>0, <1>1, <2>1, <2>2
  <2>4. v <= b + v /\ b + v \in Nat
    <3> HIDE DEF v
    <3> QED BY <2>2
  <2>5. \A k \in 1 .. j + 1 : writes[k].at <= b + v
    BY <2>3, <2>4
  <2>6. j + 1 \in Nat
    OBVIOUS
  <2> HIDE DEF v
  <2> QED BY <2>4, <2>5, <2>6
<1>4. n \in T
  <2> HIDE DEF T
  <2>1. \A j \in 0 .. n : j \in T
    BY <1>0, <1>2, <1>3, UpTo
  <2> QED BY <1>0, <2>1
<1>5. PICK b \in Nat : \A k \in 1 .. n : writes[k].at <= b
  BY <1>4
<1>6. last \in ends /\ (\A y \in ends : y <= last) /\ last \in Nat
  <2>1. ends \in SUBSET Nat /\ ends # {}
    BY <1>0, <1>1
  <2>2. Len(file) + b \in Nat /\ \A y \in ends : y <= Len(file) + b
    BY <1>0, <1>1, <1>5
  <2> HIDE DEF ends
  <2> QED BY <2>1, <2>2, MaxFacts
<1>7. ASSUME NEW c, hits(c) # {} PROVE Max(hits(c)) \in hits(c)
  <2> DEFINE h == hits(c)
  <2>1. h \in SUBSET Nat /\ h # {} /\ \A y \in h : y <= n
    BY <1>0, <1>7
  <2> HIDE DEF h
  <2>2. Max(h) \in h
    BY <1>0, <2>1, MaxFacts
  <2> QED BY <2>2 DEF h
<1>8. FileAfter(writes, n) = after
  BY DEF FileAfter
<1> HIDE DEF last
<1>9. ASSUME NEW c \in 1 .. last
      PROVE  /\ after[c] \in Cells
             /\ \/ \E k \in 1 .. n : writes[k].at = c /\ after[c] = writes[k].cell
                \/ (\A k \in 1 .. n : writes[k].at # c) /\ after[c] = CellIn(file, c)
  <2>1. CASE hits(c) # {}
    <3> DEFINE k == Max(hits(c))
    <3>1. k \in hits(c) /\ after[c] = writes[k].cell
      BY <1>7, <2>1
    <3>2. k \in 1 .. n /\ writes[k].at = c /\ k \in 1 .. Len(writes)
      BY <1>0, <3>1
    <3> HIDE DEF k, after
    <3> QED BY <1>1, <3>1, <3>2
  <2>2. CASE hits(c) = {}
    <3>1. after[c] = CellIn(file, c)
      BY <2>2
    <3>2. CellIn(file, c) \in Cells
      BY <1>0, <1>6, CellInIsCell
    <3>3. \A k \in 1 .. n : writes[k].at # c
      BY <2>2
    <3> HIDE DEF after
    <3> QED BY <3>1, <3>2, <3>3
  <2> QED BY <2>1, <2>2
<1>10. after \in Seq(Cells) /\ Len(after) = last
  <2>1. after = [c \in 1 .. last |-> after[c]]
    OBVIOUS
  <2> HIDE DEF after
  <2>2. after \in [1 .. last -> Cells]
    BY <1>9, <2>1
  <2> QED BY <1>6, <2>2, FunctionIsSeq
<1> HIDE DEF after
<1> QED BY <1>6, <1>8, <1>9, <1>10

(* A save changes sizes and offsets in the headers. *)
LEMMA SaveFileType ==
  ASSUME ObjectAssumption, Tidy, TypeOK, Shape, NEW f \in Fd, SaveFile(f)
  PROVE  TypeOK' /\ Shape'
<1>0. phase = "ready" /\ UnmapReady /\ UNCHANGED <<hs, phase>>
  BY DEF SaveFile
<1>1. PICK u \in UnmapOutcomes :
        IF u.err # "GOOD" THEN UNCHANGED <<obj, mem, file, fds>>
        ELSE LET saved  == [u.obj EXCEPT !.headers = LaidOut(u.obj)]
                 writes == WritesOf(saved, u.mem, fds[f].pos)
                 total  == IF fds[f].open THEN Len(writes) ELSE 0
             IN  /\ obj' = saved
                 /\ mem' = u.mem
                 /\ \E n \in 0 .. total :
                      /\ file' = FileAfter(writes, n)
                      /\ fds' = IF n = 0 THEN fds
                                ELSE [fds EXCEPT ![f].pos = writes[n].at]
  BY DEF SaveFile
<1>2. CASE u.err # "GOOD"
  BY <1>0, <1>1, <1>2 DEF TypeOK, Shape, Fits
<1>3. CASE u.err = "GOOD"
  <2> DEFINE saved  == [u.obj EXCEPT !.headers = LaidOut(u.obj)]
             pos    == fds[f].pos
             writes == WritesOf(saved, u.mem, pos)
             total  == IF fds[f].open THEN Len(writes) ELSE 0
  <2>1. u.obj \in ObjectType /\ Fits(u.obj) /\ u.obj.count <= Len(u.obj.headers)
        /\ u.mem \in Memory
    BY <1>0, UnmapShape, UnmapFacts
  <2>2. LaidOut(u.obj) \in Seq(HeaderType) /\ Len(LaidOut(u.obj)) = Len(u.obj.headers)
    BY <2>1, LaidOutFacts
  <2>3. saved \in ObjectType /\ Fits(saved) /\ saved.count <= Len(saved.headers)
    <3> DEFINE headers == LaidOut(u.obj)
    <3>1. headers \in Seq(HeaderType) /\ Len(headers) = Len(u.obj.headers)
      BY <2>2
    <3> HIDE DEF headers
    <3>2. saved = [u.obj EXCEPT !.headers = headers]
      BY DEF headers
    <3> HIDE DEF saved
    <3>3. saved \in ObjectType
      BY <2>1, <3>1, <3>2 DEF ObjectType
    <3>4. /\ saved.headers = headers /\ saved.count = u.obj.count
          /\ saved.slots = u.obj.slots /\ saved.loaded = u.obj.loaded
      BY <2>1, <3>2 DEF ObjectType
    <3> QED BY <2>1, <3>1, <3>3, <3>4 DEF Fits
  <2>4. obj' = saved /\ mem' = u.mem
    BY <1>1, <1>3
  <2>5. PICK n \in 0 .. total :
              /\ file' = FileAfter(writes, n)
              /\ fds' = IF n = 0 THEN fds ELSE [fds EXCEPT ![f].pos = writes[n].at]
    BY <1>1, <1>3
  <2>6. pos \in Nat
    BY DEF TypeOK
  <2> HIDE DEF saved, pos
  <2>7. writes \in Seq(WriteType)
    BY <2>1, <2>3, <2>6, WritesFacts
  <2> HIDE DEF writes
  <2>8. n \in 0 .. Len(writes)
    <3>1. Len(writes) \in Nat
      BY <2>7
    <3> QED BY <2>5, <3>1
  <2>9. file' \in Seq(Cells)
    BY <2>5, <2>7, <2>8, FileAfterFacts
  <2>10. fds' \in [Fd -> [open : BOOLEAN, pos : Nat]]
    <3>1. CASE n = 0
      BY <2>5, <3>1 DEF TypeOK
    <3>2. CASE n # 0
      <4>1. writes[n] \in WriteType
        BY <2>7, <2>8, <3>2
      <4>2. writes[n].at \in Nat
        BY <4>1 DEF WriteType
      <4> QED BY <2>5, <3>2, <4>2, PositionSet
    <3> QED BY <3>1, <3>2
  <2> QED BY <1>0, <2>1, <2>3, <2>4, <2>9, <2>10 DEF TypeOK, Shape, Memory
<1> QED BY <1>2, <1>3

(* The invariant holds at first, and every step keeps it. *)
LEMMA InitType ==
  ASSUME ObjectAssumption, Init
  PROVE  TypeOK /\ Shape
<1>1. obj = EmptyObject /\ phase = "raw"
  BY DEF Init
<1>2. mem \in Memory
  BY DEF Init, Memory, Gone
<1>3. hs \in [Handle -> SlotType]
  BY NoSlotType DEF Init
<1>4. file \in Seq(Cells)
  <2>1. <<>> \in Seq(Cells) /\ <<Zero>> \in Seq(Cells)
    BY ZeroIsCell
  <2> QED BY <2>1 DEF Init
<1>5. fds \in [Fd -> [open : BOOLEAN, pos : Nat]]
  BY DEF Init
<1> QED BY <1>1, <1>2, <1>3, <1>4, <1>5, EmptyObjectFacts DEF TypeOK, Shape, Memory

LEMMA NextType ==
  ASSUME ObjectAssumption, Tidy, TypeOK, Shape, [Next]_vars
  PROVE  TypeOK' /\ Shape'
<1>0. 0 .. MaxSections \subseteq Nat
  BY DEF ObjectAssumption
<1>1. CASE UNCHANGED vars
  BY <1>1 DEF vars, TypeOK, Shape, Fits
<1>2. CASE Managing
  <2>1. CASE ObjInit \/ ObjCleanup \/ Unmap
    BY <2>1, ObjInitType, ObjCleanupType, UnmapType
  <2>2. CASE \E t \in Targets : SetTargetDefaults(t)
    BY <2>2, SetTargetDefaultsType
  <2>3. CASE \E n \in Names : FindSection(n)
    BY <2>3, FindSectionType
  <2>4. CASE \E n \in Names : \E h \in Handle \cup {NoHandle} : CreateSection(n, h)
    BY <2>4, CreateSectionType
  <2>5. CASE \E i \in 0 .. MaxSections : DeleteSection(i)
    BY <1>0, <2>5, DeleteSectionType
  <2> QED BY <1>2, <2>1, <2>2, <2>3, <2>4, <2>5 DEF Managing
<1>3. CASE Exchanging
  <2>1. PICK h \in Handle :
          \/ \E cells \in Contents : FillHandle(h, cells)
          \/ DropHandle(h)
          \/ \E i \in 0 .. MaxSections : UpdateSection(i, h)
          \/ \E i \in 0 .. MaxSections, flags \in SUBSET {"VIEW", "MMAP"} :
               LoadSection(i, h, flags)
    BY <1>3 DEF Exchanging
  <2>2. CASE \E cells \in Contents : FillHandle(h, cells)
    BY <2>2, FillHandleType
  <2>3. CASE DropHandle(h)
    BY <2>3, DropHandleType
  <2>4. CASE \E i \in 0 .. MaxSections : UpdateSection(i, h)
    BY <1>0, <2>4, UpdateSectionType
  <2>5. CASE \E i \in 0 .. MaxSections, flags \in SUBSET {"VIEW", "MMAP"} :
               LoadSection(i, h, flags)
    BY <1>0, <2>5, LoadSectionType
  <2> QED BY <2>1, <2>2, <2>3, <2>4, <2>5
<1>4. CASE Filing
  <2>1. PICK f \in Fd : \/ LoadFile(f) \/ Mmap(f) \/ SaveFile(f)
                        \/ OpenFd(f) \/ Rewind(f) \/ Truncate(f) \/ CloseFd(f)
    BY <1>4 DEF Filing
  <2>2. CASE LoadFile(f) \/ Mmap(f) \/ SaveFile(f)
    BY <2>2, LoadFileType, MmapType, SaveFileType
  <2>3. CASE OpenFd(f) \/ Rewind(f) \/ Truncate(f) \/ CloseFd(f)
    BY <2>3, DescriptorType
  <2> QED BY <2>1, <2>2, <2>3
<1> QED BY <1>1, <1>2, <1>3, <1>4 DEF Next

(* The inductive invariant of the types and the array lengths. *)
THEOREM Invariance == Tidy => (Spec => [](TypeOK /\ Shape))
<1>1. Tidy \in BOOLEAN
  BY DEF Tidy
<1>2. CASE Tidy
  <2>1. Init => TypeOK /\ Shape
    BY ObjectAssumption, InitType
  <2>2. (TypeOK /\ Shape) /\ [Next]_vars => (TypeOK /\ Shape)'
    BY <1>2, ObjectAssumption, NextType
  <2> QED BY <2>1, <2>2, PTL DEF Spec
<1> QED BY <1>2

(* Every variable keeps its type, whatever the file holds that is loaded.  *)
THEOREM TypeCorrect == Tidy => (Spec => []TypeOK)
BY Invariance, PTL

(* No operation reads or writes behind the end of the headers or of the    *)
(* sections array.                                                         *)
THEOREM ArraysAreLongEnough == Tidy => (Spec => []ArraysLongEnough)
<1>1. TypeOK /\ Shape => ArraysLongEnough
  BY DEF Shape, Fits, ArraysLongEnough
<1> QED BY <1>1, Invariance, PTL

-----------------------------------------------------------------------------
(***************************************************************************)
(* Ownership                                                               *)
(***************************************************************************)

(* Slot s has a region it will free. *)
Owner(s) == s.data # 0 /\ ~s.view

(* Slot s is not a mapping of its own, and a view only of map. *)
Clean(s, map) == s.data # 0 => ~s.mapped /\ (s.view => s.data = map)

(* What is behind the loaded sections is empty. *)
Idle(o) == o.slots # <<>> => \A j \in o.loaded + 1 .. o.count : o.slots[j].data = 0

Borrowing(o, hand) ==
  /\ \A j \in 1 .. o.loaded : Clean(o.slots[j], o.map)
  /\ \A h \in Handle : Clean(hand[h], o.map)

Alive(o, hand, m) ==
  /\ o.map # 0 => m[o.map].live
  /\ \A j \in 1 .. o.loaded :
       Owner(o.slots[j]) => m[o.slots[j].data].live /\ o.slots[j].data # o.map
  /\ \A h \in Handle : Owner(hand[h]) => m[hand[h].data].live /\ hand[h].data # o.map

Apart(o, hand) ==
  /\ \A j, k \in 1 .. o.loaded :
       Owner(o.slots[j]) /\ Owner(o.slots[k]) /\ o.slots[j].data = o.slots[k].data => j = k
  /\ \A g, h \in Handle :
       Owner(hand[g]) /\ Owner(hand[h]) /\ hand[g].data = hand[h].data => g = h
  /\ \A j \in 1 .. o.loaded, h \in Handle :
       Owner(o.slots[j]) /\ Owner(hand[h]) => o.slots[j].data # hand[h].data

Own(o, hand, m) == Idle(o) /\ Borrowing(o, hand) /\ Alive(o, hand, m) /\ Apart(o, hand)

(* Every region in use has an owner. *)
Full(o, hand, m) ==
  \A r \in Region : m[r].live => \/ r = o.map
                                 \/ \E j \in 1 .. o.loaded : Owner(o.slots[j]) /\ o.slots[j].data = r
                                 \/ \E h \in Handle : Owner(hand[h]) /\ hand[h].data = r

Hands == [Handle -> SlotType]

(* The client's structures, h being s. *)
HandWith(hand, h, s) == [hand EXCEPT ![h] = s]

(* The client's structures after one of them changed. *)
LEMMA HandWithFacts ==
  ASSUME NEW hand \in Hands, NEW h \in Handle, NEW s \in SlotType
  PROVE  /\ HandWith(hand, h, s) \in Hands
         /\ \A g \in Handle : HandWith(hand, h, s)[g] = IF g = h THEN s ELSE hand[g]
BY DEF Hands, HandWith

(* An object whose sections and mapping are those of another has what that *)
(* has.                                                                    *)
LEMMA SameSections ==
  ASSUME NEW o, NEW q, NEW hand, NEW m,
         q.slots = o.slots, q.loaded = o.loaded, q.map = o.map,
         q.slots = <<>> \/ q.count = o.count,
         Own(o, hand, m)
  PROVE  /\ Own(q, hand, m)
         /\ Full(o, hand, m) => Full(q, hand, m)
BY DEF Own, Idle, Borrowing, Alive, Apart, Full

(* What an unused structure of the client's receives: a region of its own, *)
(* or a view of the object's mapping.                                      *)
Given(s, map, m, n) ==
  /\ s \in SlotType /\ s.data # 0 /\ ~s.mapped
  /\ IF s.view THEN s.data = map /\ n = m ELSE Takes(m, s.data, n)

(* A structure of the client may get a region that was free. *)
LEMMA HandGiven ==
  ASSUME NEW o \in ObjectType, NEW hand \in Hands, NEW m \in Memory, NEW n \in Memory,
         Fits(o), Own(o, hand, m), NEW h \in Handle, hand[h].data = 0,
         NEW s, Given(s, o.map, m, n)
  PROVE  /\ Own(o, HandWith(hand, h, s), n)
         /\ Full(o, hand, m) => Full(o, HandWith(hand, h, s), n)
<1> DEFINE after == HandWith(hand, h, s)
<1>1. \A g \in Handle : after[g] = IF g = h THEN s ELSE hand[g]
  BY HandWithFacts DEF Given
<1> HIDE DEF after
<1>2. /\ Owner(s) => ~m[s.data].live /\ n[s.data].live /\ s.data \in Region
      /\ \A r \in Region : m[r].live => n[r].live
      /\ \A r \in Region : n[r].live => m[r].live \/ (Owner(s) /\ r = s.data)
  BY DEF Given, Takes, Owner
<1>3. ~Owner(hand[h])
  BY DEF Owner
<1>4. /\ o.map # 0 => o.map \in Region
      /\ \A j \in 1 .. o.loaded : Owner(o.slots[j]) => o.slots[j].data \in Region
      /\ \A g \in Handle : Owner(hand[g]) => hand[g].data \in Region
  <2>1. ASSUME NEW x \in SlotType, Owner(x) PROVE x.data \in Region
    BY <2>1 DEF SlotType, Owner, Region
  <2>2. \A j \in 1 .. o.loaded : o.slots[j] \in SlotType
    BY ObjectAssumption, LoadedSlots
  <2> QED BY <2>1, <2>2 DEF ObjectType, Region, Hands
<1>5. Owner(s) => s.data # o.map
  BY <1>2, <1>4 DEF Own, Alive, Owner
<1>6. Idle(o) /\ Clean(s, o.map)
  BY DEF Own, Given, Clean
<1>7. Borrowing(o, after)
  BY <1>1, <1>6 DEF Own, Borrowing
<1>8. Alive(o, after, n)
  <2>1. Alive(o, hand, m)
    BY DEF Own
  <2>2. o.map # 0 => n[o.map].live
    BY <1>2, <1>4, <2>1 DEF Alive
  <2>3. ASSUME NEW j \in 1 .. o.loaded, Owner(o.slots[j])
        PROVE  n[o.slots[j].data].live /\ o.slots[j].data # o.map
    BY <1>2, <1>4, <2>1, <2>3 DEF Alive
  <2>4. ASSUME NEW g \in Handle, Owner(after[g])
        PROVE  n[after[g].data].live /\ after[g].data # o.map
    <3>1. CASE g = h
      BY <1>1, <1>2, <1>5, <2>4, <3>1
    <3>2. CASE g # h
      BY <1>1, <1>2, <1>4, <2>1, <2>4, <3>2 DEF Alive
    <3> QED BY <3>1, <3>2
  <2> QED BY <2>2, <2>3, <2>4 DEF Alive
<1>9. Apart(o, after)
  BY <1>1, <1>2, <1>4 DEF Own, Alive, Apart
<1>10. ASSUME Full(o, hand, m) PROVE Full(o, after, n)
  <2>1. ASSUME NEW r \in Region, n[r].live
        PROVE  \/ r = o.map
               \/ \E j \in 1 .. o.loaded : Owner(o.slots[j]) /\ o.slots[j].data = r
               \/ \E g \in Handle : Owner(after[g]) /\ after[g].data = r
    <3>1. CASE Owner(s) /\ r = s.data
      BY <1>1, <3>1
    <3>2. CASE m[r].live
      BY <1>1, <1>3, <1>10, <3>2 DEF Full
    <3> QED BY <1>2, <2>1, <3>1, <3>2
  <2> QED BY <2>1 DEF Full
<1> QED BY <1>6, <1>7, <1>8, <1>9, <1>10 DEF Own, after

(* A structure of the client's that owns nothing is emptied.               *)
LEMMA HandEmptied ==
  ASSUME NEW o \in ObjectType, NEW hand \in Hands, NEW m \in Memory, Own(o, hand, m),
         NEW h \in Handle, ~Owner(hand[h])
  PROVE  /\ Own(o, HandWith(hand, h, NoSlot), m)
         /\ Full(o, hand, m) => Full(o, HandWith(hand, h, NoSlot), m)
<1> DEFINE after == HandWith(hand, h, NoSlot)
<1>1. \A g \in Handle : after[g] = IF g = h THEN NoSlot ELSE hand[g]
  BY HandWithFacts, NoSlotType, ObjectAssumption
<1>2. NoSlot.data = 0
  BY DEF NoSlot, Slot
<1> HIDE DEF after
<1>3. \A g \in Handle : Owner(after[g]) <=> Owner(hand[g])
  BY <1>1, <1>2 DEF Owner
<1>4. \A g \in Handle : Owner(hand[g]) => after[g] = hand[g]
  BY <1>1
<1>5. Borrowing(o, after)
  BY <1>1, <1>2 DEF Own, Borrowing, Clean
<1>6. Alive(o, after, m) /\ Apart(o, after) /\ Idle(o)
  BY <1>3, <1>4 DEF Own, Alive, Apart
<1>7. Full(o, hand, m) => Full(o, after, m)
  BY <1>3, <1>4 DEF Full
<1> QED BY <1>5, <1>6, <1>7 DEF Own, after

(* The object's section i + 1, empty so far, receives what the client has  *)
(* of its own or a view of the mapping; the sections up to it count as     *)
(* loaded.                                                                 *)
LEMMA ObjectGiven ==
  ASSUME NEW o \in ObjectType, NEW q \in ObjectType, NEW hand \in Hands,
         NEW m \in Memory, NEW n \in Memory,
         Fits(o), Fits(q), Own(o, hand, m), NEW i \in Nat, i < o.count,
         q.map = o.map, q.count = o.count, o.slots # <<>>, o.slots[i + 1].data = 0,
         q.loaded = IF i >= o.loaded THEN i + 1 ELSE o.loaded,
         \A j \in 1 .. o.count : j # i + 1 => q.slots[j] = o.slots[j],
         \/ q.slots[i + 1].data = 0 /\ n = m
         \/ Given(q.slots[i + 1], o.map, m, n)
  PROVE  /\ Own(q, hand, n)
         /\ Full(o, hand, m) => Full(q, hand, n)
<1> DEFINE s == q.slots[i + 1]
<1>0. o.loaded \in Nat /\ o.count \in Nat /\ q.loaded \in Nat /\ o.loaded <= o.count
      /\ i + 1 \in 1 .. o.count /\ q.loaded <= o.count /\ o.loaded <= q.loaded
  BY DEF ObjectType, Fits
<1>1. \A j \in 1 .. q.loaded :
        \/ j = i + 1
        \/ j \in 1 .. o.loaded /\ q.slots[j] = o.slots[j]
        \/ q.slots[j].data = 0 /\ j # i + 1
  <2>1. \A j \in o.loaded + 1 .. o.count : o.slots[j].data = 0
    BY DEF Own, Idle
  <2> QED BY <1>0, <2>1
<1>2. /\ Owner(s) => ~m[s.data].live /\ n[s.data].live /\ s.data \in Region
      /\ \A r \in Region : m[r].live => n[r].live
      /\ \A r \in Region : n[r].live => m[r].live \/ (Owner(s) /\ r = s.data)
  BY DEF Given, Takes, Owner
<1>3. Clean(s, o.map)
  BY DEF Given, Clean
<1>4. /\ o.map # 0 => o.map \in Region
      /\ \A j \in 1 .. o.loaded : Owner(o.slots[j]) => o.slots[j].data \in Region
      /\ \A g \in Handle : Owner(hand[g]) => hand[g].data \in Region
  <2>1. ASSUME NEW x \in SlotType, Owner(x) PROVE x.data \in Region
    BY <2>1 DEF SlotType, Owner, Region
  <2>2. \A j \in 1 .. o.loaded : o.slots[j] \in SlotType
    BY ObjectAssumption, LoadedSlots
  <2> QED BY <2>1, <2>2 DEF ObjectType, Region, Hands
<1>5. \A j \in 1 .. q.loaded : Owner(q.slots[j]) =>
        j = i + 1 \/ (j \in 1 .. o.loaded /\ q.slots[j] = o.slots[j] /\ Owner(o.slots[j]))
  BY <1>1 DEF Owner
<1>6. Alive(o, hand, m) /\ Apart(o, hand) /\ Idle(o) /\ Borrowing(o, hand)
  BY DEF Own
<1> HIDE DEF s
<1>7. Owner(s) => /\ s.data # o.map
                  /\ \A j \in 1 .. o.loaded : Owner(o.slots[j]) => s.data # o.slots[j].data
                  /\ \A g \in Handle : Owner(hand[g]) => s.data # hand[g].data
  BY <1>2, <1>4, <1>6 DEF Alive, Owner
<1>8. Idle(q)
  BY <1>0, <1>6 DEF Idle
<1>9. Borrowing(q, hand)
  <2>1. ASSUME NEW j \in 1 .. q.loaded PROVE Clean(q.slots[j], q.map)
    <3>1. CASE j = i + 1
      BY <1>3, <3>1 DEF s
    <3>2. CASE q.slots[j].data = 0
      BY <3>2 DEF Clean
    <3>3. CASE j \in 1 .. o.loaded /\ q.slots[j] = o.slots[j]
      BY <1>6, <3>3 DEF Borrowing
    <3> QED BY <1>1, <3>1, <3>2, <3>3
  <2> QED BY <1>6, <2>1 DEF Borrowing
<1>10. Alive(q, hand, n)
  <2>1. ASSUME NEW j \in 1 .. q.loaded, Owner(q.slots[j])
        PROVE  n[q.slots[j].data].live /\ q.slots[j].data # q.map
    <3>1. CASE j = i + 1
      BY <1>2, <1>7, <2>1, <3>1 DEF s
    <3>2. CASE j \in 1 .. o.loaded /\ q.slots[j] = o.slots[j] /\ Owner(o.slots[j])
      BY <1>2, <1>4, <1>6, <3>2 DEF Alive
    <3> QED BY <1>5, <2>1, <3>1, <3>2
  <2>2. ASSUME NEW g \in Handle, Owner(hand[g])
        PROVE  n[hand[g].data].live /\ hand[g].data # q.map
    BY <1>2, <1>4, <1>6, <2>2 DEF Alive
  <2>3. q.map # 0 => n[q.map].live
    BY <1>2, <1>4, <1>6 DEF Alive
  <2> QED BY <2>1, <2>2, <2>3 DEF Alive
<1>11. Apart(q, hand)
  <2>1. ASSUME NEW j \in 1 .. q.loaded, NEW k \in 1 .. q.loaded,
               Owner(q.slots[j]), Owner(q.slots[k]), q.slots[j].data = q.slots[k].data
        PROVE  j = k
    <3>1. CASE j = i + 1 /\ k # i + 1
      BY <1>5, <1>7, <2>1, <3>1 DEF s
    <3>2. CASE j # i + 1 /\ k = i + 1
      BY <1>5, <1>7, <2>1, <3>2 DEF s
    <3>3. CASE j # i + 1 /\ k # i + 1
      BY <1>5, <1>6, <2>1, <3>3 DEF Apart
    <3> QED BY <3>1, <3>2, <3>3
  <2>2. ASSUME NEW j \in 1 .. q.loaded, NEW g \in Handle, Owner(q.slots[j]), Owner(hand[g])
        PROVE  q.slots[j].data # hand[g].data
    <3>1. CASE j = i + 1
      BY <1>7, <2>2, <3>1 DEF s
    <3>2. CASE j # i + 1
      BY <1>5, <1>6, <2>2, <3>2 DEF Apart
    <3> QED BY <3>1, <3>2
  <2> QED BY <1>6, <2>1, <2>2 DEF Apart
<1>12. ASSUME Full(o, hand, m) PROVE Full(q, hand, n)
  <2>1. ASSUME NEW r \in Region, n[r].live
        PROVE  \/ r = q.map
               \/ \E j \in 1 .. q.loaded : Owner(q.slots[j]) /\ q.slots[j].data = r
               \/ \E g \in Handle : Owner(hand[g]) /\ hand[g].data = r
    <3>1. CASE Owner(s) /\ r = s.data
      <4>1. i + 1 \in 1 .. q.loaded
        BY <1>0
      <4> QED BY <3>1, <4>1 DEF s
    <3>2. CASE m[r].live
      <4>1. ASSUME NEW j \in 1 .. o.loaded, Owner(o.slots[j])
            PROVE  j \in 1 .. q.loaded /\ q.slots[j] = o.slots[j]
        <5>1. j # i + 1
          BY <4>1 DEF Owner
        <5> QED BY <1>0, <5>1
      <4> QED BY <1>12, <3>2, <4>1 DEF Full
    <3> QED BY <1>2, <2>1, <3>1, <3>2
  <2> QED BY <2>1 DEF Full
<1> QED BY <1>8, <1>9, <1>10, <1>11, <1>12 DEF Own

(* The client keeps no view of a mapping that goes away, and none of a     *)
(* loaded section, of a file or of a mapping of its own; the object is     *)
(* loaded as a whole or not at all before it is cut or converted.          *)
Sound ==
  Calls \cap {"keep views", "create empty after load", "delete partly loaded",
              "view of a loaded section", "view of a file", "map a section",
              "unmap partly loaded"} = {}

(* The client does not run out of counts, and converts no mapped object    *)
(* that owns sections beside its mapping.                                  *)
Frugal ==
  /\ MaxSections < CountMod
  /\ "mmap" \notin Calls \/ Calls \cap {"unmap", "save_file"} = {}

Tight == Full(obj, hs, mem) /\ ("mmap" \notin Calls => obj.map = 0)

OwnInv == TypeOK /\ Shape /\ Own(obj, hs, mem)

(* What every step of the protocol is to show. *)
Keeps ==
  /\ Own(obj', hs', mem')
  /\ Frugal /\ Tight => Full(obj', hs', mem') /\ ("mmap" \notin Calls => obj'.map = 0)

(* A client without liberties is one without those that break the arrays. *)
LEMMA SoundIsTidy == Sound => Tidy
BY DEF Sound, Tidy

(* What the properties of ownership depend on. *)
LEMMA UnchangedOwn ==
  ASSUME OwnInv, UNCHANGED <<obj, hs, mem>>
  PROVE  Keeps
BY DEF OwnInv, Keeps, Tight

(* Steps that leave the sections and the memory alone. *)
LEMMA SameOwn ==
  ASSUME OwnInv, UNCHANGED <<hs, mem>>,
         obj'.slots = obj.slots, obj'.loaded = obj.loaded, obj'.map = obj.map,
         obj.slots = <<>> \/ obj'.count = obj.count
  PROVE  Keeps
<1> DEFINE q == obj'
<1>1. /\ q.slots = obj.slots /\ q.loaded = obj.loaded /\ q.map = obj.map
      /\ q.slots = <<>> \/ q.count = obj.count
  OBVIOUS
<1> HIDE DEF q
<1>2. Own(q, hs, mem) /\ (Full(obj, hs, mem) => Full(q, hs, mem))
  BY <1>1, SameSections DEF OwnInv
<1>3. hs' = hs /\ mem' = mem
  OBVIOUS
<1> QED BY <1>1, <1>2, <1>3 DEF Keeps, Tight, q

(* Steps from an object that has nothing to one that has at most a mapping. *)
LEMMA StartOwn ==
  ASSUME OwnInv, phase # "ready", obj' \in ObjectType, obj'.slots = <<>>, obj'.loaded = 0,
         hs' = hs, mem' \in Memory,
         \/ obj'.map = 0 /\ mem' = mem
         \/ Takes(mem, obj'.map, mem') /\ "mmap" \in Calls
  PROVE  Keeps
<1> DEFINE q == obj'
           n == mem'
<1>0. /\ q \in ObjectType /\ q.slots = <<>> /\ q.loaded = 0 /\ n \in Memory
      /\ \/ q.map = 0 /\ n = mem
         \/ Takes(mem, q.map, n) /\ "mmap" \in Calls
      /\ hs' = hs
  OBVIOUS
<1>1. obj.loaded = 0 /\ obj.map = 0 /\ Own(obj, hs, mem) /\ hs \in Hands
  BY DEF OwnInv, Shape, Fits, TypeOK, Hands
<1> HIDE DEF q, n
<1>2. \A h \in Handle : Owner(hs[h]) => hs[h].data \in Region /\ mem[hs[h].data].live
  <2>1. ASSUME NEW h \in Handle, Owner(hs[h]) PROVE hs[h].data \in Region
    <3>1. hs[h] \in SlotType
      BY <1>1 DEF Hands
    <3> QED BY <2>1, <3>1 DEF SlotType, Owner, Region
  <2> QED BY <1>1, <2>1 DEF Own, Alive
<1>3. \A h \in Handle : hs[h].data # 0 => ~hs[h].view /\ ~hs[h].mapped
  BY <1>1 DEF Own, Borrowing, Clean
<1>4. Idle(q) /\ Borrowing(q, hs)
  BY <1>0, <1>3 DEF Idle, Borrowing, Clean
<1>5. Apart(q, hs)
  BY <1>0, <1>1 DEF Own, Apart
<1>6. Alive(q, hs, n)
  <2>1. q.map # 0 => n[q.map].live
    BY <1>0 DEF Takes
  <2>2. ASSUME NEW h \in Handle, Owner(hs[h])
        PROVE  n[hs[h].data].live /\ hs[h].data # q.map
    BY <1>0, <1>2, <2>2 DEF Takes, Owner
  <2> QED BY <1>0, <2>1, <2>2 DEF Alive
<1>7. ASSUME Full(obj, hs, mem) PROVE Full(q, hs, n)
  <2>1. ASSUME NEW r \in Region, n[r].live, r # q.map
        PROVE  \E h \in Handle : Owner(hs[h]) /\ hs[h].data = r
    <3>1. mem[r].live
      BY <1>0, <2>1 DEF Takes
    <3>2. r # obj.map /\ 1 .. obj.loaded = {}
      BY <1>1 DEF Region
    <3> QED BY <1>7, <3>1, <3>2 DEF Full
  <2> QED BY <2>1 DEF Full
<1>8. "mmap" \notin Calls => q.map = 0
  BY <1>0
<1>9. Own(q, hs, n)
  BY <1>4, <1>5, <1>6 DEF Own
<1> QED BY <1>0, <1>7, <1>8, <1>9 DEF Keeps, Tight, q, n

(* One lemma for each operation: every region keeps one owner. *)
LEMMA ObjInitOwn ==
  ASSUME OwnInv, ObjInit
  PROVE  Keeps
<1>1. /\ phase # "ready" /\ obj' = EmptyObject /\ mem' = mem /\ hs' = hs
  BY DEF ObjInit
<1>2. mem' \in Memory
  BY <1>1 DEF OwnInv, TypeOK, Memory
<1>3. EmptyObject.loaded = 0
  BY DEF EmptyObject
<1> QED BY <1>1, <1>2, <1>3, StartOwn, EmptyObjectFacts, ObjectAssumption

(* A load that fails owns nothing. *)
LEMMA LoadFailsOwn ==
  ASSUME OwnInv, phase # "ready", NEW op, NEW err, NEW f \in Fd, NEW k \in Count, NEW p \in Nat,
         LoadFails(op, err, f, k, p)
  PROVE  Keeps
<1>1. obj' = [EmptyObject EXCEPT !.fd = f, !.count = k] /\ UNCHANGED <<mem, hs>>
  BY DEF LoadFails
<1>2. obj' \in ObjectType
  BY LoadFailsType, ObjectAssumption DEF OwnInv, TypeOK
<1>3. obj'.slots = <<>> /\ obj'.loaded = 0 /\ obj'.map = 0
  BY <1>1 DEF EmptyObject
<1>4. mem' \in Memory
  BY <1>1 DEF OwnInv, TypeOK, Memory
<1> QED BY <1>1, <1>2, <1>3, <1>4, StartOwn

(* A load reads headers, no sections. *)
LEMMA LoadFileOwn ==
  ASSUME OwnInv, NEW f \in Fd, LoadFile(f)
  PROVE  Keeps
<1>0. /\ phase # "ready" /\ UNCHANGED <<mem, hs>>
      /\ \/ \E op, err, k, p : LoadFails(op, err, f, k, p)
         \/ \E k, headers : obj' = [EmptyObject EXCEPT !.fd = f, !.count = k, !.headers = headers]
  BY DEF LoadFile, LoadReady, LoadFails
<1>1. obj' \in ObjectType
  BY LoadFileType, ObjectAssumption DEF OwnInv, TypeOK
<1>2. obj'.slots = <<>> /\ obj'.loaded = 0 /\ obj'.map = 0
  BY <1>0 DEF LoadFails, EmptyObject
<1>3. mem' \in Memory
  BY <1>0 DEF OwnInv, TypeOK, Memory
<1> QED BY <1>0, <1>1, <1>2, <1>3, StartOwn

(* The mapping is the only thing a mapped object owns. *)
LEMMA MmapOwn ==
  ASSUME OwnInv, NEW f \in Fd, Mmap(f)
  PROVE  Keeps
<1>0. phase # "ready" /\ hs' = hs /\ "mmap" \in Calls
  BY DEF Mmap, LoadReady, LoadFails, Called
<1>1. obj' \in ObjectType /\ mem' \in Memory
  BY MmapType, ObjectAssumption DEF OwnInv, TypeOK, Memory
<1>2. CASE \E op, err, k, p : LoadFails(op, err, f, k, p)
  <2>1. obj'.slots = <<>> /\ obj'.loaded = 0 /\ obj'.map = 0 /\ mem' = mem
    BY <1>2 DEF LoadFails, EmptyObject
  <2> QED BY <1>0, <1>1, <2>1, StartOwn
<1>3. CASE \E a \in {x \in Alloc(mem, file) : x.r # 0} :
             /\ mem' = a.mem
             /\ \E k, headers : obj' = [EmptyObject EXCEPT !.fd = f, !.map = a.r, !.count = k,
                                                           !.headers = headers]
  <2>1. PICK a \in Alloc(mem, file) :
          /\ a.r # 0 /\ mem' = a.mem
          /\ \E k, headers : obj' = [EmptyObject EXCEPT !.fd = f, !.map = a.r, !.count = k,
                                                        !.headers = headers]
    BY <1>3
  <2>2. obj'.slots = <<>> /\ obj'.loaded = 0 /\ obj'.map = a.r
    BY <2>1 DEF EmptyObject
  <2>3. mem \in Memory /\ file \in Seq(Cells)
    BY DEF OwnInv, TypeOK, Memory
  <2>4. Takes(mem, a.r, a.mem)
    BY <2>1, <2>3, AllocFacts, ObjectAssumption
  <2> QED BY <1>0, <1>1, <2>1, <2>2, <2>4, StartOwn
<1>4. CASE \/ LoadFails("mmap", "IO", f, 0, 0)
           \/ LoadFails("mmap", "FORMAT", f, 0, 0)
           \/ LoadFails("mmap", "NOMEM", f, file[1].section_count, 0)
  BY <1>2, <1>4
<1>5. CASE \E a \in {x \in Alloc(mem, file) : x.r # 0} :
             /\ mem' = a.mem
             /\ obj' = [EmptyObject EXCEPT !.fd = f, !.map = a.r,
                                           !.count = file[1].section_count,
                                           !.headers = Headers(1, file[1].section_count)]
  BY <1>3, <1>5
<1> QED BY <1>4, <1>5 DEF Mmap

LEMMA SetTargetDefaultsOwn ==
  ASSUME OwnInv, NEW t \in Targets, SetTargetDefaults(t)
  PROVE  Keeps
<1>1. obj' = [obj EXCEPT !.target = t] /\ UNCHANGED <<mem, hs>> /\ obj \in ObjectType
  BY DEF SetTargetDefaults, OwnInv, TypeOK
<1>2. /\ obj'.slots = obj.slots /\ obj'.loaded = obj.loaded /\ obj'.map = obj.map
      /\ obj'.count = obj.count
  BY <1>1 DEF ObjectType
<1> QED BY <1>1, <1>2, SameOwn

(* Steps in which the client's structure h receives something of its own.  *)
LEMMA HandOwn ==
  ASSUME OwnInv, NEW h \in Handle, hs[h].data = 0, obj' = obj,
         NEW s \in SlotType, NEW n \in Memory, hs' = HandWith(hs, h, s), mem' = n,
         \/ Given(s, obj.map, mem, n)
         \/ s = NoSlot /\ n = mem
  PROVE  Keeps
<1> DEFINE after == HandWith(hs, h, s)
<1>1. /\ obj \in ObjectType /\ hs \in Hands /\ mem \in Memory
      /\ Fits(obj) /\ Own(obj, hs, mem)
  BY DEF OwnInv, TypeOK, Hands, Memory, Shape
<1>2. CASE Given(s, obj.map, mem, n)
  <2>1. Own(obj, after, n) /\ (Full(obj, hs, mem) => Full(obj, after, n))
    BY <1>1, <1>2, HandGiven
  <2> HIDE DEF after
  <2> QED BY <2>1 DEF Keeps, Tight, after
<1>3. CASE s = NoSlot /\ n = mem
  <2>1. ~Owner(hs[h])
    BY DEF Owner
  <2>2. /\ Own(obj, HandWith(hs, h, NoSlot), mem)
        /\ Full(obj, hs, mem) => Full(obj, HandWith(hs, h, NoSlot), mem)
    BY <1>1, <2>1, HandEmptied
  <2>3. after = HandWith(hs, h, NoSlot)
    BY <1>3
  <2> HIDE DEF after
  <2> QED BY <1>3, <2>2, <2>3 DEF Keeps, Tight, after
<1> QED BY <1>2, <1>3

(* The client fills a structure, and empties it. *)
LEMMA FillHandleOwn ==
  ASSUME OwnInv, NEW h \in Handle, NEW cells \in Contents, FillHandle(h, cells)
  PROVE  Keeps
<1> DEFINE view == FALSE
           p    == 0
<1>1. PICK o \in Filled(mem, cells, view, p, p) : hs' = [hs EXCEPT ![h] = o.s] /\ mem' = o.mem
  BY DEF FillHandle
<1>2. /\ mem \in Memory /\ cells \in Seq(Cells) /\ p \in Nat /\ view \in BOOLEAN
      /\ hs[h].data = 0 /\ obj' = obj /\ ~view
  <2>1. cells \in Seq(Range(cells)) /\ Range(cells) \subseteq Cells
    BY ObjectAssumption DEF ObjectAssumption, Cells
  <2>2. cells \in Seq(Cells)
    BY <2>1
  <2> QED BY <2>2 DEF OwnInv, TypeOK, Memory, FillHandle
<1> HIDE DEF view, p
<1>3. /\ o.mem \in Memory /\ o.s \in SlotType
      /\ o.err # "GOOD" => o.mem = mem /\ o.s = NoSlot
      /\ o.err = "GOOD" => /\ o.s.data # 0 /\ ~o.s.mapped /\ o.s.view = view
                           /\ Takes(mem, o.s.data, o.mem)
  BY <1>1, <1>2, FilledFacts, ObjectAssumption
<1>4. Given(o.s, obj.map, mem, o.mem) \/ (o.s = NoSlot /\ o.mem = mem)
  BY <1>2, <1>3 DEF Given
<1>5. hs' = HandWith(hs, h, o.s)
  BY <1>1 DEF HandWith
<1> QED BY <1>1, <1>2, <1>3, <1>4, <1>5, HandOwn

(* What a clean slot would free is what it owns. *)
LEMMA OwnedIs ==
  ASSUME NEW s, NEW map, Clean(s, map)
  PROVE  Owned(s) = IF Owner(s) THEN {s.data} ELSE {}
BY DEF Clean, Owned, Owner

(* What slots and structures own are regions. *)
LEMMA OwnersAreRegions ==
  ASSUME NEW o \in ObjectType, Fits(o), NEW hand \in Hands
  PROVE  /\ o.map # 0 => o.map \in Region
         /\ \A j \in 1 .. o.loaded : Owner(o.slots[j]) => o.slots[j].data \in Region
         /\ \A g \in Handle : Owner(hand[g]) => hand[g].data \in Region
<1>1. ASSUME NEW x \in SlotType, Owner(x) PROVE x.data \in Region
  BY <1>1 DEF SlotType, Owner, Region
<1>2. \A j \in 1 .. o.loaded : o.slots[j] \in SlotType
  BY ObjectAssumption, LoadedSlots
<1> QED BY <1>1, <1>2 DEF ObjectType, Region, Hands

(* The client lets go of a structure: what it owned is free.               *)
LEMMA HandReleased ==
  ASSUME NEW o \in ObjectType, Fits(o), NEW hand \in Hands, NEW m \in Memory,
         Own(o, hand, m), NEW h \in Handle, NEW n,
         n = Release(m, Owned(hand[h]))
  PROVE  /\ Own(o, HandWith(hand, h, NoSlot), n)
         /\ Full(o, hand, m) => Full(o, HandWith(hand, h, NoSlot), n)
<1> DEFINE after == HandWith(hand, h, NoSlot)
           s == hand[h]
<1>1. \A g \in Handle : after[g] = IF g = h THEN NoSlot ELSE hand[g]
  BY HandWithFacts, NoSlotType, ObjectAssumption
<1>2. NoSlot.data = 0
  BY DEF NoSlot, Slot
<1>3. \A r \in Region : n[r].live = (m[r].live /\ ~(Owner(s) /\ r = s.data))
  <2>1. Clean(s, o.map)
    BY DEF Own, Borrowing
  <2>2. Owned(s) = IF Owner(s) THEN {s.data} ELSE {}
    BY <2>1, OwnedIs
  <2> DEFINE rs == Owned(s)
  <2> HIDE DEF rs, s
  <2>3. n = Release(m, rs)
    BY DEF rs, s
  <2>4. \A r \in Region : n[r].live = (m[r].live /\ r \notin rs)
    BY <2>3, ReleaseFacts
  <2> QED BY <2>2, <2>4 DEF rs
<1> HIDE DEF after
<1>4. \A g \in Handle : Owner(after[g]) <=> g # h /\ Owner(hand[g])
  BY <1>1, <1>2 DEF Owner
<1>5. \A g \in Handle : Owner(after[g]) => after[g] = hand[g]
  BY <1>1, <1>4
<1>6. /\ Idle(o) /\ Borrowing(o, hand) /\ Alive(o, hand, m) /\ Apart(o, hand)
  BY DEF Own
<1>7. Borrowing(o, after)
  BY <1>1, <1>2, <1>6 DEF Borrowing, Clean
<1>8. /\ o.map # 0 => o.map \in Region
      /\ \A j \in 1 .. o.loaded : Owner(o.slots[j]) => o.slots[j].data \in Region
      /\ \A g \in Handle : Owner(hand[g]) => hand[g].data \in Region
  BY OwnersAreRegions
<1>9. Alive(o, after, n)
  <2>1. o.map # 0 => n[o.map].live
    BY <1>3, <1>6, <1>8 DEF Alive
  <2>2. ASSUME NEW j \in 1 .. o.loaded, Owner(o.slots[j])
        PROVE  n[o.slots[j].data].live /\ o.slots[j].data # o.map
    BY <1>3, <1>6, <1>8, <2>2 DEF Alive, Apart
  <2>3. ASSUME NEW g \in Handle, Owner(after[g])
        PROVE  n[after[g].data].live /\ after[g].data # o.map
    <3>1. g # h /\ Owner(hand[g]) /\ after[g] = hand[g]
      BY <1>4, <1>5, <2>3
    <3>2. m[hand[g].data].live /\ hand[g].data # o.map /\ hand[g].data \in Region
      BY <1>6, <1>8, <3>1 DEF Alive
    <3>3. Owner(s) => hand[g].data # s.data
      BY <1>6, <3>1 DEF Apart
    <3> QED BY <1>3, <3>1, <3>2, <3>3
  <2> QED BY <2>1, <2>2, <2>3 DEF Alive
<1>10. Apart(o, after)
  BY <1>4, <1>5, <1>6 DEF Apart
<1>11. ASSUME Full(o, hand, m) PROVE Full(o, after, n)
  <2>1. ASSUME NEW r \in Region, n[r].live
        PROVE  \/ r = o.map
               \/ \E j \in 1 .. o.loaded : Owner(o.slots[j]) /\ o.slots[j].data = r
               \/ \E g \in Handle : Owner(after[g]) /\ after[g].data = r
    <3>1. m[r].live /\ ~(Owner(s) /\ r = s.data)
      BY <1>3, <2>1
    <3>2. CASE \E g \in Handle : Owner(hand[g]) /\ hand[g].data = r
      <4>1. PICK g \in Handle : Owner(hand[g]) /\ hand[g].data = r
        BY <3>2
      <4>2. g # h
        BY <3>1, <4>1
      <4> QED BY <1>1, <1>4, <4>1, <4>2
    <3> QED BY <1>11, <3>1, <3>2 DEF Full
  <2> QED BY <2>1 DEF Full
<1> QED BY <1>6, <1>7, <1>9, <1>10, <1>11 DEF Own, after

(* The sections of o but section k are those of q: the one at j was at     *)
(* from[j].                                                                *)
Rearranged(o, q, k, from) ==
  /\ from \in [1 .. q.loaded -> 1 .. o.loaded]
  /\ \A i, j \in 1 .. q.loaded : from[i] = from[j] => i = j
  /\ \A j \in 1 .. q.loaded : \/ q.slots[j].data = 0
                              \/ from[j] # k /\ q.slots[j] = o.slots[from[j]]
  /\ \A i \in 1 .. o.loaded : i # k => \E j \in 1 .. q.loaded : q.slots[j] = o.slots[i]

(* What s owned is free in n. *)
Frees(s, m, n) ==
  \A r \in Region : n[r].live = (m[r].live /\ ~(Owner(s) /\ r = s.data))

(* Section k is freed, and the sections that are left may have moved. *)
LEMMA SlotReleased ==
  ASSUME NEW o \in ObjectType, Fits(o), NEW q, NEW hand \in Hands, NEW m, NEW n,
         Own(o, hand, m), q.map = o.map, Idle(q), NEW k \in 1 .. o.loaded,
         NEW from, Rearranged(o, q, k, from), Frees(o.slots[k], m, n)
  PROVE  /\ Own(q, hand, n)
         /\ Full(o, hand, m) => Full(q, hand, n)
<1>0. /\ from \in [1 .. q.loaded -> 1 .. o.loaded]
      /\ \A i, j \in 1 .. q.loaded : from[i] = from[j] => i = j
      /\ \A j \in 1 .. q.loaded : \/ q.slots[j].data = 0
                                  \/ from[j] # k /\ q.slots[j] = o.slots[from[j]]
      /\ \A i \in 1 .. o.loaded :
           i # k => \E j \in 1 .. q.loaded : q.slots[j] = o.slots[i]
      /\ \A r \in Region :
           n[r].live = (m[r].live /\ ~(Owner(o.slots[k]) /\ r = o.slots[k].data))
  BY DEF Rearranged, Frees
<1> DEFINE s == o.slots[k]
<1>1. /\ Borrowing(o, hand) /\ Alive(o, hand, m) /\ Apart(o, hand)
  BY DEF Own
<1>2. /\ o.map # 0 => o.map \in Region
      /\ \A j \in 1 .. o.loaded : Owner(o.slots[j]) => o.slots[j].data \in Region
      /\ \A g \in Handle : Owner(hand[g]) => hand[g].data \in Region
  BY OwnersAreRegions
<1>3. \A j \in 1 .. q.loaded : Owner(q.slots[j]) =>
        /\ from[j] \in 1 .. o.loaded /\ from[j] # k
        /\ q.slots[j] = o.slots[from[j]] /\ Owner(o.slots[from[j]])
  BY <1>0 DEF Owner
<1>4. Borrowing(q, hand)
  <2>1. ASSUME NEW j \in 1 .. q.loaded PROVE Clean(q.slots[j], q.map)
    <3>1. CASE q.slots[j].data = 0
      BY <3>1 DEF Clean
    <3>2. CASE q.slots[j] = o.slots[from[j]]
      BY <1>0, <1>1, <3>2 DEF Borrowing
    <3> QED BY <1>0, <3>1, <3>2
  <2> QED BY <1>1, <2>1 DEF Borrowing
<1>5. Alive(q, hand, n)
  <2>1. q.map # 0 => n[q.map].live
    BY <1>0, <1>1, <1>2 DEF Alive
  <2>2. ASSUME NEW j \in 1 .. q.loaded, Owner(q.slots[j])
        PROVE  n[q.slots[j].data].live /\ q.slots[j].data # q.map
    <3>1. /\ from[j] \in 1 .. o.loaded /\ from[j] # k
          /\ q.slots[j] = o.slots[from[j]] /\ Owner(o.slots[from[j]])
      BY <1>3, <2>2
    <3>2. m[o.slots[from[j]].data].live /\ o.slots[from[j]].data # o.map
          /\ o.slots[from[j]].data \in Region
      BY <1>1, <1>2, <3>1 DEF Alive
    <3>3. Owner(s) => o.slots[from[j]].data # s.data
      BY <1>1, <3>1 DEF Apart
    <3> QED BY <1>0, <3>1, <3>2, <3>3
  <2>3. ASSUME NEW g \in Handle, Owner(hand[g])
        PROVE  n[hand[g].data].live /\ hand[g].data # q.map
    <3>1. m[hand[g].data].live /\ hand[g].data # o.map /\ hand[g].data \in Region
      BY <1>1, <1>2, <2>3 DEF Alive
    <3>2. Owner(s) => hand[g].data # s.data
      BY <1>1, <2>3 DEF Apart
    <3> QED BY <1>0, <3>1, <3>2
  <2> QED BY <2>1, <2>2, <2>3 DEF Alive
<1>6. Apart(q, hand)
  <2>1. ASSUME NEW i \in 1 .. q.loaded, NEW j \in 1 .. q.loaded,
               Owner(q.slots[i]), Owner(q.slots[j]), q.slots[i].data = q.slots[j].data
        PROVE  i = j
    <3>1. from[i] = from[j]
      BY <1>1, <1>3, <2>1 DEF Apart
    <3> QED BY <1>0, <3>1
  <2>2. ASSUME NEW j \in 1 .. q.loaded, NEW g \in Handle, Owner(q.slots[j]), Owner(hand[g])
        PROVE  q.slots[j].data # hand[g].data
    BY <1>1, <1>3, <2>2 DEF Apart
  <2> QED BY <1>1, <2>1, <2>2 DEF Apart
<1>7. ASSUME Full(o, hand, m) PROVE Full(q, hand, n)
  <2>1. ASSUME NEW r \in Region, n[r].live
        PROVE  \/ r = q.map
               \/ \E j \in 1 .. q.loaded : Owner(q.slots[j]) /\ q.slots[j].data = r
               \/ \E g \in Handle : Owner(hand[g]) /\ hand[g].data = r
    <3>1. m[r].live /\ ~(Owner(s) /\ r = s.data)
      BY <1>0, <2>1
    <3>2. CASE \E i \in 1 .. o.loaded : Owner(o.slots[i]) /\ o.slots[i].data = r
      <4>1. PICK i \in 1 .. o.loaded : Owner(o.slots[i]) /\ o.slots[i].data = r
        BY <3>2
      <4>2. i # k
        BY <3>1, <4>1
      <4>3. PICK j \in 1 .. q.loaded : q.slots[j] = o.slots[i]
        BY <1>0, <4>2
      <4> QED BY <4>1, <4>3
    <3> QED BY <1>7, <3>1, <3>2 DEF Full
  <2> QED BY <2>1 DEF Full
<1> QED BY <1>4, <1>5, <1>6, <1>7 DEF Own

(* Section k, which owned nothing, becomes what the client's structure h   *)
(* was; no memory changes.                                                 *)
LEMMA Handover ==
  ASSUME NEW o \in ObjectType, NEW q, NEW hand \in Hands, NEW m, Own(o, hand, m),
         NEW h \in Handle, q.map = o.map, Idle(q), NEW k \in 1 .. q.loaded,
         q.slots[k] = hand[h], k \in 1 .. o.loaded => ~Owner(o.slots[k]),
         \A j \in 1 .. o.loaded : j # k => j \in 1 .. q.loaded /\ q.slots[j] = o.slots[j],
         \A j \in 1 .. q.loaded : j = k \/ j \in 1 .. o.loaded \/ q.slots[j].data = 0
  PROVE  /\ Own(q, HandWith(hand, h, NoSlot), m)
         /\ Full(o, hand, m) => Full(q, HandWith(hand, h, NoSlot), m)
<1> DEFINE after == HandWith(hand, h, NoSlot)
<1>1. \A g \in Handle : after[g] = IF g = h THEN NoSlot ELSE hand[g]
  BY HandWithFacts, NoSlotType, ObjectAssumption
<1>2. NoSlot.data = 0
  BY DEF NoSlot, Slot
<1> HIDE DEF after
<1>3. \A g \in Handle : Owner(after[g]) => g # h /\ Owner(hand[g]) /\ after[g] = hand[g]
  BY <1>1, <1>2 DEF Owner
<1>4. /\ Borrowing(o, hand) /\ Alive(o, hand, m) /\ Apart(o, hand)
  BY DEF Own
<1>5. \A j \in 1 .. q.loaded : Owner(q.slots[j]) =>
        \/ j = k /\ q.slots[j] = hand[h]
        \/ j # k /\ j \in 1 .. o.loaded /\ q.slots[j] = o.slots[j]
  BY DEF Owner
<1>6. Borrowing(q, after)
  <2>1. ASSUME NEW j \in 1 .. q.loaded PROVE Clean(q.slots[j], q.map)
    <3>1. CASE j = k
      BY <1>4, <3>1 DEF Borrowing
    <3>2. CASE j # k /\ j \in 1 .. o.loaded
      BY <1>4, <3>2 DEF Borrowing
    <3>3. CASE q.slots[j].data = 0
      BY <3>3 DEF Clean
    <3> QED BY <3>1, <3>2, <3>3
  <2>2. ASSUME NEW g \in Handle PROVE Clean(after[g], q.map)
    BY <1>1, <1>2, <1>4 DEF Borrowing, Clean
  <2> QED BY <2>1, <2>2 DEF Borrowing
<1>7. Alive(q, after, m)
  <2>1. ASSUME NEW j \in 1 .. q.loaded, Owner(q.slots[j])
        PROVE  m[q.slots[j].data].live /\ q.slots[j].data # q.map
    BY <1>4, <1>5, <2>1 DEF Alive
  <2>2. ASSUME NEW g \in Handle, Owner(after[g])
        PROVE  m[after[g].data].live /\ after[g].data # q.map
    BY <1>3, <1>4, <2>2 DEF Alive
  <2>3. q.map # 0 => m[q.map].live
    BY <1>4 DEF Alive
  <2> QED BY <2>1, <2>2, <2>3 DEF Alive
<1>8. Apart(q, after)
  <2>1. ASSUME NEW i \in 1 .. q.loaded, NEW j \in 1 .. q.loaded,
               Owner(q.slots[i]), Owner(q.slots[j]), q.slots[i].data = q.slots[j].data
        PROVE  i = j
    BY <1>4, <1>5, <2>1 DEF Apart
  <2>2. ASSUME NEW j \in 1 .. q.loaded, NEW g \in Handle, Owner(q.slots[j]), Owner(after[g])
        PROVE  q.slots[j].data # after[g].data
    BY <1>3, <1>4, <1>5, <2>2 DEF Apart
  <2>3. ASSUME NEW f \in Handle, NEW g \in Handle,
               Owner(after[f]), Owner(after[g]), after[f].data = after[g].data
        PROVE  f = g
    BY <1>3, <1>4, <2>3 DEF Apart
  <2> QED BY <2>1, <2>2, <2>3 DEF Apart
<1>9. ASSUME Full(o, hand, m) PROVE Full(q, after, m)
  <2>1. ASSUME NEW r \in Region, m[r].live
        PROVE  \/ r = q.map
               \/ \E j \in 1 .. q.loaded : Owner(q.slots[j]) /\ q.slots[j].data = r
               \/ \E g \in Handle : Owner(after[g]) /\ after[g].data = r
    <3>1. CASE \E j \in 1 .. o.loaded : Owner(o.slots[j]) /\ o.slots[j].data = r
      <4>1. PICK j \in 1 .. o.loaded : Owner(o.slots[j]) /\ o.slots[j].data = r
        BY <3>1
      <4>2. j \in 1 .. q.loaded /\ q.slots[j] = o.slots[j]
        BY <4>1
      <4> QED BY <4>1, <4>2
    <3>2. CASE \E g \in Handle : Owner(hand[g]) /\ hand[g].data = r
      <4>1. PICK g \in Handle : Owner(hand[g]) /\ hand[g].data = r
        BY <3>2
      <4>2. CASE g = h
        BY <4>1, <4>2
      <4>3. CASE g # h
        BY <1>1, <4>1, <4>3
      <4> QED BY <4>2, <4>3
    <3> QED BY <1>9, <2>1, <3>1, <3>2 DEF Full
  <2> QED BY <2>1 DEF Full
<1> QED BY <1>6, <1>7, <1>8, <1>9 DEF Own, after

LEMMA DropHandleOwn ==
  ASSUME OwnInv, NEW h \in Handle, DropHandle(h)
  PROVE  Keeps
<1> DEFINE after == HandWith(hs, h, NoSlot)
           n     == Release(mem, Owned(hs[h]))
<1>1. /\ obj \in ObjectType /\ hs \in Hands /\ mem \in Memory
      /\ Fits(obj) /\ Own(obj, hs, mem)
  BY DEF OwnInv, TypeOK, Hands, Memory, Shape
<1>2. Own(obj, after, n) /\ (Full(obj, hs, mem) => Full(obj, after, n))
  BY <1>1, HandReleased
<1>3. obj' = obj /\ hs' = after /\ mem' = n
  BY DEF DropHandle, HandWith
<1> HIDE DEF after, n
<1> QED BY <1>2, <1>3 DEF Keeps, Tight

(* A cleanup frees all that is not the client's. *)
LEMMA ObjCleanupOwn ==
  ASSUME Sound, OwnInv, ObjCleanup
  PROVE  Keeps
<1> DEFINE q == EmptyObject
           rs == ObjectOwns(obj)
           n == Release(mem, rs)
<1>1. /\ obj \in ObjectType /\ hs \in Hands /\ mem \in Memory
      /\ Fits(obj) /\ Own(obj, hs, mem)
  BY DEF OwnInv, TypeOK, Hands, Memory, Shape
<1>2. obj' = q /\ mem' = n /\ hs' = hs
  BY DEF ObjCleanup
<1>3. q.slots = <<>> /\ q.loaded = 0 /\ q.map = 0 /\ 1 .. q.loaded = {}
  BY DEF EmptyObject
<1>4. \A h \in Handle : hs[h].data # 0 => ~hs[h].view /\ ~hs[h].mapped
  <2>1. ~ViewsOut
    BY DEF ObjCleanup, Sound, Careful, Called
  <2> QED BY <1>1, <2>1 DEF ViewsOut, Own, Borrowing, Clean
<1>5. \A r : r \in rs <=> \/ r = obj.map /\ obj.map # 0
                          \/ \E j \in 1 .. obj.loaded : Owner(obj.slots[j]) /\ obj.slots[j].data = r
  <2>1. \A j \in 1 .. obj.loaded :
          Owned(obj.slots[j]) = IF Owner(obj.slots[j]) THEN {obj.slots[j].data} ELSE {}
    BY <1>1, OwnedIs DEF Own, Borrowing
  <2> QED BY <2>1 DEF ObjectOwns
<1> HIDE DEF rs
<1>6. \A r \in Region : n[r].live = (mem[r].live /\ r \notin rs)
  BY <1>1, ReleaseFacts
<1> HIDE DEF q, n
<1>7. \A h \in Handle : Owner(hs[h]) => hs[h].data \in Region
  BY <1>1, OwnersAreRegions
<1>8. Idle(q) /\ Borrowing(q, hs)
  BY <1>3, <1>4 DEF Idle, Borrowing, Clean
<1>9. Alive(q, hs, n)
  <2>1. ASSUME NEW h \in Handle, Owner(hs[h])
        PROVE  n[hs[h].data].live /\ hs[h].data # q.map
    <3>1. mem[hs[h].data].live /\ hs[h].data # obj.map /\ hs[h].data \in Region
      BY <1>1, <1>7, <2>1 DEF Own, Alive
    <3>2. hs[h].data \notin rs
      BY <1>1, <1>5, <2>1, <3>1 DEF Own, Apart
    <3> QED BY <1>3, <1>6, <2>1, <3>1, <3>2 DEF Owner
  <2> QED BY <1>3, <2>1 DEF Alive
<1>10. Apart(q, hs)
  BY <1>1, <1>3 DEF Own, Apart
<1>11. ASSUME Full(obj, hs, mem) PROVE Full(q, hs, n)
  <2>1. ASSUME NEW r \in Region, n[r].live
        PROVE  \E h \in Handle : Owner(hs[h]) /\ hs[h].data = r
    <3>1. mem[r].live /\ r \notin rs
      BY <1>6, <2>1
    <3>2. r # 0
      BY DEF Region
    <3> QED BY <1>5, <1>11, <3>1, <3>2 DEF Full
  <2> QED BY <2>1 DEF Full
<1> QED BY <1>2, <1>3, <1>8, <1>9, <1>10, <1>11 DEF Keeps, Tight, Own

(* The client's region becomes the object's. *)
LEMMA CreateSectionOwn ==
  ASSUME Sound, OwnInv, NEW n \in Names, NEW h \in Handle \cup {NoHandle},
         CreateSection(n, h), TypeOK', Shape'
  PROVE  Keeps
<1> DEFINE k == obj.count
           q == obj'
<1>1. /\ obj \in ObjectType /\ hs \in Hands /\ mem \in Memory /\ mem' = mem
      /\ Fits(obj) /\ Own(obj, hs, mem) /\ obj.count < MaxSections
  BY DEF OwnInv, TypeOK, Hands, Memory, Shape, CreateSection
<1>2. CASE UNCHANGED <<obj, hs>>
  BY <1>1, <1>2, UnchangedOwn
<1>3. CASE ~ UNCHANGED <<obj, hs>>
  <2> DEFINE hdr == SectionHeader(n, obj.target, IF h \in Handle THEN hs[h].size ELSE 0, 0)
             headers == Append(SubSeq(obj.headers, 1, k), hdr)
             count == (k + 1) % CountMod
             named == [obj EXCEPT !.headers = headers, !.count = count]
  <2>1. IF h \in Handle
          THEN /\ obj' = [named EXCEPT !.slots = Grown(obj, hs[h]),
                                       !.loaded = IF k >= @ THEN count ELSE @]
               /\ hs' = HandedOver(h)
          ELSE obj' = named /\ hs' = hs
    BY <1>3 DEF CreateSection
  <2>2. /\ k \in Nat /\ k \in 0 .. CountMod - 1 /\ obj.loaded \in Nat /\ obj.loaded <= k
    BY <1>1 DEF ObjectType, Fits, ObjectAssumption
  <2>3. count = IF k + 1 = CountMod THEN 0 ELSE k + 1
    BY <2>2, Wrapped, ObjectAssumption
  <2> HIDE DEF headers, count, hdr
  <2>4. CASE h \notin Handle
    <3>1. obj.slots = <<>> /\ obj.loaded = 0
      BY <1>1, <2>4 DEF CreateSection, Careful, Called, Sound, Fits
    <3>2. obj' = named /\ hs' = hs
      BY <2>1, <2>4
    <3>3. obj'.slots = obj.slots /\ obj'.loaded = obj.loaded /\ obj'.map = obj.map
      BY <1>1, <3>2 DEF ObjectType
    <3> QED BY <1>1, <3>1, <3>2, <3>3, SameOwn
  <2>5. CASE h \in Handle
    <3> DEFINE slots == Grown(obj, hs[h])
               after == HandWith(hs, h, NoSlot)
    <3>1. hs[h] \in SlotType
      BY <1>1, <2>5 DEF Hands
    <3>2. /\ slots[k + 1] = hs[h]
          /\ \A j \in 1 .. obj.loaded : slots[j] = obj.slots[j]
          /\ \A j \in obj.loaded + 1 .. k : slots[j] = NoSlot
      BY <1>1, <3>1, GrownFacts, ObjectAssumption
    <3> HIDE DEF slots
    <3>3. /\ q.slots = slots /\ q.loaded = count /\ q.count = count /\ q.map = obj.map
      BY <1>1, <2>1, <2>2, <2>5 DEF slots, ObjectType
    <3>4. hs' = after
      BY <2>1, <2>5 DEF HandedOver, HandWith
    <3> HIDE DEF q
    <3>5. Idle(q)
      BY <2>2, <2>3, <3>3 DEF Idle
    <3>6. CASE count = k + 1
      <4>1. k + 1 \in 1 .. q.loaded /\ 1 .. q.loaded = 1 .. k + 1 /\ k + 1 \notin 1 .. obj.loaded
        BY <2>2, <3>3, <3>6
      <4>2. \A j \in 1 .. obj.loaded : j \in 1 .. q.loaded /\ q.slots[j] = obj.slots[j]
        BY <2>2, <3>2, <3>3, <3>6
      <4>3. NoSlot.data = 0
        BY DEF NoSlot, Slot
      <4>4. \A j \in 1 .. q.loaded : j = k + 1 \/ j \in 1 .. obj.loaded \/ q.slots[j].data = 0
        <5>1. ASSUME NEW j \in 1 .. k + 1, j # k + 1, j \notin 1 .. obj.loaded
              PROVE  slots[j].data = 0
          <6>1. j \in obj.loaded + 1 .. k
            BY <2>2, <5>1
          <6> QED BY <3>2, <4>3, <6>1
        <5> QED BY <3>3, <4>1, <5>1
      <4>5. q.slots[k + 1] = hs[h]
        BY <3>2, <3>3
      <4>6. Own(q, after, mem) /\ (Full(obj, hs, mem) => Full(q, after, mem))
        BY <1>1, <2>5, <3>3, <3>5, <4>1, <4>2, <4>4, <4>5, Handover
      <4> HIDE DEF after
      <4> QED BY <1>1, <3>3, <3>4, <4>6 DEF Keeps, Tight, q
    <3>7. CASE count # k + 1
      <4>1. q.loaded = 0 /\ 1 .. q.loaded = {} /\ ~Frugal
        <5>1. k + 1 = CountMod /\ count = 0
          BY <2>3, <3>7
        <5>2. ~(MaxSections < CountMod)
          BY <1>1, <2>2, <5>1, ObjectAssumption DEF ObjectAssumption
        <5> QED BY <3>3, <5>1, <5>2 DEF Frugal
      <4>2. Own(q, after, mem)
        <5>1. \A g \in Handle : after[g] = IF g = h THEN NoSlot ELSE hs[g]
          BY <1>1, <2>5, HandWithFacts, NoSlotType, ObjectAssumption
        <5>2. NoSlot.data = 0
          BY DEF NoSlot, Slot
        <5> HIDE DEF after
        <5>3. \A g \in Handle : Owner(after[g]) => Owner(hs[g]) /\ after[g] = hs[g]
          BY <5>1, <5>2 DEF Owner
        <5>4. Borrowing(q, after)
          BY <1>1, <3>3, <4>1, <5>1, <5>2 DEF Own, Borrowing, Clean
        <5>5. Alive(q, after, mem)
          BY <1>1, <3>3, <4>1, <5>3 DEF Own, Alive
        <5>6. Apart(q, after)
          BY <1>1, <4>1, <5>3 DEF Own, Apart
        <5> QED BY <3>5, <5>4, <5>5, <5>6 DEF Own
      <4> HIDE DEF after
      <4> QED BY <1>1, <3>4, <4>1, <4>2 DEF Keeps, q
    <3> QED BY <3>6, <3>7
  <2> QED BY <2>4, <2>5
<1> QED BY <1>2, <1>3

(* What an update or a deletion frees is what the section owned. *)
LEMMA FreedIs ==
  ASSUME TypeOK, NEW s \in SlotType
  PROVE  Frees(s, mem, Freed(s))
<1>1. ASSUME NEW r \in Region
      PROVE  Freed(s)[r].live = (mem[r].live /\ ~(Owner(s) /\ r = s.data))
  <2>1. Freed(s)[r].live = (mem[r].live /\ (s.view \/ r # s.data)) /\ r # 0
    BY FreedFacts DEF Region
  <2>2. mem[r].live \in BOOLEAN /\ s.view \in BOOLEAN
    BY DEF TypeOK, SlotType
  <2>3. ~(Owner(s) /\ r = s.data) <=> (s.view \/ r # s.data)
    BY <2>1, <2>2 DEF Owner
  <2> QED BY <2>1, <2>2, <2>3
<1> QED BY <1>1 DEF Frees

(* An object with section k emptied. *)
Emptied(o, k) == [o EXCEPT !.slots = [o.slots EXCEPT ![k] = NoSlot]]

(* An object after one of its sections was freed. *)
LEMMA EmptiedFacts ==
  ASSUME ObjectAssumption, NEW o \in ObjectType, Fits(o), NEW k \in 1 .. o.loaded
  PROVE  LET e == Emptied(o, k)
         IN  /\ e \in ObjectType /\ Fits(e)
             /\ e.map = o.map /\ e.count = o.count /\ e.loaded = o.loaded
             /\ Len(e.slots) = Len(o.slots)
             /\ \A j \in 1 .. Len(o.slots) :
                  e.slots[j] = IF j = k THEN NoSlot ELSE o.slots[j]
<1> DEFINE slots == [o.slots EXCEPT ![k] = NoSlot]
<1>1. k \in 1 .. Len(o.slots) /\ o.slots \in Seq(SlotType) /\ NoSlot \in SlotType
  BY LoadedSlots, NoSlotType DEF ObjectType
<1>2. /\ slots \in Seq(SlotType) /\ Len(slots) = Len(o.slots)
      /\ \A j \in 1 .. Len(o.slots) : slots[j] = IF j = k THEN NoSlot ELSE o.slots[j]
  BY ONLY <1>1, ReplacedFacts
<1> HIDE DEF slots
<1>3. /\ Emptied(o, k) \in ObjectType /\ Emptied(o, k).slots = slots
      /\ Emptied(o, k).map = o.map /\ Emptied(o, k).count = o.count
      /\ Emptied(o, k).loaded = o.loaded
  <2>1. Emptied(o, k) = [o EXCEPT !.slots = slots]
    BY DEF Emptied, slots
  <2> QED BY <1>2, <2>1 DEF ObjectType
<1>4. slots # <<>> /\ o.slots # <<>>
  BY <1>1, <1>2
<1> QED BY <1>2, <1>3, <1>4 DEF Fits

(* An update frees one region and takes over another. *)
LEMMA UpdateSectionOwn ==
  ASSUME OwnInv, NEW i \in Nat, NEW h \in Handle, UpdateSection(i, h)
  PROVE  Keeps
<1>0. /\ obj \in ObjectType /\ hs \in Hands /\ mem \in Memory
      /\ Fits(obj) /\ Own(obj, hs, mem) /\ obj.loaded \in Nat /\ obj.count \in Nat
      /\ obj.loaded <= obj.count
  BY DEF OwnInv, TypeOK, Hands, Memory, Shape, ObjectType, Fits, ObjectAssumption
<1>1. CASE UNCHANGED <<obj, mem, hs>>
  BY <1>1, UnchangedOwn
<1>2. CASE i < obj.count
  <2> DEFINE sized == [obj EXCEPT !.headers[i + 1].size = hs[h].size]
  <2>1. IF obj.slots # <<>> /\ i < obj.loaded
          THEN /\ mem' = Freed(obj.slots[i + 1])
               /\ obj' = [sized EXCEPT !.slots[i + 1] = hs[h]]
               /\ hs' = HandedOver(h)
          ELSE obj' = sized /\ UNCHANGED <<mem, hs>>
    <3>1. ~(i >= obj.count)
      BY <1>0, <1>2
    <3> QED BY <3>1 DEF UpdateSection
  <2>2. CASE ~(obj.slots # <<>> /\ i < obj.loaded)
    <3>1. /\ obj'.slots = obj.slots /\ obj'.loaded = obj.loaded /\ obj'.map = obj.map
          /\ obj'.count = obj.count
      BY <1>0, <2>1, <2>2 DEF ObjectType
    <3> QED BY <2>1, <2>2, <3>1, SameOwn
  <2>3. CASE obj.slots # <<>> /\ i < obj.loaded
    <3> DEFINE k == i + 1
               e == Emptied(obj, k)
               n == Freed(obj.slots[k])
               after == HandWith(hs, h, NoSlot)
               q == obj'
               from == [j \in 1 .. obj.loaded |-> j]
    <3>1. /\ q.slots = [obj.slots EXCEPT ![k] = hs[h]]
          /\ q.loaded = obj.loaded /\ q.map = obj.map /\ q.count = obj.count
      BY <1>0, <2>1, <2>3 DEF ObjectType
    <3>2. mem' = n /\ hs' = after
      BY <2>1, <2>3 DEF HandedOver, HandWith
    <3>3. k \in 1 .. obj.loaded /\ k \in 1 .. Len(obj.slots) /\ obj.slots[k] \in SlotType
          /\ obj.slots \in Seq(SlotType) /\ Len(obj.slots) \in Nat
          /\ obj.count <= Len(obj.slots)
      BY <1>0, <2>3, LoadedSlots, ObjectAssumption DEF ObjectType, Fits
    <3>4. \A j \in 1 .. Len(obj.slots) :
            q.slots[j] = IF j = k THEN hs[h] ELSE obj.slots[j]
      BY <3>1, <3>3
    <3>5. Frees(obj.slots[k], mem, n)
      BY <3>3, FreedIs DEF OwnInv
    <3> HIDE DEF k, n, q
    <3>6. /\ e \in ObjectType /\ Fits(e)
          /\ e.map = obj.map /\ e.count = obj.count /\ e.loaded = obj.loaded
          /\ \A j \in 1 .. Len(obj.slots) :
               e.slots[j] = IF j = k THEN NoSlot ELSE obj.slots[j]
      BY <1>0, <3>3, EmptiedFacts, ObjectAssumption
    <3>7. NoSlot.data = 0
      BY DEF NoSlot, Slot
    <3> HIDE DEF e
    <3>8. Idle(e) /\ Idle(q)
      BY <1>0, <2>3, <3>1, <3>3, <3>4, <3>6, <3>7 DEF Own, Idle
    <3>9. Own(e, hs, n) /\ (Full(obj, hs, mem) => Full(e, hs, n))
      <4>1. from \in [1 .. e.loaded -> 1 .. obj.loaded]
        BY <3>6
      <4>2. \A x, j \in 1 .. e.loaded : from[x] = from[j] => x = j
        BY <3>6
      <4>3. \A j \in 1 .. e.loaded : \/ e.slots[j].data = 0
                                     \/ from[j] # k /\ e.slots[j] = obj.slots[from[j]]
        BY <1>0, <3>3, <3>6, <3>7
      <4>4. \A x \in 1 .. obj.loaded :
              x # k => \E j \in 1 .. e.loaded : e.slots[j] = obj.slots[x]
        BY <1>0, <3>3, <3>6
      <4> HIDE DEF from
      <4>5. Rearranged(obj, e, k, from)
        BY <4>1, <4>2, <4>3, <4>4 DEF Rearranged
      <4> QED BY <1>0, <3>3, <3>5, <3>6, <3>8, <4>5, SlotReleased
    <3>10. Own(q, after, n) /\ (Full(e, hs, n) => Full(q, after, n))
      <4>1. k \in 1 .. q.loaded /\ q.slots[k] = hs[h] /\ q.map = e.map
        BY <3>1, <3>3, <3>4, <3>6
      <4>2. ~Owner(e.slots[k])
        BY <3>3, <3>6, <3>7 DEF Owner
      <4>3. \A j \in 1 .. e.loaded : j # k => j \in 1 .. q.loaded /\ q.slots[j] = e.slots[j]
        BY <1>0, <3>1, <3>3, <3>4, <3>6
      <4>4. \A j \in 1 .. q.loaded : j = k \/ j \in 1 .. e.loaded \/ q.slots[j].data = 0
        BY <3>1, <3>6
      <4> QED BY <1>0, <3>6, <3>8, <3>9, <4>1, <4>2, <4>3, <4>4, Handover
    <3> HIDE DEF after
    <3> QED BY <3>1, <3>2, <3>9, <3>10 DEF Keeps, Tight, q
  <2> QED BY <2>2, <2>3
<1>3. CASE i >= obj.count
  BY <1>1, <1>3 DEF UpdateSection
<1> QED BY <1>0, <1>2, <1>3

(* Where a deletion puts the sections: those behind i move down by one. *)
LEMMA ShiftedSlots ==
  ASSUME ObjectAssumption, NEW o \in ObjectType, Fits(o), NEW i \in Nat, i < o.count,
         o.loaded = o.count, NEW j \in 1 .. o.loaded - 1
  PROVE  IF j < i + 1 THEN Shifted(o, i)[j] = o.slots[j]
         ELSE Shifted(o, i)[j] = o.slots[j + 1]
<1> DEFINE last    == i = o.count - 1 \/ i >= o.loaded - 1
           e       == [o.slots[i + 1] EXCEPT !.data = 0]
           cleared == IF Resident(o, i) /\ ~o.slots[i + 1].view
                        THEN [o.slots EXCEPT ![i + 1].data = 0] ELSE o.slots
<1>1. /\ o.slots \in Seq(SlotType) /\ o.loaded \in Nat /\ o.count \in Nat
      /\ Len(o.slots) \in Nat /\ o.loaded <= Len(o.slots)
  BY LoadedSlots DEF ObjectType, ObjectAssumption, Fits
<1>2. DOMAIN cleared = 1 .. Len(o.slots)
      /\ \A x \in 1 .. Len(o.slots) : x # i + 1 => cleared[x] = o.slots[x]
  BY <1>1
<1>3. Shifted(o, i) = [x \in DOMAIN cleared |->
                         IF ~last /\ x \in i + 1 .. o.loaded - 1
                           THEN cleared[x + 1] ELSE cleared[x]]
  BY DEF Shifted
<1> HIDE DEF cleared
<1>4. CASE j < i + 1
  <2>1. Shifted(o, i)[j] = cleared[j]
    BY <1>1, <1>2, <1>3, <1>4
  <2>2. cleared[j] = o.slots[j]
    BY <1>1, <1>2, <1>4
  <2> QED BY <1>4, <2>1, <2>2
<1>5. CASE ~(j < i + 1)
  <2>1. ~last /\ j \in i + 1 .. o.loaded - 1 /\ j \in 1 .. Len(o.slots)
    BY <1>1, <1>5
  <2>2. Shifted(o, i)[j] = cleared[j + 1]
    BY <1>1, <1>2, <1>3, <2>1
  <2>3. cleared[j + 1] = o.slots[j + 1]
    BY <1>1, <1>2, <1>5
  <2> QED BY <1>5, <2>2, <2>3
<1> QED BY <1>4, <1>5

(* A deletion frees one region; every other moves with its section. *)
LEMMA DeleteSectionOwn ==
  ASSUME Sound, OwnInv, NEW i \in Nat, DeleteSection(i)
  PROVE  Keeps
<1>0. /\ obj \in ObjectType /\ hs \in Hands /\ mem \in Memory /\ hs' = hs
      /\ Fits(obj) /\ Own(obj, hs, mem) /\ obj.loaded \in Nat /\ obj.count \in Nat
      /\ obj.loaded <= obj.count /\ obj.loaded \in {0, obj.count}
  <2>1. obj \in ObjectType /\ hs \in Hands /\ mem \in Memory /\ Fits(obj) /\ Own(obj, hs, mem)
    BY DEF OwnInv, TypeOK, Hands, Memory, Shape
  <2>2. obj.loaded \in Nat /\ obj.count \in Nat /\ obj.loaded <= obj.count
    BY <2>1 DEF ObjectType, Fits
  <2>3. hs' = hs /\ Careful("delete partly loaded", obj.loaded \in {0, obj.count})
    BY DEF DeleteSection
  <2>4. "delete partly loaded" \notin Calls
    BY DEF Sound
  <2> QED BY <2>1, <2>2, <2>3, <2>4 DEF Careful, Called
<1>1. CASE UNCHANGED <<obj, mem>>
  BY <1>0, <1>1, UnchangedOwn
<1>2. CASE i < obj.count
  <2> DEFINE q == obj'
             n == mem'
  <2>1. /\ n = IF Resident(obj, i) THEN Freed(obj.slots[i + 1]) ELSE mem
        /\ q.map = obj.map /\ q.slots = Shifted(obj, i)
        /\ q.count = obj.count - 1 /\ q.loaded = Fewer(obj.loaded)
    <3>1. ~(i >= obj.count)
      BY <1>0, <1>2
    <3> QED BY <1>0, <3>1 DEF DeleteSection, ObjectType
  <2> HIDE DEF q, n
  <2>2. CASE obj.loaded = 0
    <3>1. q.loaded = 0 /\ n = mem
      BY <1>0, <2>1, <2>2 DEF Fewer, Resident
    <3>2. Idle(q)
      <4>1. Shifted(obj, i) = obj.slots
        <5>1. ~Resident(obj, i) /\ i >= obj.loaded - 1
          BY <2>2 DEF Resident
        <5>2. Shifted(obj, i) = [j \in DOMAIN obj.slots |-> obj.slots[j]]
          BY <5>1 DEF Shifted
        <5> QED BY <1>0, <5>2 DEF ObjectType
      <4> QED BY <1>0, <2>1, <2>2, <3>1, <4>1 DEF Own, Idle
    <3>3. 1 .. q.loaded = 1 .. obj.loaded /\ 1 .. obj.loaded = {}
      BY <2>2, <3>1
    <3>4. Borrowing(q, hs) /\ Alive(q, hs, mem) /\ Apart(q, hs)
      BY <1>0, <2>1, <3>3 DEF Own, Borrowing, Alive, Apart
    <3>5. Full(obj, hs, mem) => Full(q, hs, mem)
      BY <2>1, <3>3 DEF Full
    <3> QED BY <1>0, <2>1, <3>1, <3>2, <3>4, <3>5 DEF Keeps, Tight, Own, q, n
  <2>3. CASE obj.loaded = obj.count /\ obj.loaded # 0
    <3> DEFINE k    == i + 1
               from == [j \in 1 .. q.loaded |-> IF j < k THEN j ELSE j + 1]
    <3>1. q.loaded = obj.loaded - 1 /\ q.count = obj.count - 1 /\ k \in 1 .. obj.loaded
          /\ q.loaded \in Nat
      BY <1>0, <1>2, <2>1, <2>3 DEF Fewer
    <3>2. obj.slots[k] \in SlotType
      BY <1>0, <3>1, LoadedSlots, ObjectAssumption
    <3>3. Frees(obj.slots[k], mem, n)
      <4>1. CASE Resident(obj, i)
        BY <2>1, <3>2, <4>1, FreedIs DEF OwnInv
      <4>2. CASE ~Resident(obj, i)
        <5>1. ~Owner(obj.slots[k])
          <6>1. obj.slots # <<>> /\ i < obj.loaded
            BY <1>0, <1>2, <2>3 DEF Fits
          <6> QED BY <4>2, <6>1 DEF Resident, Owner
        <5> QED BY <1>0, <2>1, <4>2, <5>1 DEF Memory, Frees
      <4> QED BY <4>1, <4>2
    <3>4. \A j \in 1 .. q.loaded : q.slots[j] = IF j < k THEN obj.slots[j] ELSE obj.slots[j + 1]
      <4>1. \A j \in 1 .. obj.loaded - 1 :
              IF j < i + 1 THEN Shifted(obj, i)[j] = obj.slots[j]
              ELSE Shifted(obj, i)[j] = obj.slots[j + 1]
        BY <1>0, <1>2, <2>3, ShiftedSlots, ObjectAssumption
      <4> QED BY <2>1, <3>1, <4>1
    <3> HIDE DEF k
    <3>5. from \in [1 .. q.loaded -> 1 .. obj.loaded]
      BY <1>0, <3>1
    <3>6. \A x, j \in 1 .. q.loaded : from[x] = from[j] => x = j
      BY <3>1
    <3>7. \A j \in 1 .. q.loaded : from[j] # k /\ q.slots[j] = obj.slots[from[j]]
      BY <3>1, <3>4
    <3>8. ASSUME NEW x \in 1 .. obj.loaded, x # k
          PROVE  \E j \in 1 .. q.loaded : q.slots[j] = obj.slots[x]
      <4>1. CASE x < k
        <5>1. x \in 1 .. q.loaded
          BY <1>0, <3>1, <4>1
        <5> QED BY <3>4, <4>1, <5>1
      <4>2. CASE x > k
        <5>1. x - 1 \in 1 .. q.loaded /\ ~(x - 1 < k) /\ (x - 1) + 1 = x
          BY <1>0, <3>1, <4>2
        <5> QED BY <3>4, <5>1
      <4> QED BY <3>1, <3>8, <4>1, <4>2
    <3>9. Idle(q)
      BY <1>0, <2>3, <3>1 DEF Idle
    <3> HIDE DEF from
    <3>10. Rearranged(obj, q, k, from)
      BY <3>5, <3>6, <3>7, <3>8 DEF Rearranged
    <3>11. Own(q, hs, n) /\ (Full(obj, hs, mem) => Full(q, hs, n))
      BY <1>0, <2>1, <3>1, <3>3, <3>9, <3>10, SlotReleased
    <3> QED BY <1>0, <2>1, <3>11 DEF Keeps, Tight, q, n
  <2> QED BY <1>0, <2>2, <2>3
<1>3. CASE i >= obj.count
  BY <1>1, <1>3 DEF DeleteSection
<1> QED BY <1>0, <1>2, <1>3

(* What a load gives to the client: a section of its own, or a view of the *)
(* mapping; nothing is lost on the way.                                    *)
LEMMA FetchedGiven ==
  ASSUME OwnInv, NEW hdr \in HeaderType, NEW flags, "MMAP" \notin flags,
         "VIEW" \in flags => obj.map # 0, NEW o \in Fetched(hdr, flags)
  PROVE  /\ o.mem \in Memory /\ o.s \in SlotType
         /\ o.err # "GOOD" => o.mem = mem
         /\ o.err = "GOOD" => Given(o.s, obj.map, mem, o.mem)
<1> DEFINE view == "VIEW" \in flags
           none == <<>>
           p    == Position
<1>1. mem \in Memory /\ TypeOK /\ p \in Nat /\ none \in Seq(Cells) /\ view \in BOOLEAN
  BY PositionIsNat DEF OwnInv, TypeOK, Memory
<1>2. hdr.off \in Nat /\ hdr.size \in Nat
  BY DEF HeaderType
<1>3. o.mem \in Memory /\ o.s \in SlotType
  <2>1. IsResult(o)
    BY <1>1, FetchedIsResult, ObjectAssumption
  <2> QED BY <2>1 DEF IsResult
<1>4. CASE view /\ obj.map # 0
  <2>1. o = Got(Slot(obj.map, hdr.off, hdr.size, TRUE, FALSE), mem, Position)
    BY <1>4 DEF Fetched, Viewed
  <2>2. o.s = Slot(obj.map, hdr.off, hdr.size, TRUE, FALSE) /\ o.mem = mem /\ o.err = "GOOD"
    BY <2>1 DEF Got
  <2>3. o.s.data = obj.map /\ o.s.view /\ ~o.s.mapped
    BY <2>2 DEF Slot
  <2> QED BY <1>3, <1>4, <2>2, <2>3 DEF Given
<1>5. CASE ~view
  <2>1. ASSUME NEW cells \in Seq(Cells), NEW a \in Nat, NEW b \in Nat,
               o \in Filled(mem, cells, view, a, b)
        PROVE  /\ o.err # "GOOD" => o.mem = mem
               /\ o.err = "GOOD" => Given(o.s, obj.map, mem, o.mem)
    <3> HIDE DEF view
    <3>1. /\ o.err # "GOOD" => o.mem = mem
          /\ o.err = "GOOD" => /\ o.s.data # 0 /\ ~o.s.mapped /\ o.s.view = view
                               /\ Takes(mem, o.s.data, o.mem)
      BY <1>1, <2>1, FilledFacts, ObjectAssumption
    <3> QED BY <1>3, <1>5, <3>1 DEF Given
  <2>2. ASSUME NEW q, o = Lost("IO", mem, q)
        PROVE  o.err # "GOOD" /\ o.mem = mem
    BY <2>2 DEF Lost
  <2>3. CASE o \in Filled(mem, none, view, p, p)
    BY <1>1, <1>3, <2>1, <2>3
  <2>4. CASE o = Lost("IO", mem, p)
    BY <1>3, <2>2, <2>4
  <2>5. CASE o \in ReadFile(hdr.off, hdr.size, view)
    <3>1. CASE o \in FilledFromFile(hdr.off, hdr.size, view)
      <4>1. PICK n \in Nat :
              /\ hdr.off + n \in Nat /\ CellsOf(file, hdr.off, n) \in Seq(Cells)
              /\ o \in Filled(mem, CellsOf(file, hdr.off, n), view, hdr.off, hdr.off + n)
        BY <1>1, <1>2, <3>1, ReadIsFilled, ObjectAssumption
      <4> QED BY <1>2, <1>3, <2>1, <4>1
    <3>2. CASE o = Lost("IO", mem, hdr.off)
      BY <1>3, <2>2, <3>2
    <3> QED BY <1>5, <2>5, <3>1, <3>2 DEF ReadFile
  <2> HIDE DEF p, none
  <2> QED BY <1>5, <2>3, <2>4, <2>5 DEF Fetched, p, none
<1> QED BY <1>4, <1>5

(* What the object keeps of it: a view as well, or a copy of its own. *)
LEMMA KeptGiven ==
  ASSUME NEW array \in Seq(SlotType), NEW i \in Nat, i < Len(array), array[i + 1].data = 0,
         NEW o, o.mem \in Memory, NEW m, Given(o.s, obj.map, m, o.mem),
         NEW k \in Kept(array, i, o)
  PROVE  \/ k.slots[i + 1].data = 0 /\ k.mem = o.mem
         \/ Given(k.slots[i + 1], obj.map, o.mem, k.mem)
<1>1. i + 1 \in 1 .. Len(array) /\ o.s \in SlotType /\ o.s.data # 0 /\ ~o.s.mapped
      /\ (o.s.view => o.s.data = obj.map)
  BY DEF Given
<1>2. \A s : ReplaceAt(array, i + 1, s)[i + 1] = s
  BY <1>1 DEF ReplaceAt
<1>3. CASE k = [slots |-> array, mem |-> o.mem]
  BY <1>3
<1>4. CASE o.s.view /\ k = [slots |-> ReplaceAt(array, i + 1, o.s), mem |-> o.mem]
  <2>1. k.slots[i + 1] = o.s /\ k.mem = o.mem
    BY <1>2, <1>4
  <2> QED BY <1>1, <1>4, <2>1 DEF Given
<1>5. CASE \E a \in Alloc(o.mem, Bytes(o.s, o.mem)) :
             k = [slots |-> IF a.r = 0 THEN array
                            ELSE ReplaceAt(array, i + 1, Slot(a.r, 0, o.s.size, FALSE, FALSE)),
                  mem |-> a.mem]
  <2>1. PICK a \in Alloc(o.mem, Bytes(o.s, o.mem)) :
             k = [slots |-> IF a.r = 0 THEN array
                            ELSE ReplaceAt(array, i + 1, Slot(a.r, 0, o.s.size, FALSE, FALSE)),
                  mem |-> a.mem]
    BY <1>5
  <2>2. Bytes(o.s, o.mem) \in Seq(Cells)
    BY <1>1, BytesFacts
  <2>3. /\ a.r \in 0 .. MaxRegion
        /\ a.r = 0 => a.mem = o.mem
        /\ a.r # 0 => Takes(o.mem, a.r, a.mem)
    BY <2>2, AllocFacts, ObjectAssumption
  <2>4. CASE a.r = 0
    BY <2>1, <2>3, <2>4
  <2>5. CASE a.r # 0
    <3> DEFINE s == Slot(a.r, 0, o.s.size, FALSE, FALSE)
    <3>1. s \in SlotType /\ s.data = a.r /\ ~s.mapped /\ ~s.view
      BY <1>1, <2>3 DEF Slot, SlotType
    <3>2. k.slots = ReplaceAt(array, i + 1, s) /\ k.mem = a.mem
      BY <2>1, <2>5
    <3> HIDE DEF s
    <3>3. k.slots[i + 1] = s
      BY <1>2, <3>2
    <3> QED BY <2>3, <2>5, <3>1, <3>2, <3>3 DEF Given
  <2> QED BY <2>4, <2>5
<1>6. \/ k = [slots |-> array, mem |-> o.mem]
      \/ o.s.view /\ k = [slots |-> ReplaceAt(array, i + 1, o.s), mem |-> o.mem]
      \/ \E a \in Alloc(o.mem, Bytes(o.s, o.mem)) :
             k = [slots |-> IF a.r = 0 THEN array
                            ELSE ReplaceAt(array, i + 1, Slot(a.r, 0, o.s.size, FALSE, FALSE)),
                  mem |-> a.mem]
  BY DEF Kept
<1> QED BY <1>3, <1>4, <1>5, <1>6

(* The object with a sections array. *)
Held == [obj EXCEPT !.slots = SectionsArray]

(* A new array has no sections, so that nothing is owned twice. *)
LEMMA HeldFacts ==
  ASSUME OwnInv, phase = "ready"
  PROVE  /\ Held \in ObjectType /\ Fits(Held) /\ Own(Held, hs, mem)
         /\ Full(obj, hs, mem) => Full(Held, hs, mem)
         /\ Held.map = obj.map /\ Held.count = obj.count /\ Held.loaded = obj.loaded
         /\ Held.slots = SectionsArray
         /\ \A j \in 1 .. obj.count : Resident(obj, j - 1) \/ SectionsArray[j].data = 0
<1> DEFINE array == SectionsArray
           q     == Held
<1>1. /\ obj \in ObjectType /\ Fits(obj) /\ Own(obj, hs, mem)
      /\ obj.count \in Nat /\ obj.loaded \in Nat /\ obj.loaded <= obj.count
      /\ obj.slots \in Seq(SlotType)
  BY DEF OwnInv, TypeOK, Shape, ObjectType, Fits, ObjectAssumption
<1>2. /\ array \in Seq(SlotType) /\ obj.count <= Len(array)
      /\ \A j \in 1 .. obj.loaded : array[j] = obj.slots[j]
  BY SectionsArrayFacts, ObjectAssumption DEF OwnInv
<1>3. \A j \in 1 .. obj.count : Resident(obj, j - 1) \/ array[j].data = 0
  <2>1. CASE obj.slots = <<>>
    BY <2>1 DEF SectionsArray, NoSlot, Slot
  <2>2. CASE obj.slots # <<>>
    <3>1. array = obj.slots
      BY <2>2 DEF SectionsArray
    <3>2. \A j \in obj.loaded + 1 .. obj.count : array[j].data = 0
      BY <1>1, <2>2, <3>1 DEF Own, Idle
    <3>3. ASSUME NEW j \in 1 .. obj.count, array[j].data # 0
          PROVE  Resident(obj, j - 1)
      <4>1. j - 1 < obj.loaded /\ (j - 1) + 1 = j
        BY <1>1, <3>2, <3>3
      <4> QED BY <2>2, <3>1, <3>3, <4>1 DEF Resident
    <3> QED BY <3>3
  <2> QED BY <2>1, <2>2
<1>4. \A j \in obj.loaded + 1 .. obj.count : array[j].data = 0
  <2>1. CASE obj.slots = <<>>
    BY <1>1, <2>1 DEF SectionsArray, NoSlot, Slot
  <2>2. CASE obj.slots # <<>>
    BY <1>1, <2>2 DEF SectionsArray, Own, Idle
  <2> QED BY <2>1, <2>2
<1> HIDE DEF array
<1>5. /\ q \in ObjectType /\ q.slots = array
      /\ q.map = obj.map /\ q.count = obj.count /\ q.loaded = obj.loaded
  BY <1>1, <1>2 DEF Held, array, ObjectType
<1> HIDE DEF q
<1>6. Fits(q)
  <2>1. array = <<>> => obj.count = 0
    BY <1>1, <1>2
  <2> QED BY <1>1, <1>2, <1>5, <2>1 DEF Fits
<1>7. Own(q, hs, mem)
  <2>1. Idle(q)
    BY <1>4, <1>5 DEF Idle
  <2>2. /\ q.loaded = obj.loaded /\ q.map = obj.map
        /\ \A j \in 1 .. obj.loaded : q.slots[j] = obj.slots[j]
    BY <1>2, <1>5
  <2>3. Borrowing(q, hs)
    BY ONLY <1>1, <2>2 DEF Own, Borrowing
  <2>4. Alive(q, hs, mem)
    BY ONLY <1>1, <2>2 DEF Own, Alive
  <2>5. Apart(q, hs)
    BY ONLY <1>1, <2>2 DEF Own, Apart
  <2> QED BY <2>1, <2>3, <2>4, <2>5 DEF Own
<1>8. Full(obj, hs, mem) => Full(q, hs, mem)
  BY <1>2, <1>5 DEF Full
<1> QED BY <1>3, <1>5, <1>6, <1>7, <1>8 DEF array, q

(* A load gives one region to the client, and one or a loan to the object. *)
LEMMA LoadFetchedOwn ==
  ASSUME Sound, OwnInv, phase = "ready", NEW i \in Nat, i < obj.count,
         ~Resident(obj, i), NEW h \in Handle, hs[h].data = 0, NEW flags,
         LoadFetched(i, h, flags), TypeOK', Shape'
  PROVE  Keeps
<1> DEFINE array == SectionsArray
           q     == obj'
<1>1. /\ obj \in ObjectType /\ hs \in Hands /\ mem \in Memory
      /\ obj.count \in Nat /\ obj.loaded \in Nat /\ obj.count <= Len(obj.headers)
  BY DEF OwnInv, TypeOK, Hands, Memory, Shape, ObjectType, ObjectAssumption
<1>2. /\ Held \in ObjectType /\ Fits(Held) /\ Own(Held, hs, mem)
      /\ Full(obj, hs, mem) => Full(Held, hs, mem)
      /\ Held.map = obj.map /\ Held.count = obj.count /\ Held.loaded = obj.loaded
      /\ Held.slots = array
  BY HeldFacts
<1>3. array \in Seq(SlotType) /\ i < Len(array) /\ Len(array) \in Nat /\ array # <<>>
      /\ obj.count <= Len(array)
  <2>1. array \in Seq(SlotType) /\ obj.count <= Len(array)
    BY SectionsArrayFacts, ObjectAssumption DEF OwnInv
  <2> HIDE DEF array
  <2> QED BY <1>1, <2>1
<1>4. array[i + 1].data = 0
  <2>1. i + 1 \in 1 .. obj.count /\ (i + 1) - 1 = i
    BY <1>1
  <2>2. \A j \in 1 .. obj.count : Resident(obj, j - 1) \/ array[j].data = 0
    BY HeldFacts
  <2> HIDE DEF array
  <2> QED BY <2>1, <2>2
<1>5. PICK o \in Fetched(obj.headers[i + 1], flags) :
        /\ Handed(h, o)
        /\ IF o.err # "GOOD" THEN q = Held /\ mem' = o.mem
           ELSE \E k \in Kept(array, i, o) :
                  /\ q = [Held EXCEPT !.slots = k.slots,
                                      !.loaded = IF i >= @ THEN i + 1 ELSE @]
                  /\ mem' = k.mem
  <2>1. ~(i >= Len(array))
    BY <1>1, <1>3
  <2> QED BY <2>1 DEF LoadFetched, Held
<1>6. "MMAP" \notin flags /\ ("VIEW" \in flags => obj.map # 0)
  BY DEF LoadFetched, Careful, Called, Sound
<1> HIDE DEF array, q
<1>7. obj.headers[i + 1] \in HeaderType
  BY <1>1 DEF ObjectType
<1>8. /\ o.mem \in Memory /\ o.s \in SlotType
      /\ o.err # "GOOD" => o.mem = mem
      /\ o.err = "GOOD" => Given(o.s, obj.map, mem, o.mem)
  BY <1>5, <1>6, <1>7, FetchedGiven
<1>9. CASE o.err # "GOOD"
  <2>1. hs' = hs /\ q = Held /\ mem' = mem
    BY <1>5, <1>8, <1>9 DEF Handed
  <2> QED BY <1>2, <2>1 DEF Keeps, Tight, q
<1>10. CASE o.err = "GOOD"
  <2> DEFINE after == HandWith(hs, h, o.s)
  <2>1. hs' = after
    BY <1>5, <1>10 DEF Handed, HandWith
  <2>2. after \in Hands
    BY <1>1, <1>8, HandWithFacts
  <2>3. Own(Held, after, o.mem) /\ (Full(Held, hs, mem) => Full(Held, after, o.mem))
    <3>1. Given(o.s, Held.map, mem, o.mem)
      BY <1>2, <1>8, <1>10
    <3> QED BY <1>1, <1>2, <1>8, <3>1, HandGiven
  <2>4. PICK k \in Kept(array, i, o) :
               /\ q = [Held EXCEPT !.slots = k.slots,
                                   !.loaded = IF i >= @ THEN i + 1 ELSE @]
               /\ mem' = k.mem
    BY <1>5, <1>10
  <2>5. \/ k.slots[i + 1].data = 0 /\ k.mem = o.mem
        \/ Given(k.slots[i + 1], obj.map, o.mem, k.mem)
    BY <1>3, <1>4, <1>8, <1>10, <2>4, KeptGiven
  <2>6. /\ k.slots \in Seq(SlotType) /\ Len(k.slots) = Len(array) /\ k.mem \in Memory
        /\ \A j \in 1 .. Len(array) : j # i + 1 => k.slots[j] = array[j]
    <3>1. IsResult(o)
      BY <1>5, <1>7, FetchedIsResult, ObjectAssumption DEF OwnInv
    <3> QED BY <1>3, <1>10, <2>4, <3>1, KeptFacts, ObjectAssumption
  <2>7. /\ q.slots = k.slots /\ q.map = obj.map /\ q.count = obj.count
        /\ q.loaded = IF i >= obj.loaded THEN i + 1 ELSE obj.loaded
    BY <1>2, <2>4 DEF ObjectType
  <2>8. q \in ObjectType /\ Fits(q)
    BY DEF q, TypeOK, Shape
  <2>9. \A j \in 1 .. Held.count : j # i + 1 => q.slots[j] = Held.slots[j]
    BY <1>1, <1>2, <1>3, <2>6, <2>7
  <2> HIDE DEF after
  <2> DEFINE n == k.mem
             m == o.mem
  <2>10. /\ m \in Memory /\ n \in Memory /\ q.map = Held.map /\ q.count = Held.count
         /\ Held.slots # <<>> /\ Held.slots[i + 1].data = 0 /\ i < Held.count
         /\ q.loaded = IF i >= Held.loaded THEN i + 1 ELSE Held.loaded
         /\ \/ q.slots[i + 1].data = 0 /\ n = m
            \/ Given(q.slots[i + 1], Held.map, m, n)
         /\ Own(Held, after, m)
    BY <1>2, <1>3, <1>4, <1>8, <2>3, <2>5, <2>6, <2>7
  <2> HIDE DEF n, m
  <2>11. Own(q, after, n) /\ (Full(Held, after, m) => Full(q, after, n))
    BY <1>2, <2>2, <2>8, <2>9, <2>10, ObjectGiven
  <2> QED BY <1>2, <2>1, <2>3, <2>4, <2>7, <2>11 DEF Keeps, Tight, q, n, m
<1> QED BY <1>9, <1>10

(* The client gets a copy of a section that is in memory. *)
LEMMA LoadResidentOwn ==
  ASSUME Sound, OwnInv, phase = "ready", NEW i \in Nat, Resident(obj, i),
         NEW h \in Handle, hs[h].data = 0, NEW flags, LoadResident(i, h, flags)
  PROVE  Keeps
<1> DEFINE view == "VIEW" \in flags
           s    == obj.slots[i + 1]
           p    == Position
<1>1. /\ obj \in ObjectType /\ hs \in Hands /\ mem \in Memory /\ Fits(obj)
      /\ p \in Nat /\ view \in BOOLEAN /\ obj.loaded \in Nat
  BY PositionIsNat DEF OwnInv, TypeOK, Hands, Memory, Shape, ObjectType
<1>2. ~view
  BY DEF LoadResident, Careful, Called, Sound
<1>3. PICK o \in Copied(i, view) : Handed(h, o) /\ mem' = o.mem
  BY DEF LoadResident
<1>4. obj' = obj
  BY DEF LoadResident
<1>5. Bytes(s, mem) \in Seq(Cells)
  <2>1. i + 1 \in 1 .. obj.loaded /\ s.data # 0
    BY <1>1 DEF Resident
  <2>2. s \in SlotType
    BY <1>1, <2>1, LoadedSlots, ObjectAssumption
  <2> HIDE DEF s
  <2> QED BY <1>1, <2>1, <2>2, BytesFacts
<1> HIDE DEF view, p
<1>6. o \in Filled(mem, Bytes(s, mem), view, p, p)
  BY <1>3 DEF Copied, p
<1> HIDE DEF s
<1>7. /\ o.mem \in Memory /\ o.s \in SlotType
      /\ o.err # "GOOD" => o.mem = mem
      /\ o.err = "GOOD" => /\ o.s.data # 0 /\ ~o.s.mapped /\ o.s.view = view
                           /\ Takes(mem, o.s.data, o.mem)
  BY <1>1, <1>5, <1>6, FilledFacts, ObjectAssumption
<1>8. CASE o.err # "GOOD"
  <2>1. hs' = hs /\ mem' = mem
    BY <1>3, <1>7, <1>8 DEF Handed
  <2> QED BY <1>4, <2>1, UnchangedOwn
<1>9. CASE o.err = "GOOD"
  <2>1. hs' = HandWith(hs, h, o.s)
    BY <1>3, <1>9 DEF Handed, HandWith
  <2>2. Given(o.s, obj.map, mem, o.mem)
    BY <1>2, <1>7, <1>9 DEF Given
  <2> QED BY <1>3, <1>4, <1>7, <2>1, <2>2, HandOwn
<1> QED BY <1>8, <1>9

LEMMA LoadSectionOwn ==
  ASSUME Sound, OwnInv, NEW i \in Nat, NEW h \in Handle, NEW flags,
         LoadSection(i, h, flags), TypeOK', Shape'
  PROVE  Keeps
<1>1. phase = "ready" /\ hs[h].data = 0 /\ obj.count \in Nat
  BY DEF LoadSection, OwnInv, TypeOK, ObjectType
<1>2. CASE UNCHANGED <<obj, mem, hs>>
  BY <1>2, UnchangedOwn
<1>3. CASE i < obj.count /\ Resident(obj, i) /\ LoadResident(i, h, flags)
  BY <1>1, <1>3, LoadResidentOwn
<1>4. CASE i < obj.count /\ ~Resident(obj, i) /\ LoadFetched(i, h, flags)
  BY <1>1, <1>4, LoadFetchedOwn
<1>5. CASE i >= obj.count
  BY <1>2, <1>5 DEF LoadSection
<1>6. CASE i < obj.count
  <2>1. ~(i >= obj.count)
    BY <1>1, <1>6
  <2> QED BY <1>2, <1>3, <1>4, <1>6, <2>1 DEF LoadSection
<1> QED BY <1>1, <1>5, <1>6

(* A conversion leaves the object the owner of the new buffers alone. *)
LEMMA UnmapOwn ==
  ASSUME Sound, OwnInv, phase = "ready", UnmapReady, NEW u \in UnmapOutcomes,
         Called("unmap") \/ Called("save_file")
  PROVE  /\ Own(u.obj, hs, u.mem)
         /\ Frugal /\ Tight => /\ Full(u.obj, hs, u.mem)
                               /\ "mmap" \notin Calls => u.obj.map = 0
<1> DEFINE q == u.obj
           n == u.mem
<1>1. /\ obj \in ObjectType /\ hs \in Hands /\ mem \in Memory /\ Fits(obj)
      /\ Own(obj, hs, mem) /\ obj.loaded \in Nat /\ obj.count \in Nat
  BY DEF OwnInv, TypeOK, Hands, Memory, Shape, ObjectType
<1>2. /\ q \in ObjectType /\ q.count = obj.count /\ q.loaded = obj.loaded
      /\ \/ q = obj /\ n = mem
         \/ obj.map # 0 /\ Detached(u)
  BY UnmapFacts, ObjectAssumption DEF OwnInv
<1>3. CASE q = obj /\ n = mem
  BY <1>1, <1>3 DEF Tight
<1>4. CASE obj.map # 0 /\ Detached(u)
  <2>1. ~ViewsOut /\ obj.loaded \in {0, obj.count}
    BY <1>4 DEF UnmapReady, Careful, Called, Sound
  <2>2. ~(Frugal /\ Tight)
    BY <1>4 DEF Frugal, Tight, Called
  <2>3. /\ q.map = 0 /\ Len(q.slots) = obj.loaded
        /\ \A j \in 1 .. obj.loaded :
             \/ q.slots[j] = NoSlot
             \/ /\ q.slots[j].data \in FreeRegions(mem)
                /\ ~q.slots[j].view /\ ~q.slots[j].mapped
        /\ \A j, k \in 1 .. obj.loaded :
             q.slots[j].data = q.slots[k].data /\ q.slots[j].data # 0 => j = k
        /\ \A r \in Region :
             n[r].live = /\ r # obj.map
                         /\ mem[r].live \/ \E j \in 1 .. obj.loaded : q.slots[j].data = r
    BY <1>4 DEF Detached
  <2>4. NoSlot.data = 0
    BY DEF NoSlot, Slot
  <2> HIDE DEF q, n
  <2>5. \A h \in Handle : hs[h].data # 0 => ~hs[h].view /\ ~hs[h].mapped
    BY <1>1, <2>1 DEF ViewsOut, Own, Borrowing, Clean
  <2>6. \A j \in 1 .. obj.loaded : q.slots[j].data # 0 =>
          /\ q.slots[j].data \in Region /\ ~mem[q.slots[j].data].live
          /\ ~q.slots[j].view /\ ~q.slots[j].mapped
    BY <2>3, <2>4 DEF FreeRegions
  <2>7. \A h \in Handle : Owner(hs[h]) =>
          hs[h].data \in Region /\ mem[hs[h].data].live /\ hs[h].data # obj.map
    BY <1>1, OwnersAreRegions DEF Own, Alive
  <2>8. Idle(q)
    <3>1. CASE obj.loaded = 0
      <4>1. q.slots = <<>>
        BY <1>2, <2>3, <3>1 DEF ObjectType
      <4> QED BY <4>1 DEF Idle
    <3>2. CASE obj.loaded = obj.count
      BY <1>1, <1>2, <3>2 DEF Idle
    <3> QED BY <2>1, <3>1, <3>2
  <2>9. Borrowing(q, hs)
    BY <1>2, <2>3, <2>5, <2>6 DEF Borrowing, Clean
  <2>10. Alive(q, hs, n)
    <3>1. ASSUME NEW j \in 1 .. q.loaded, Owner(q.slots[j])
          PROVE  n[q.slots[j].data].live /\ q.slots[j].data # q.map
      <4>1. j \in 1 .. obj.loaded /\ q.slots[j].data # 0
        BY <1>2, <3>1 DEF Owner
      <4>2. q.slots[j].data \in Region /\ ~mem[q.slots[j].data].live
        BY <2>6, <4>1
      <4>3. q.slots[j].data # obj.map
        BY <1>1, <1>4, <4>2 DEF Own, Alive
      <4> QED BY <2>3, <4>1, <4>2, <4>3
    <3>2. ASSUME NEW h \in Handle, Owner(hs[h])
          PROVE  n[hs[h].data].live /\ hs[h].data # q.map
      BY <2>3, <2>7, <3>2 DEF Owner
    <3> QED BY <2>3, <3>1, <3>2 DEF Alive
  <2>11. Apart(q, hs)
    <3>1. \A j \in 1 .. q.loaded, h \in Handle :
            Owner(q.slots[j]) /\ Owner(hs[h]) => q.slots[j].data # hs[h].data
      BY <1>2, <2>6, <2>7 DEF Owner
    <3>2. \A j, k \in 1 .. q.loaded :
            Owner(q.slots[j]) /\ Owner(q.slots[k]) /\ q.slots[j].data = q.slots[k].data => j = k
      BY <1>2, <2>3 DEF Owner
    <3> QED BY <1>1, <3>1, <3>2 DEF Own, Apart
  <2> QED BY <2>2, <2>8, <2>9, <2>10, <2>11 DEF Own, q, n
<1> QED BY <1>2, <1>3, <1>4

(* A conversion by itself, and as the first part of a save. *)
LEMMA UnmapStepOwn ==
  ASSUME Sound, OwnInv, Unmap
  PROVE  Keeps
<1>1. PICK u \in UnmapOutcomes : obj' = u.obj /\ mem' = u.mem
  BY DEF Unmap
<1>2. /\ Called("unmap") /\ phase = "ready" /\ UnmapReady /\ hs' = hs
  BY DEF Unmap
<1> QED BY <1>1, <1>2, UnmapOwn DEF Keeps

LEMMA SaveFileOwn ==
  ASSUME Sound, OwnInv, NEW f \in Fd, SaveFile(f)
  PROVE  Keeps
<1>0. Called("save_file") /\ phase = "ready" /\ UnmapReady /\ hs' = hs
  BY DEF SaveFile
<1>1. PICK u \in UnmapOutcomes :
        IF u.err # "GOOD" THEN UNCHANGED <<obj, mem>>
        ELSE obj' = [u.obj EXCEPT !.headers = LaidOut(u.obj)] /\ mem' = u.mem
  BY DEF SaveFile
<1>2. CASE u.err # "GOOD"
  BY <1>0, <1>1, <1>2, UnchangedOwn
<1>3. CASE u.err = "GOOD"
  <2> DEFINE o == u.obj
             q == obj'
  <2>1. /\ Own(o, hs, u.mem)
        /\ Frugal /\ Tight => Full(o, hs, u.mem) /\ ("mmap" \notin Calls => o.map = 0)
    BY <1>0, UnmapOwn
  <2>2. o \in ObjectType
    BY UnmapFacts, ObjectAssumption DEF OwnInv
  <2>3. q.slots = o.slots /\ q.loaded = o.loaded /\ q.map = o.map /\ q.count = o.count
    BY <1>1, <1>3, <2>2 DEF ObjectType
  <2> HIDE DEF o, q
  <2>4. Own(q, hs, u.mem) /\ (Full(o, hs, u.mem) => Full(q, hs, u.mem))
    BY <2>1, <2>3, SameSections
  <2> QED BY <1>0, <1>1, <1>3, <2>1, <2>3, <2>4 DEF Keeps, q
<1> QED BY <1>2, <1>3

(* Nobody owns anything at first, and every step keeps the owners apart. *)
LEMMA InitOwn ==
  ASSUME Init
  PROVE  OwnInv /\ Tight
<1>1. TypeOK /\ Shape
  BY InitType, ObjectAssumption
<1>2. /\ obj.loaded = 0 /\ obj.slots = <<>> /\ obj.map = 0 /\ 1 .. obj.loaded = {}
      /\ \A h \in Handle : hs[h].data = 0
      /\ \A r \in Region : ~mem[r].live
  BY DEF Init, EmptyObject, NoSlot, Slot, Gone
<1>3. Idle(obj) /\ Borrowing(obj, hs) /\ Alive(obj, hs, mem) /\ Apart(obj, hs)
  BY <1>2 DEF Idle, Borrowing, Clean, Alive, Apart, Owner
<1>4. Full(obj, hs, mem)
  BY <1>2 DEF Full
<1> QED BY <1>1, <1>2, <1>3, <1>4 DEF OwnInv, Own, Tight

LEMMA NextOwn ==
  ASSUME Sound, OwnInv, [Next]_vars
  PROVE  OwnInv' /\ (Frugal /\ Tight => Tight')
<1>0. 0 .. MaxSections \subseteq Nat
  BY ObjectAssumption DEF ObjectAssumption
<1>1. TypeOK' /\ Shape'
  BY NextType, SoundIsTidy, ObjectAssumption DEF OwnInv
<1> SUFFICES Keeps
  BY <1>1 DEF OwnInv, Keeps, Tight
<1>2. CASE UNCHANGED vars
  BY <1>2, UnchangedOwn DEF vars
<1>3. CASE Managing
  <2>1. CASE ObjInit \/ ObjCleanup \/ Unmap
    BY <2>1, ObjInitOwn, ObjCleanupOwn, UnmapStepOwn
  <2>2. CASE \E t \in Targets : SetTargetDefaults(t)
    BY <2>2, SetTargetDefaultsOwn
  <2>3. CASE \E n \in Names : FindSection(n)
    BY <2>3, UnchangedOwn DEF FindSection
  <2>4. CASE \E n \in Names : \E h \in Handle \cup {NoHandle} : CreateSection(n, h)
    BY <1>1, <2>4, CreateSectionOwn
  <2>5. CASE \E i \in 0 .. MaxSections : DeleteSection(i)
    BY <1>0, <2>5, DeleteSectionOwn
  <2> QED BY <1>3, <2>1, <2>2, <2>3, <2>4, <2>5 DEF Managing
<1>4. CASE Exchanging
  <2>1. PICK h \in Handle :
          \/ \E cells \in Contents : FillHandle(h, cells)
          \/ DropHandle(h)
          \/ \E i \in 0 .. MaxSections : UpdateSection(i, h)
          \/ \E i \in 0 .. MaxSections, flags \in SUBSET {"VIEW", "MMAP"} :
               LoadSection(i, h, flags)
    BY <1>4 DEF Exchanging
  <2>2. CASE \E cells \in Contents : FillHandle(h, cells)
    BY <2>2, FillHandleOwn
  <2>3. CASE DropHandle(h)
    BY <2>3, DropHandleOwn
  <2>4. CASE \E i \in 0 .. MaxSections : UpdateSection(i, h)
    BY <1>0, <2>4, UpdateSectionOwn
  <2>5. CASE \E i \in 0 .. MaxSections, flags \in SUBSET {"VIEW", "MMAP"} :
               LoadSection(i, h, flags)
    BY <1>0, <1>1, <2>5, LoadSectionOwn
  <2> QED BY <2>1, <2>2, <2>3, <2>4, <2>5
<1>5. CASE Filing
  <2>1. PICK f \in Fd : \/ LoadFile(f) \/ Mmap(f) \/ SaveFile(f)
                        \/ OpenFd(f) \/ Rewind(f) \/ Truncate(f) \/ CloseFd(f)
    BY <1>5 DEF Filing
  <2>2. CASE LoadFile(f) \/ Mmap(f) \/ SaveFile(f)
    BY <2>2, LoadFileOwn, MmapOwn, SaveFileOwn
  <2>3. CASE OpenFd(f) \/ Rewind(f) \/ Truncate(f) \/ CloseFd(f)
    BY <2>3, UnchangedOwn DEF OpenFd, Rewind, Truncate, CloseFd
  <2> QED BY <2>1, <2>2, <2>3
<1> QED BY <1>2, <1>3, <1>4, <1>5 DEF Next

(* The inductive invariant of ownership. *)
THEOREM Ownership == Sound => (Spec => []OwnInv)
<1>1. Sound \in BOOLEAN
  BY DEF Sound
<1>2. CASE Sound
  <2>1. Init => OwnInv
    BY InitOwn
  <2>2. OwnInv /\ [Next]_vars => OwnInv'
    BY <1>2, NextOwn
  <2> QED BY <2>1, <2>2, PTL DEF Spec
<1> QED BY <1>1, <1>2

(* With it, a client that keeps within the counts lets no region go. *)
THEOREM Frugality == Sound /\ Frugal => (Spec => [](OwnInv /\ Tight))
<1>1. (Sound /\ Frugal) \in BOOLEAN
  BY DEF Sound, Frugal
<1>2. CASE Sound /\ Frugal
  <2>1. Init => OwnInv /\ Tight
    BY InitOwn
  <2>2. (OwnInv /\ Tight) /\ [Next]_vars => (OwnInv /\ Tight)'
    BY <1>2, NextOwn
  <2> QED BY <2>1, <2>2, PTL DEF Spec
<1> QED BY <1>1, <1>2

(* The owners the properties speak of, by what they own. *)
LEMMA OwnersAre ==
  ASSUME OwnInv
  PROVE  /\ \A w \in Owners :
              \/ \E j \in 1 .. obj.loaded : /\ w = <<"object", j>> /\ Owner(obj.slots[j])
                                            /\ OwnedBy(w) = obj.slots[j].data
              \/ w = <<"mapping", 1>> /\ obj.map # 0 /\ OwnedBy(w) = obj.map
              \/ \E h \in Handle : /\ w = <<"client", h>> /\ Owner(hs[h])
                                   /\ OwnedBy(w) = hs[h].data
         /\ \A j \in 1 .. obj.loaded : Owner(obj.slots[j]) =>
              <<"object", j>> \in Owners /\ OwnedBy(<<"object", j>>) = obj.slots[j].data
         /\ obj.map # 0 => <<"mapping", 1>> \in Owners /\ OwnedBy(<<"mapping", 1>>) = obj.map
         /\ \A h \in Handle : Owner(hs[h]) =>
              <<"client", h>> \in Owners /\ OwnedBy(<<"client", h>>) = hs[h].data
<1>1. \A j \in 1 .. obj.loaded :
        Owned(obj.slots[j]) = IF Owner(obj.slots[j]) THEN {obj.slots[j].data} ELSE {}
  BY OwnedIs DEF OwnInv, Own, Borrowing
<1>2. \A h \in Handle : Owned(hs[h]) = IF Owner(hs[h]) THEN {hs[h].data} ELSE {}
  BY OwnedIs DEF OwnInv, Own, Borrowing
<1>3. /\ \A j : OwnedBy(<<"object", j>>) = obj.slots[j].data
      /\ \A k : OwnedBy(<<"mapping", k>>) = obj.map
      /\ \A h : OwnedBy(<<"client", h>>) = hs[h].data
  BY DEF OwnedBy
<1>4. Owners = {<<"object", j>> : j \in {k \in 1 .. obj.loaded : Owner(obj.slots[k])}}
               \cup {<<"mapping", 1>> : k \in {obj.map} \ {0}}
               \cup {<<"client", h>> : h \in {k \in Handle : Owner(hs[k])}}
  <2>1. {k \in 1 .. obj.loaded : Owned(obj.slots[k]) # {}}
          = {k \in 1 .. obj.loaded : Owner(obj.slots[k])}
    BY <1>1
  <2>2. {k \in Handle : Owned(hs[k]) # {}} = {k \in Handle : Owner(hs[k])}
    BY <1>2
  <2> QED BY <2>1, <2>2 DEF Owners
<1> QED BY <1>3, <1>4

(* No region has two owners and no freed one has any, whatever was copied, *)
(* handed over, shifted, converted and cleaned up: nothing is freed twice. *)
THEOREM NothingIsShared == Sound => (Spec => []NothingShared)
<1>1. OwnInv => NothingShared
  <2> SUFFICES ASSUME OwnInv PROVE NothingShared
    OBVIOUS
  <2>1. \A w \in Owners :
          \/ \E j \in 1 .. obj.loaded : /\ w = <<"object", j>> /\ Owner(obj.slots[j])
                                        /\ OwnedBy(w) = obj.slots[j].data
          \/ w = <<"mapping", 1>> /\ obj.map # 0 /\ OwnedBy(w) = obj.map
          \/ \E h \in Handle : /\ w = <<"client", h>> /\ Owner(hs[h])
                               /\ OwnedBy(w) = hs[h].data
    BY OwnersAre
  <2>2. Alive(obj, hs, mem) /\ Apart(obj, hs)
    BY DEF OwnInv, Own
  <2>3. ASSUME NEW w \in Owners PROVE mem[OwnedBy(w)].live
    BY <2>1, <2>2 DEF Alive
  <2>4. ASSUME NEW w \in Owners, NEW x \in Owners, OwnedBy(w) = OwnedBy(x) PROVE w = x
    <3>1. CASE \E j \in 1 .. obj.loaded : /\ w = <<"object", j>> /\ Owner(obj.slots[j])
                                          /\ OwnedBy(w) = obj.slots[j].data
      <4>1. PICK j \in 1 .. obj.loaded : /\ w = <<"object", j>> /\ Owner(obj.slots[j])
                                         /\ OwnedBy(w) = obj.slots[j].data
        BY <3>1
      <4>2. OwnedBy(w) # obj.map /\ \A h \in Handle : Owner(hs[h]) => OwnedBy(w) # hs[h].data
        BY <2>2, <4>1 DEF Alive, Apart
      <4>3. PICK k \in 1 .. obj.loaded : /\ x = <<"object", k>> /\ Owner(obj.slots[k])
                                         /\ OwnedBy(x) = obj.slots[k].data
        BY <2>1, <2>4, <4>2
      <4>4. j = k
        BY <2>2, <2>4, <4>1, <4>3 DEF Apart
      <4> QED BY <4>1, <4>3, <4>4
    <3>2. CASE w = <<"mapping", 1>> /\ obj.map # 0 /\ OwnedBy(w) = obj.map
      BY <2>1, <2>2, <2>4, <3>2 DEF Alive
    <3>3. CASE \E h \in Handle : /\ w = <<"client", h>> /\ Owner(hs[h])
                                 /\ OwnedBy(w) = hs[h].data
      <4>1. PICK h \in Handle : /\ w = <<"client", h>> /\ Owner(hs[h])
                                /\ OwnedBy(w) = hs[h].data
        BY <3>3
      <4>2. /\ OwnedBy(w) # obj.map
            /\ \A j \in 1 .. obj.loaded : Owner(obj.slots[j]) => OwnedBy(w) # obj.slots[j].data
        BY <2>2, <4>1 DEF Alive, Apart
      <4>3. PICK g \in Handle : /\ x = <<"client", g>> /\ Owner(hs[g])
                                /\ OwnedBy(x) = hs[g].data
        BY <2>1, <2>4, <4>2
      <4>4. g = h
        BY <2>2, <2>4, <4>1, <4>3 DEF Apart
      <4> QED BY <4>1, <4>3, <4>4
    <3> QED BY <2>1, <3>1, <3>2, <3>3
  <2> QED BY <2>3, <2>4 DEF NothingShared
<1> QED BY <1>1, Ownership, PTL

(* Every view the client or the object holds is one of the object's own    *)
(* mapping, which is there as long as the view is.                         *)
THEOREM ViewsAreBacked == Sound => (Spec => []ViewsBacked)
<1>1. OwnInv => ViewsBacked
  BY DEF OwnInv, Own, Borrowing, Clean, ViewsBacked
<1> QED BY <1>1, Ownership, PTL

(* Every region in use has an owner that will free it. *)
THEOREM NothingIsLeaked == Sound /\ Frugal => (Spec => []NothingLeaks)
<1>1. OwnInv /\ Tight => NothingLeaks
  <2> SUFFICES ASSUME OwnInv, Tight, NEW r \in Region, mem[r].live
               PROVE  \E w \in Owners : OwnedBy(w) = r
    BY DEF NothingLeaks
  <2>1. \/ r = obj.map
        \/ \E j \in 1 .. obj.loaded : Owner(obj.slots[j]) /\ obj.slots[j].data = r
        \/ \E h \in Handle : Owner(hs[h]) /\ hs[h].data = r
    BY DEF Tight, Full
  <2>2. r # 0
    BY DEF Region
  <2> QED BY <2>1, <2>2, OwnersAre
<1> QED BY <1>1, Frugality, PTL

-----------------------------------------------------------------------------
(***************************************************************************)
(* Names                                                                   *)
(***************************************************************************)

(* The client that neither loses a section's header nor loads or overwrites *)
(* half a file.                                                            *)
Neat ==
  Calls \cap {"create empty after load", "unmap partly loaded", "overwrite", "no rewind",
              "load torn file"} = {}

(* A client that looks after its files looks after the arrays. *)
LEMMA NeatIsTidy == Neat => Tidy
BY DEF Neat, Tidy

(* HeaderAt, of any cells. *)
HeaderIn(cells, c) ==
  IF CellIn(cells, c) \notin [name : Names, target : Targets \cup {0}, size : Nat, off : Nat]
    THEN SectionHeader(Zero, 0, 0, 0) ELSE CellIn(cells, c)

Unique(headers, count) ==
  \A j, k \in 1 .. count : headers[j].name = headers[k].name => j = k

(* No two section headers that reached a file have one name. *)
NamesIn(cells) ==
  IsHeader(CellIn(cells, 1)) =>
    \A i, j \in 1 .. CellIn(cells, 1).section_count :
      /\ 1 + i <= Len(cells) /\ 1 + j <= Len(cells)
      /\ HeaderIn(cells, 1 + i).name = HeaderIn(cells, 1 + j).name
      => i = j

NamesInv == UniqueNames /\ NamesIn(file)

(* A header that was written reads as one with its name. *)
LEMMA HeaderName ==
  ASSUME NEW cells, NEW c \in 1 .. Len(cells), cells[c] \in HeaderType
  PROVE  HeaderIn(cells, c).name = cells[c].name
<1>1. CellIn(cells, c) = cells[c]
  BY DEF CellIn
<1>2. CASE cells[c].name \in Names
  <2>1. cells[c] \in [name : Names, target : Targets \cup {0}, size : Nat, off : Nat]
    BY <1>2 DEF HeaderType
  <2> QED BY <1>1, <2>1 DEF HeaderIn
<1>3. CASE cells[c].name \notin Names
  <2>1. cells[c].name = Zero
    BY <1>3 DEF HeaderType
  <2>2. cells[c] \notin [name : Names, target : Targets \cup {0}, size : Nat, off : Nat]
    BY <1>3
  <2> QED BY <1>1, <2>1, <2>2 DEF HeaderIn, SectionHeader
<1> QED BY <1>2, <1>3

(* An operation that lets the headers and the file alone. *)
LEMMA SameNames ==
  ASSUME NamesInv, file' = file,
         \/ phase' # "ready"
         \/ phase = "ready" /\ obj'.headers = obj.headers /\ obj'.count = obj.count
  PROVE  NamesInv'
<1>1. NamesIn(file)'
  BY DEF NamesInv, NamesIn, HeaderIn, IsHeader, CellIn
<1>2. UniqueNames'
  BY DEF NamesInv, UniqueNames
<1> QED BY <1>1, <1>2 DEF NamesInv

(* Those that do. *)
LEMMA OthersNames ==
  ASSUME ObjectAssumption, TypeOK, Shape, NamesInv,
         \/ ObjCleanup
         \/ \E t \in Targets : SetTargetDefaults(t)
         \/ \E n \in Names : FindSection(n)
         \/ \E h \in Handle : DropHandle(h) \/ \E cells \in Contents : FillHandle(h, cells)
         \/ \E f \in Fd : OpenFd(f) \/ Rewind(f) \/ CloseFd(f)
  PROVE  NamesInv'
<1>0. obj \in ObjectType
  BY DEF TypeOK
<1>1. CASE ObjCleanup
  BY <1>1, SameNames DEF ObjCleanup
<1>2. CASE \E t \in Targets : SetTargetDefaults(t)
  <2>1. PICK t \in Targets : SetTargetDefaults(t)
    BY <1>2
  <2>2. phase = "ready" /\ phase' = phase /\ file' = file /\ obj' = [obj EXCEPT !.target = t]
    BY <2>1 DEF SetTargetDefaults
  <2>3. obj'.headers = obj.headers /\ obj'.count = obj.count
    BY <1>0, <2>2 DEF ObjectType
  <2> QED BY <2>2, <2>3, SameNames
<1>3. CASE UNCHANGED <<obj, file, phase>>
  <2>1. CASE phase = "ready"
    BY <1>3, <2>1, SameNames
  <2>2. CASE phase # "ready"
    BY <1>3, <2>2, SameNames
  <2> QED BY <2>1, <2>2
<1> QED BY <1>1, <1>2, <1>3 DEF FindSection, DropHandle, FillHandle, OpenFd, Rewind, CloseFd

(* One lemma for each operation: no name gets in twice. *)
LEMMA ObjInitNames ==
  ASSUME NamesInv, ObjInit
  PROVE  NamesInv'
<1>1. obj'.count = 0 /\ file' = file
  BY DEF ObjInit, EmptyObject
<1>2. NamesIn(file)'
  BY <1>1 DEF NamesInv, NamesIn, HeaderIn, IsHeader, CellIn
<1>3. UniqueNames'
  BY <1>1 DEF UniqueNames
<1> QED BY <1>2, <1>3 DEF NamesInv

LEMMA UnmapNames ==
  ASSUME ObjectAssumption, TypeOK, Shape, NamesInv, Unmap
  PROVE  NamesInv'
<1>1. PICK u \in UnmapOutcomes : obj' = u.obj
  BY DEF Unmap
<1>2. obj'.headers = obj.headers /\ obj'.count = obj.count
  BY <1>1, UnmapFacts
<1>3. phase = "ready" /\ phase' = phase /\ file' = file
  BY DEF Unmap
<1> QED BY <1>2, <1>3, SameNames

(* The name of a new section is one that no header has. *)
LEMMA CreateSectionNames ==
  ASSUME ObjectAssumption, TypeOK, Shape, NamesInv, NEW n \in Names,
         NEW h \in Handle \cup {NoHandle}, CreateSection(n, h)
  PROVE  NamesInv'
<1>0. obj \in ObjectType /\ phase = "ready" /\ UNCHANGED <<file, phase>>
  BY DEF CreateSection, TypeOK
<1>1. CASE UNCHANGED obj
  BY <1>0, <1>1, SameNames
<1>2. CASE ~ UNCHANGED obj
  <2> DEFINE k == obj.count
             hdr == SectionHeader(n, obj.target, IF h \in Handle THEN hs[h].size ELSE 0, 0)
             headers == Append(SubSeq(obj.headers, 1, k), hdr)
             count == (k + 1) % CountMod
             named == [obj EXCEPT !.headers = headers, !.count = count]
  <2>1. /\ Named(obj, n) = {}
        /\ \/ obj' = [named EXCEPT !.slots = Grown(obj, hs[h]),
                                   !.loaded = IF k >= @ THEN count ELSE @]
           \/ obj' = named
    BY <1>2 DEF CreateSection
  <2>2. /\ k \in 0 .. CountMod - 1 /\ k \in Nat /\ k <= Len(obj.headers)
        /\ obj.headers \in Seq(HeaderType)
    BY <1>0 DEF ObjectType, Shape, ObjectAssumption
  <2>3. hdr.name = n
    BY DEF SectionHeader
  <2>4. /\ \A j \in 1 .. k : headers[j] = obj.headers[j]
        /\ headers[k + 1] = hdr
    <3> HIDE DEF hdr
    <3> QED BY <2>2
  <2>5. count = 0 \/ count = k + 1
    BY <2>2, Wrapped DEF ObjectAssumption
  <2> HIDE DEF headers, count, hdr
  <2>6. obj'.headers = headers /\ obj'.count = count
    BY <1>0, <2>1 DEF ObjectType
  <2>7. \A j \in 1 .. k : obj.headers[j].name # n
    <3>1. ASSUME NEW j \in 1 .. k PROVE obj.headers[j].name # n
      <4>1. j - 1 \in 0 .. k - 1 /\ (j - 1) + 1 = j
        BY <2>2
      <4> QED BY <2>1, <4>1 DEF Named
    <3> QED BY <3>1
  <2>8. Unique(obj.headers, k)
    BY <1>0 DEF NamesInv, UniqueNames, Unique
  <2>9. Unique(headers, count)
    <3>1. CASE count = 0
      BY <3>1 DEF Unique
    <3>2. CASE count = k + 1
      <4>1. ASSUME NEW i \in 1 .. k + 1, NEW j \in 1 .. k + 1, headers[i].name = headers[j].name
            PROVE  i = j
        <5>1. CASE i \in 1 .. k /\ j \in 1 .. k
          BY <2>4, <2>8, <4>1, <5>1 DEF Unique
        <5>2. CASE i = k + 1 /\ j \in 1 .. k
          BY <2>3, <2>4, <2>7, <4>1, <5>2
        <5>3. CASE i \in 1 .. k /\ j = k + 1
          BY <2>3, <2>4, <2>7, <4>1, <5>3
        <5> QED BY <2>2, <5>1, <5>2, <5>3
      <4> QED BY <3>2, <4>1 DEF Unique
    <3> QED BY <2>5, <3>1, <3>2
  <2>10. UniqueNames'
    BY <2>6, <2>9 DEF UniqueNames, Unique
  <2>11. NamesIn(file)'
    BY <1>0 DEF NamesInv, NamesIn, HeaderIn, IsHeader, CellIn
  <2> QED BY <2>10, <2>11 DEF NamesInv
<1> QED BY <1>1, <1>2

(* A deletion moves headers down without changing their order. *)
LEMMA DeleteSectionNames ==
  ASSUME ObjectAssumption, TypeOK, Shape, NamesInv, NEW i \in Nat, DeleteSection(i)
  PROVE  NamesInv'
<1>0. obj \in ObjectType /\ phase = "ready" /\ UNCHANGED <<file, phase>>
  BY DEF DeleteSection, TypeOK
<1>1. CASE i >= obj.count
  BY <1>0, <1>1, SameNames DEF DeleteSection
<1>2. CASE ~(i >= obj.count)
  <2> DEFINE headers == RemoveAt(obj.headers, i + 1)
             count   == obj.count - 1
  <2>1. obj' = [obj EXCEPT !.headers = headers, !.slots = Shifted(obj, i),
                           !.count = count, !.loaded = Fewer(obj.loaded)]
    BY <1>2 DEF DeleteSection
  <2>2. /\ obj.headers \in Seq(HeaderType) /\ obj.count <= Len(obj.headers)
        /\ obj.count \in Nat /\ Len(obj.headers) \in Nat /\ i + 1 \in 1 .. Len(obj.headers)
    BY <1>0, <1>2 DEF ObjectType, Shape, ObjectAssumption
  <2>3. \A j \in 1 .. Len(obj.headers) - 1 :
          headers[j] = IF j < i + 1 THEN obj.headers[j] ELSE obj.headers[j + 1]
    BY ONLY <2>2, RemoveAtFacts
  <2> HIDE DEF headers, count
  <2>4. obj'.headers = headers /\ obj'.count = count
    BY <1>0, <2>1 DEF ObjectType
  <2> DEFINE was(j) == IF j < i + 1 THEN j ELSE j + 1
  <2>5. ASSUME NEW j \in 1 .. count
        PROVE  was(j) \in 1 .. obj.count /\ headers[j] = obj.headers[was(j)]
    <3>1. j \in 1 .. Len(obj.headers) - 1
      BY <2>2 DEF count
    <3> QED BY <2>2, <2>3, <3>1 DEF count
  <2>6. Unique(obj.headers, obj.count)
    BY <1>0 DEF NamesInv, UniqueNames, Unique
  <2>7. ASSUME NEW j \in 1 .. count, NEW k \in 1 .. count, headers[j].name = headers[k].name
        PROVE  j = k
    <3>1. was(j) = was(k)
      <4> HIDE DEF was
      <4> QED BY <2>5, <2>6, <2>7 DEF Unique
    <3>2. j \in Nat /\ k \in Nat
      OBVIOUS
    <3> QED BY <3>1, <3>2
  <2>8. UniqueNames'
    BY <2>4, <2>7 DEF UniqueNames
  <2>9. NamesIn(file)'
    BY <1>0 DEF NamesInv, NamesIn, HeaderIn, IsHeader, CellIn
  <2> QED BY <2>8, <2>9 DEF NamesInv
<1> QED BY <1>1, <1>2

(* An update changes the size in a header, not the name. *)
LEMMA UpdateSectionNames ==
  ASSUME ObjectAssumption, TypeOK, Shape, NamesInv, NEW i \in Nat, NEW h \in Handle,
         UpdateSection(i, h)
  PROVE  NamesInv'
<1>0. obj \in ObjectType /\ phase = "ready" /\ UNCHANGED <<file, phase>>
  BY DEF UpdateSection, TypeOK
<1>1. CASE i >= obj.count
  BY <1>0, <1>1, SameNames DEF UpdateSection
<1>2. CASE ~(i >= obj.count)
  <2> DEFINE headers == [obj.headers EXCEPT ![i + 1].size = hs[h].size]
             sized   == [obj EXCEPT !.headers = headers]
  <2>1. /\ obj.headers \in Seq(HeaderType) /\ obj.count <= Len(obj.headers)
        /\ obj.count \in Nat /\ i + 1 \in 1 .. Len(obj.headers)
    BY <1>0, <1>2 DEF ObjectType, Shape, ObjectAssumption
  <2>2. \A j \in 1 .. obj.count : headers[j].name = obj.headers[j].name
    <3>1. ASSUME NEW j \in 1 .. Len(obj.headers) PROVE headers[j].name = obj.headers[j].name
      <4>1. obj.headers[j] \in HeaderType
        BY <2>1
      <4> QED BY <2>1, <4>1 DEF HeaderType
    <3> HIDE DEF headers
    <3> QED BY <2>1, <3>1
  <2> HIDE DEF headers
  <2>3. obj' = sized \/ obj' = [sized EXCEPT !.slots[i + 1] = hs[h]]
    <3>1. sized = [obj EXCEPT !.headers[i + 1].size = hs[h].size]
      BY <1>0 DEF ObjectType, headers
    <3> HIDE DEF sized
    <3> QED BY <1>2, <3>1 DEF UpdateSection
  <2>4. obj'.headers = headers /\ obj'.count = obj.count
    BY <1>0, <2>3 DEF ObjectType
  <2>5. UniqueNames'
    BY <1>0, <2>2, <2>4 DEF NamesInv, UniqueNames
  <2>6. NamesIn(file)'
    BY <1>0 DEF NamesInv, NamesIn, HeaderIn, IsHeader, CellIn
  <2> QED BY <2>5, <2>6 DEF NamesInv
<1> QED BY <1>1, <1>2

(* A load of a section does not touch the headers. *)
LEMMA LoadSectionNames ==
  ASSUME ObjectAssumption, TypeOK, Shape, NamesInv, NEW i \in Nat, NEW h \in Handle,
         NEW flags, LoadSection(i, h, flags)
  PROVE  NamesInv'
<1>0. obj \in ObjectType /\ phase = "ready" /\ file' = file
  BY DEF LoadSection, TypeOK
<1>1. CASE UNCHANGED <<obj, phase>>
  BY <1>0, <1>1, SameNames
<1>2. CASE LoadFetched(i, h, flags)
  <2>1. CASE phase' = "undefined"
    BY <1>0, <2>1, SameNames
  <2>2. CASE phase' # "undefined"
    <3> DEFINE held == [obj EXCEPT !.slots = SectionsArray]
    <3>1. /\ phase' = phase
          /\ \/ obj' = held
             \/ \E slots : obj' = [held EXCEPT !.slots = slots,
                                               !.loaded = IF i >= @ THEN i + 1 ELSE @]
      <4> HIDE DEF held
      <4> QED BY <1>2, <2>2 DEF LoadFetched, held
    <3>2. held.headers = obj.headers /\ held.count = obj.count /\ held.loaded = obj.loaded
      BY <1>0 DEF ObjectType
    <3>3. obj'.headers = obj.headers /\ obj'.count = obj.count
      BY <1>0, <3>1, <3>2 DEF ObjectType
    <3> QED BY <1>0, <3>1, <3>3, SameNames
  <2> QED BY <2>1, <2>2
<1>3. CASE LoadResident(i, h, flags)
  BY <1>1, <1>3 DEF LoadResident
<1> QED BY <1>1, <1>2, <1>3 DEF LoadSection

(* What a load makes of a file with all its section headers. *)
LEMMA LoadedNames ==
  ASSUME ObjectAssumption, TypeOK, NamesIn(file), IsHeader(CellIn(file, 1)),
         CellIn(file, 1).section_count < Len(file),
         file' = file,
         obj'.count = CellIn(file, 1).section_count,
         obj'.headers = Headers(1, CellIn(file, 1).section_count)
  PROVE  NamesInv'
<1> DEFINE k == CellIn(file, 1).section_count
<1>1. k \in Count /\ k \in Nat /\ Len(file) \in Nat
  BY CountIsShort DEF TypeOK, Count
<1> HIDE DEF k
<1>2. ASSUME NEW j \in 1 .. k PROVE Headers(1, k)[j].name = HeaderIn(file, 1 + j).name
  BY DEF Headers, HeaderAt, HeaderIn
<1>3. ASSUME NEW i \in 1 .. k, NEW j \in 1 .. k, Headers(1, k)[i].name = Headers(1, k)[j].name
      PROVE  i = j
  <2>1. 1 + i <= Len(file) /\ 1 + j <= Len(file)
    BY <1>1 DEF k
  <2>2. HeaderIn(file, 1 + i).name = HeaderIn(file, 1 + j).name
    BY <1>2, <1>3
  <2> QED BY <2>1, <2>2 DEF NamesIn, k
<1>4. UniqueNames'
  BY <1>3 DEF UniqueNames, k
<1>5. NamesIn(file)'
  BY DEF NamesIn, HeaderIn, IsHeader, CellIn
<1> QED BY <1>4, <1>5 DEF NamesInv

LEMMA LoadFailsNames ==
  ASSUME NamesInv, NEW op, NEW err, NEW f, NEW k, NEW p, LoadFails(op, err, f, k, p)
  PROVE  NamesInv'
BY SameNames DEF LoadFails

(* A load through the descriptor counts the headers it gets. *)
LEMMA LoadFileNames ==
  ASSUME ObjectAssumption, Neat, TypeOK, Shape, NamesInv, NEW f \in Fd, LoadFile(f)
  PROVE  NamesInv'
<1> DEFINE p    == fds[f].pos
           cell == CellIn(file, p + 1)
           k    == IF IsHeader(cell) THEN cell.section_count ELSE 0
<1>1. p = 0
  BY DEF LoadFile, Careful, Called, Neat
<1> HIDE DEF p, cell, k
<1>2. \/ LoadFails("load_file", "IO", f, 0, p)
      \/ LoadFails("load_file", "FORMAT", f, 0, p + 1)
      \/ LoadFails("load_file", "NOMEM", f, k, p + 1)
      \/ \E n : LoadFails("load_file", "IO", f, k, p + 1 + n)
      \/ /\ IsHeader(cell) /\ p + k < Len(file)
         /\ obj' = [EmptyObject EXCEPT !.fd = f, !.count = k, !.headers = Headers(p + 1, k)]
         /\ file' = file
  BY DEF LoadFile, p, cell, k
<1>3. CASE \/ LoadFails("load_file", "IO", f, 0, p)
           \/ LoadFails("load_file", "FORMAT", f, 0, p + 1)
           \/ LoadFails("load_file", "NOMEM", f, k, p + 1)
           \/ \E n : LoadFails("load_file", "IO", f, k, p + 1 + n)
  BY <1>3, LoadFailsNames
<1>4. CASE /\ IsHeader(cell) /\ p + k < Len(file)
           /\ obj' = [EmptyObject EXCEPT !.fd = f, !.count = k, !.headers = Headers(p + 1, k)]
           /\ file' = file
  <2>1. p + 1 = 1
    BY <1>1
  <2>2. cell = CellIn(file, 1) /\ k = cell.section_count
    BY <1>4, <2>1 DEF cell, k
  <2>3. k \in Nat
    BY <1>4, <2>2, CountIsShort DEF Count
  <2>4. k < Len(file)
    BY <1>1, <1>4, <2>3
  <2>5. obj'.count = k /\ obj'.headers = Headers(1, k)
    BY <1>4, <2>1 DEF EmptyObject
  <2> QED BY <1>4, <2>2, <2>4, <2>5, LoadedNames DEF NamesInv
<1> QED BY <1>2, <1>3, <1>4

(* That a mapped file has all its section headers is up to the client. *)
LEMMA MmapNames ==
  ASSUME ObjectAssumption, Neat, TypeOK, Shape, NamesInv, NEW f \in Fd, Mmap(f)
  PROVE  NamesInv'
<1>0. file \in Seq(Cells)
  BY DEF TypeOK
<1> DEFINE k == file[1].section_count
<1>1. \/ \E op, err, j, p : LoadFails(op, err, f, j, p)
      \/ /\ file # <<>> /\ IsHeader(file[1])
         /\ \E a : obj' = [EmptyObject EXCEPT !.fd = f, !.map = a, !.count = k,
                                              !.headers = Headers(1, k)]
         /\ file' = file
  BY DEF Mmap
<1>2. CASE \E op, err, j, p : LoadFails(op, err, f, j, p)
  BY <1>2, LoadFailsNames
<1>3. CASE /\ file # <<>> /\ IsHeader(file[1])
           /\ \E a : obj' = [EmptyObject EXCEPT !.fd = f, !.map = a, !.count = k,
                                                !.headers = Headers(1, k)]
           /\ file' = file
  <2>1. CellIn(file, 1) = file[1]
    BY <1>0, <1>3 DEF CellIn
  <2>2. WellFormed
    BY <1>3, <2>1 DEF Mmap, LoadReady, Careful, Called, Neat
  <2>3. k \in Count /\ k \in Nat /\ Len(file) \in Nat
    BY <1>0, <1>3, CountIsShort DEF Count
  <2>4. k < Len(file)
    BY <2>2, <2>3 DEF WellFormed
  <2>5. obj'.count = k /\ obj'.headers = Headers(1, k)
    BY <1>3 DEF EmptyObject
  <2> QED BY <1>3, <2>1, <2>4, <2>5, LoadedNames DEF NamesInv
<1> QED BY <1>1, <1>2, <1>3

(* A file too short for a section header has no names. *)
LEMMA ShortNames ==
  ASSUME NEW cells, Len(cells) <= 1, Len(cells) \in Nat,
         ObjectAssumption
  PROVE  NamesIn(cells)
<1>1. ASSUME IsHeader(CellIn(cells, 1)), NEW i \in 1 .. CellIn(cells, 1).section_count
      PROVE  ~(1 + i <= Len(cells))
  BY <1>1, CountIsShort DEF Count
<1> QED BY <1>1 DEF NamesIn

LEMMA TruncateNames ==
  ASSUME ObjectAssumption, NamesInv, NEW f \in Fd, Truncate(f)
  PROVE  NamesInv'
<1>1. file' = <<>> /\ obj' = obj /\ phase' = phase
  BY DEF Truncate
<1>2. NamesIn(<<>>)
  BY ShortNames
<1>3. UniqueNames'
  BY <1>1 DEF NamesInv, UniqueNames
<1> QED BY <1>1, <1>2, <1>3 DEF NamesInv

-----------------------------------------------------------------------------
(* What a save writes: the object header, the section headers in their     *)
(* order, and only then, behind them, the data.                            *)
HeadersFirst(writes, headers, count) ==
  /\ Len(writes) >= 1 + count
  /\ writes[1] = [at |-> 1, cell |-> ObjectHeader(count)]
  /\ \A k \in 1 .. count : writes[1 + k] = [at |-> 1 + k, cell |-> headers[k]]
  /\ \A k \in 1 .. Len(writes) : k > 1 + count => writes[k].at > 1 + count

(* Data that are written behind a position. *)
LEMMA PutBehind ==
  ASSUME NEW b \in Nat, NEW at \in Nat, at >= b, NEW cells \in Seq(Cells)
  PROVE  [k \in 1 .. Len(cells) |-> [at |-> at + k, cell |-> cells[k]]]
           \in Seq({w \in WriteType : w.at > b})
<1>1. Len(cells) \in Nat
  OBVIOUS
<1>2. ASSUME NEW k \in 1 .. Len(cells)
      PROVE  [at |-> at + k, cell |-> cells[k]] \in {w \in WriteType : w.at > b}
  BY <1>1 DEF WriteType
<1>3. [k \in 1 .. Len(cells) |-> [at |-> at + k, cell |-> cells[k]]]
        \in [1 .. Len(cells) -> {w \in WriteType : w.at > b}]
  BY <1>2
<1> QED BY <1>1, <1>3, FunctionIsSeq

(* The layout leaves room for all the headers, so that data never hit one. *)
LEMMA HeadersAreFirst ==
  ASSUME ObjectAssumption, NEW o \in ObjectType, Fits(o), o.count <= Len(o.headers),
         NEW m \in Memory, \A j \in 1 .. o.count : o.headers[j].off >= 1 + o.count
  PROVE  HeadersFirst(WritesOf(o, m, 0), o.headers, o.count)
<1> DEFINE data(j)        == IF Resident(o, j - 1) THEN Bytes(o.slots[j], m) ELSE <<>>
           put(at, cells) == [k \in 1 .. Len(cells) |-> [at |-> at + k, cell |-> cells[k]]]
           cells == <<ObjectHeader(o.count)>> \o SubSeq(o.headers, 1, o.count)
           head  == put(0, cells)
           body  == [j \in 1 .. o.count |-> put(o.headers[j].off, data(j))]
           Behind == {w \in WriteType : w.at > 1 + o.count}
<1>0. o.count \in Nat /\ o.headers \in Seq(HeaderType)
  BY DEF ObjectType
<1>1. /\ cells \in Seq(Cells) /\ Len(cells) = 1 + o.count
      /\ cells[1] = ObjectHeader(o.count)
      /\ \A k \in 1 .. o.count : cells[1 + k] = o.headers[k]
  <2>1. cells \in Seq(Cells) /\ Len(cells) = 1 + o.count
    BY HeaderCells
  <2> DEFINE b == SubSeq(o.headers, 1, o.count)
  <2>2. b \in Seq(HeaderType) /\ Len(b) = o.count /\ \A k \in 1 .. o.count : b[k] = o.headers[k]
    BY <1>0
  <2> HIDE DEF b
  <2> DEFINE a == ObjectHeader(o.count)
  <2> HIDE DEF a
  <2>3. /\ (<<a>> \o b)[1] = a
        /\ \A k \in 1 .. o.count : (<<a>> \o b)[1 + k] = b[k]
    BY <1>0, <2>2
  <2> QED BY <2>1, <2>2, <2>3 DEF a, b
<1> HIDE DEF cells
<1>2. /\ head \in Seq(WriteType) /\ Len(head) = 1 + o.count
      /\ \A k \in 1 .. 1 + o.count : head[k] = [at |-> 0 + k, cell |-> cells[k]]
  <2>1. head \in Seq(WriteType)
    BY <1>1, PutFacts
  <2> QED BY <1>0, <1>1, <2>1
<1>3. ASSUME NEW j \in 1 .. o.count
      PROVE  data(j) \in Seq(Cells) /\ o.headers[j].off \in Nat /\ o.headers[j].off >= 1 + o.count
  <2>1. o.headers[j].off \in Nat
    <3>1. o.headers[j] \in HeaderType
      BY <1>0
    <3> QED BY <3>1 DEF HeaderType
  <2>2. CASE Resident(o, j - 1)
    <3>1. j \in 1 .. o.loaded /\ o.slots[j].data # 0
      BY <2>2 DEF Resident, ObjectType
    <3>2. o.slots[j] \in SlotType
      BY <3>1, LoadedSlots
    <3>3. Bytes(o.slots[j], m) \in Seq(Cells)
      BY <3>1, <3>2, BytesFacts
    <3> QED BY <2>1, <2>2, <3>3
  <2>3. CASE ~Resident(o, j - 1)
    BY <2>1, <2>3
  <2> QED BY <2>2, <2>3
<1>4. body \in [1 .. o.count -> Seq(Behind)]
  <2>1. ASSUME NEW j \in 1 .. o.count PROVE put(o.headers[j].off, data(j)) \in Seq(Behind)
    <3> DEFINE at == o.headers[j].off
               bytes == data(j)
               b == 1 + o.count
    <3>1. at \in Nat /\ bytes \in Seq(Cells) /\ b \in Nat /\ at >= b
      BY <1>0, <1>3
    <3> HIDE DEF at, bytes, b
    <3>2. put(at, bytes) \in Seq({w \in WriteType : w.at > b})
      BY <3>1, PutBehind
    <3> QED BY <3>2 DEF at, bytes, b
  <2> HIDE DEF put, data, Behind
  <2> QED BY <2>1
<1> DEFINE tail == FlattenSeq(body)
<1>5. tail \in Seq(Behind)
  <2> HIDE DEF body, Behind
  <2> QED BY <1>0, <1>4, FlattenedIsSeq
<1>6. WritesOf(o, m, 0) = head \o tail
  BY DEF WritesOf, cells
<1> HIDE DEF head, body, tail
<1>7. ASSUME NEW k \in 1 .. Len(tail) PROVE tail[k].at > 1 + o.count
  BY <1>5
<1>8. Len(tail) \in Nat /\ tail \in Seq(WriteType)
  <2>1. Len(tail) \in Nat /\ tail \in [1 .. Len(tail) -> WriteType]
    BY <1>5
  <2> QED BY <2>1, FunctionIsSeq
<1> HIDE DEF Behind
<1> DEFINE writes == head \o tail
           n      == 1 + o.count
<1>9. n \in Nat /\ Len(head) = n
  BY <1>0, <1>2
<1>10. /\ Len(writes) = n + Len(tail)
       /\ \A k \in 1 .. n : writes[k] = head[k]
       /\ \A k \in 1 .. Len(writes) : k > n => k - n \in 1 .. Len(tail) /\ writes[k] = tail[k - n]
  <2> HIDE DEF n
  <2> QED BY <1>2, <1>8, <1>9
<1> HIDE DEF writes
<1>11. Len(writes) >= n
  BY <1>8, <1>9, <1>10
<1> HIDE DEF put, data
<1>12. writes[1] = [at |-> 1, cell |-> ObjectHeader(o.count)]
  <2>1. 1 \in 1 .. 1 + o.count /\ 0 + 1 = 1
    BY <1>0
  <2>2. writes[1] = head[1]
    BY <1>10, <2>1
  <2>3. head[1] = [at |-> 0 + 1, cell |-> cells[1]]
    BY <1>2, <2>1
  <2> QED BY <1>1, <2>1, <2>2, <2>3
<1>13. ASSUME NEW k \in 1 .. o.count
       PROVE  writes[1 + k] = [at |-> 1 + k, cell |-> o.headers[k]]
  <2>1. 1 + k \in 1 .. 1 + o.count /\ 0 + (1 + k) = 1 + k
    BY <1>0
  <2>2. writes[1 + k] = head[1 + k]
    BY <1>10, <2>1
  <2>3. head[1 + k] = [at |-> 0 + (1 + k), cell |-> cells[1 + k]]
    BY <1>2, <2>1
  <2>4. cells[1 + k] = o.headers[k]
    BY <1>1
  <2> QED BY <2>1, <2>2, <2>3, <2>4
<1>14. ASSUME NEW k \in 1 .. Len(writes), k > n PROVE writes[k].at > n
  BY <1>7, <1>10, <1>14
<1> QED BY <1>6, <1>11, <1>12, <1>13, <1>14 DEF HeadersFirst, writes

(* However many of the writes reach an empty file, its headers are those   *)
(* of the object.                                                          *)
LEMMA WrittenNames ==
  ASSUME ObjectAssumption, TypeOK, file = <<>>, NEW count \in Count,
         NEW headers \in Seq(HeaderType), count <= Len(headers), Unique(headers, count),
         NEW writes \in Seq(WriteType), HeadersFirst(writes, headers, count),
         NEW n \in 0 .. Len(writes)
  PROVE  NamesIn(FileAfter(writes, n))
<1> DEFINE after == FileAfter(writes, n)
<1>0. /\ after \in Seq(Cells) /\ Len(after) \in Nat /\ n \in Nat /\ count \in Nat
      /\ Len(file) = 0 /\ Len(writes) \in Nat /\ Len(headers) \in Nat
      /\ Len(after) \in {0} \cup {writes[k].at : k \in 1 .. n}
      /\ \A c \in 1 .. Len(after) :
           \/ \E k \in 1 .. n : writes[k].at = c /\ after[c] = writes[k].cell
           \/ \A k \in 1 .. n : writes[k].at # c
  <2>1. n \in Nat /\ count \in Nat /\ Len(file) = 0 /\ Len(writes) \in Nat /\ Len(headers) \in Nat
    BY DEF Count, ObjectAssumption
  <2>2. after \in Seq(Cells)
    BY FileAfterFacts
  <2>3. Len(after) \in {Len(file)} \cup {writes[k].at : k \in 1 .. n}
    BY FileAfterFacts
  <2>4. \A c \in 1 .. Len(after) :
           \/ \E k \in 1 .. n : writes[k].at = c /\ after[c] = writes[k].cell
           \/ \A k \in 1 .. n : writes[k].at # c
    BY FileAfterFacts
  <2> HIDE DEF after
  <2> QED BY <2>1, <2>2, <2>3, <2>4
<1> HIDE DEF after
<1>1. /\ writes[1].at = 1 /\ writes[1].cell = ObjectHeader(count)
      /\ \A k \in 1 .. count : writes[1 + k].at = 1 + k /\ writes[1 + k].cell = headers[k]
  <2>1. writes[1] = [at |-> 1, cell |-> ObjectHeader(count)]
    BY DEF HeadersFirst
  <2>2. ASSUME NEW k \in 1 .. count
        PROVE  writes[1 + k].at = 1 + k /\ writes[1 + k].cell = headers[k]
    <3>1. writes[1 + k] = [at |-> 1 + k, cell |-> headers[k]]
      BY DEF HeadersFirst
    <3> QED BY <3>1
  <2> QED BY <2>1, <2>2
<1>2. \A k \in 1 .. 1 + count : writes[k].at = k
  <2>1. ASSUME NEW k \in 1 .. 1 + count PROVE writes[k].at = k
    <3>1. CASE k = 1
      BY <1>1, <3>1
    <3>2. CASE k # 1
      <4>1. k - 1 \in 1 .. count /\ 1 + (k - 1) = k
        BY <1>0, <3>2
      <4>2. writes[1 + (k - 1)].at = 1 + (k - 1)
        BY <1>1, <4>1
      <4> QED BY <4>1, <4>2
    <3> QED BY <3>1, <3>2
  <2> QED BY <2>1
<1>3. \A k \in 1 .. n : k > 1 + count => writes[k].at > 1 + count
  BY <1>0 DEF HeadersFirst
<1>4. ASSUME NEW c \in 1 .. 1 + count, c <= Len(after)
      PROVE  c <= n /\ after[c] = writes[c].cell
  <2>1. c \in 1 .. Len(after) /\ Len(after) # 0
    BY <1>0, <1>4
  <2>2. PICK k \in 1 .. n : Len(after) = writes[k].at
    BY <1>0, <2>1
  <2>3. c <= n
    <3>1. CASE k > 1 + count
      BY <1>0, <3>1
    <3>2. CASE k <= 1 + count
      <4>1. Len(after) = k
        BY <1>2, <2>2, <3>2
      <4> QED BY <1>0, <1>4, <4>1
    <3> QED BY <1>0, <3>1, <3>2
  <2>4. writes[c].at = c /\ c \in 1 .. n
    BY <1>2, <2>3
  <2>5. PICK j \in 1 .. n : writes[j].at = c /\ after[c] = writes[j].cell
    BY <1>0, <2>1, <2>4
  <2>6. j = c
    <3>1. CASE j > 1 + count
      <4>1. writes[j].at > 1 + count
        BY <1>3, <3>1
      <4> QED BY <1>0, <2>5, <4>1
    <3>2. CASE j <= 1 + count
      <4>1. writes[j].at = j
        BY <1>2, <3>2
      <4> QED BY <2>5, <4>1
    <3> QED BY <1>0, <3>1, <3>2
  <2> QED BY <2>3, <2>5, <2>6
<1>5. CASE Len(after) = 0
  BY <1>0, <1>5, ShortNames DEF after
<1>6. CASE Len(after) # 0
  <2>1. CellIn(after, 1) = ObjectHeader(count)
    <3>1. 1 \in 1 .. 1 + count /\ 1 <= Len(after)
      BY <1>0, <1>6
    <3>2. after[1] = writes[1].cell
      BY <1>4, <3>1
    <3> QED BY <1>1, <3>1, <3>2 DEF CellIn
  <2>2. CellIn(after, 1).section_count = count
    BY <2>1 DEF ObjectHeader
  <2>3. ASSUME NEW i \in 1 .. count, 1 + i <= Len(after)
        PROVE  HeaderIn(after, 1 + i).name = headers[i].name
    <3>1. 1 + i \in 1 .. 1 + count /\ 1 + i \in 1 .. Len(after)
      BY <1>0, <2>3
    <3>2. after[1 + i] = headers[i]
      <4>1. after[1 + i] = writes[1 + i].cell
        BY <1>4, <2>3, <3>1
      <4> QED BY <1>1, <4>1
    <3>3. headers[i] \in HeaderType
      BY <1>0
    <3> QED BY <3>1, <3>2, <3>3, HeaderName
  <2>4. ASSUME NEW i \in 1 .. count, NEW j \in 1 .. count,
               1 + i <= Len(after), 1 + j <= Len(after),
               HeaderIn(after, 1 + i).name = HeaderIn(after, 1 + j).name
        PROVE  i = j
    BY <2>3, <2>4 DEF Unique
  <2>5. NamesIn(after)
    BY <2>2, <2>4 DEF NamesIn
  <2> QED BY <2>5 DEF after
<1> QED BY <1>5, <1>6

(* A save to an empty file leaves the names as they are, in memory and in  *)
(* the part of the file that is written.                                   *)
LEMMA SaveFileNames ==
  ASSUME ObjectAssumption, Neat, TypeOK, Shape, NamesInv, NEW f \in Fd, SaveFile(f)
  PROVE  NamesInv'
<1>0. phase = "ready" /\ phase' = phase /\ UnmapReady /\ file = <<>> /\ fds[f].pos = 0
  BY DEF SaveFile, Careful, Called, Neat
<1>1. PICK u \in UnmapOutcomes :
        IF u.err # "GOOD" THEN UNCHANGED <<obj, mem, file, fds>>
        ELSE LET saved  == [u.obj EXCEPT !.headers = LaidOut(u.obj)]
                 writes == WritesOf(saved, u.mem, fds[f].pos)
                 total  == IF fds[f].open THEN Len(writes) ELSE 0
             IN  /\ obj' = saved
                 /\ \E n \in 0 .. total : file' = FileAfter(writes, n)
  BY DEF SaveFile
<1>2. CASE u.err # "GOOD"
  BY <1>0, <1>1, <1>2, SameNames
<1>3. CASE u.err = "GOOD"
  <2> DEFINE headers == LaidOut(u.obj)
             saved   == [u.obj EXCEPT !.headers = headers]
             pos     == fds[f].pos
             writes  == WritesOf(saved, u.mem, pos)
             total   == IF fds[f].open THEN Len(writes) ELSE 0
  <2>1. /\ u.obj \in ObjectType /\ Fits(u.obj) /\ u.obj.count <= Len(u.obj.headers)
        /\ u.mem \in Memory
        /\ u.obj.headers = obj.headers /\ u.obj.count = obj.count
    BY <1>0, UnmapShape, UnmapFacts, NeatIsTidy
  <2>2. /\ headers \in Seq(HeaderType) /\ Len(headers) = Len(u.obj.headers)
        /\ \A j \in 1 .. u.obj.count : /\ headers[j].name = u.obj.headers[j].name
                                       /\ headers[j].off >= 1 + u.obj.count
    BY <2>1, LaidOutFacts
  <2>3. obj' = saved /\ \E n \in 0 .. total : file' = FileAfter(writes, n)
    BY <1>1, <1>3
  <2>4. PICK n \in 0 .. total : file' = FileAfter(writes, n)
    BY <2>3
  <2> HIDE DEF headers
  <2>5. /\ saved \in ObjectType /\ Fits(saved) /\ saved.count = obj.count
        /\ saved.headers = headers /\ saved.count <= Len(saved.headers)
    <3>1. saved \in ObjectType
      BY <2>1, <2>2 DEF ObjectType
    <3>2. /\ saved.headers = headers /\ saved.count = u.obj.count
          /\ saved.slots = u.obj.slots /\ saved.loaded = u.obj.loaded
      BY <2>1 DEF ObjectType
    <3> QED BY <2>1, <2>2, <3>1, <3>2 DEF Fits
  <2> HIDE DEF saved, pos
  <2>6. pos = 0 /\ pos \in Nat
    BY <1>0 DEF pos
  <2>7. writes \in Seq(WriteType)
    BY <2>1, <2>5, <2>6, WritesFacts
  <2>8. HeadersFirst(writes, headers, obj.count)
    <3>1. writes = WritesOf(saved, u.mem, 0)
      BY <2>6
    <3>2. \A j \in 1 .. saved.count : saved.headers[j].off >= 1 + saved.count
      BY <2>1, <2>2, <2>5
    <3>3. HeadersFirst(WritesOf(saved, u.mem, 0), saved.headers, saved.count)
      BY <2>1, <2>5, <3>2, HeadersAreFirst
    <3> QED BY <2>5, <3>1, <3>3
  <2> HIDE DEF writes
  <2>9. Unique(headers, obj.count)
    <3>1. Unique(obj.headers, obj.count)
      BY <1>0 DEF NamesInv, UniqueNames, Unique
    <3> QED BY <2>1, <2>2, <3>1 DEF Unique
  <2>10. n \in 0 .. Len(writes)
    <3>1. Len(writes) \in Nat
      BY <2>7
    <3> QED BY <2>4, <3>1
  <2>11. obj.count \in Count /\ obj.count <= Len(headers)
    BY <2>1, <2>2 DEF ObjectType, Count
  <2>12. NamesIn(FileAfter(writes, n))
    BY <1>0, <2>2, <2>7, <2>8, <2>9, <2>10, <2>11, WrittenNames
  <2>13. NamesIn(file)'
    BY <2>4, <2>12
  <2>14. UniqueNames'
    BY <2>3, <2>5, <2>9 DEF UniqueNames, Unique
  <2> QED BY <2>13, <2>14 DEF NamesInv
<1> QED BY <1>2, <1>3

(* No name is in the file at first, and no step puts one in twice. *)
LEMMA InitNames ==
  ASSUME ObjectAssumption, Init
  PROVE  NamesInv
<1>1. phase = "raw" /\ file \in {<<>>, <<Zero>>}
  BY DEF Init
<1>2. Len(file) \in Nat /\ Len(file) <= 1
  <2>1. CASE file = <<>>
    BY <2>1
  <2>2. CASE file = <<Zero>>
    <3>1. Len(file) = 1
      BY <2>2
    <3> QED BY <3>1
  <2> QED BY <1>1, <2>1, <2>2
<1>3. NamesIn(file)
  BY <1>2, ShortNames
<1> QED BY <1>1, <1>3 DEF NamesInv, UniqueNames

LEMMA NextNames ==
  ASSUME ObjectAssumption, Neat, TypeOK, Shape, NamesInv, [Next]_vars
  PROVE  NamesInv'
<1>0. 0 .. MaxSections \subseteq Nat
  BY DEF ObjectAssumption
<1>1. CASE UNCHANGED vars
  BY <1>1 DEF vars, NamesInv, UniqueNames, NamesIn, HeaderIn, IsHeader, CellIn
<1>2. CASE Managing
  <2>1. CASE ObjInit \/ Unmap
    BY <2>1, ObjInitNames, UnmapNames
  <2>2. CASE \/ ObjCleanup \/ \E t \in Targets : SetTargetDefaults(t)
             \/ \E n \in Names : FindSection(n)
    BY <2>2, OthersNames
  <2>3. CASE \E n \in Names : \E h \in Handle \cup {NoHandle} : CreateSection(n, h)
    BY <2>3, CreateSectionNames
  <2>4. CASE \E i \in 0 .. MaxSections : DeleteSection(i)
    BY <1>0, <2>4, DeleteSectionNames
  <2> QED BY <1>2, <2>1, <2>2, <2>3, <2>4 DEF Managing
<1>3. CASE Exchanging
  <2>1. PICK h \in Handle :
          \/ \E cells \in Contents : FillHandle(h, cells)
          \/ DropHandle(h)
          \/ \E i \in 0 .. MaxSections : UpdateSection(i, h)
          \/ \E i \in 0 .. MaxSections, flags \in SUBSET {"VIEW", "MMAP"} :
               LoadSection(i, h, flags)
    BY <1>3 DEF Exchanging
  <2>2. CASE DropHandle(h) \/ \E cells \in Contents : FillHandle(h, cells)
    BY <2>2, OthersNames
  <2>3. CASE \E i \in 0 .. MaxSections : UpdateSection(i, h)
    BY <1>0, <2>3, UpdateSectionNames
  <2>4. CASE \E i \in 0 .. MaxSections, flags \in SUBSET {"VIEW", "MMAP"} :
               LoadSection(i, h, flags)
    BY <1>0, <2>4, LoadSectionNames
  <2> QED BY <2>1, <2>2, <2>3, <2>4
<1>4. CASE Filing
  <2>1. PICK f \in Fd : \/ LoadFile(f) \/ Mmap(f) \/ SaveFile(f)
                        \/ OpenFd(f) \/ Rewind(f) \/ Truncate(f) \/ CloseFd(f)
    BY <1>4 DEF Filing
  <2>2. CASE LoadFile(f) \/ Mmap(f) \/ SaveFile(f)
    BY <2>2, LoadFileNames, MmapNames, SaveFileNames
  <2>3. CASE Truncate(f)
    BY <2>3, TruncateNames
  <2>4. CASE OpenFd(f) \/ Rewind(f) \/ CloseFd(f)
    BY <2>4, OthersNames
  <2> QED BY <2>1, <2>2, <2>3, <2>4
<1> QED BY <1>1, <1>2, <1>3, <1>4 DEF Next

(* No operation puts a name twice into the directory, or into a file: not  *)
(* a section created after the file was loaded, and not the headers of a   *)
(* save that stopped half-way.                                             *)
THEOREM NamesAreUnique == Neat => (Spec => []UniqueNames)
<1>1. (Neat) \in BOOLEAN
  BY DEF Neat
<1>2. CASE Neat
  <2>1. Init => TypeOK /\ Shape /\ NamesInv
    BY ObjectAssumption, InitType, InitNames
  <2>2. (TypeOK /\ Shape /\ NamesInv) /\ [Next]_vars => (TypeOK /\ Shape /\ NamesInv)'
    BY <1>2, ObjectAssumption, NextType, NextNames, NeatIsTidy
  <2>3. TypeOK /\ Shape /\ NamesInv => UniqueNames
    BY DEF NamesInv
  <2> QED BY <2>1, <2>2, <2>3, PTL DEF Spec
<1> QED BY <1>2
=============================================================================

---------------------------- MODULE SectionBuffer ----------------------------
(***************************************************************************)
(* The byte buffer under a coil_section_t: the heap it is allocated from   *)
(* (mem.c) and the three internal routines that size it (sect.c: resize,   *)
(* ensure_capacity, init).  The module has no variables.  A routine that   *)
(* can fail is the SET of its outcomes, so that a caller that uses the     *)
(* result before it returns is still one step.                             *)
(*                                                                         *)
(* A buffer is its IMAGE, a function from 0 .. n-1 to cells; a cell that   *)
(* malloc returned and nobody wrote is Junk.  An address whose image is    *)
(* empty is not allocated: coil_malloc refuses size 0, so no allocated     *)
(* region has an empty image.                                              *)
(***************************************************************************)
EXTENDS Integers

CONSTANTS
  Addr,             \* the addresses the heap can hand out
  NULL,             \* the null pointer
  MAPPED,           \* a data pointer into the section's own mmap region
  Byte,             \* the byte values the client writes
  Nul,              \* the byte 0
  Junk,             \* a cell without a defined value
  SizeMod,          \* coil_size_t counts modulo SizeMod (2^64 in the code)
  MaxAlloc,         \* the largest request malloc grants (PTRDIFF_MAX)
  DefaultCapacity,  \* COIL_SECTION_DEFAULT_CAPACITY
  MallocMayFail     \* does malloc also fail for want of memory?

ASSUME BufferAssumption ==
  /\ NULL \notin Addr
  /\ MAPPED \notin Addr \cup {NULL}
  /\ Nul \in Byte
  /\ Junk \notin Byte
  /\ MaxAlloc \in Nat \ {0}
  /\ SizeMod \in Nat
  /\ 2 * MaxAlloc < SizeMod
  /\ DefaultCapacity \in 1 .. MaxAlloc
  /\ MallocMayFail \in BOOLEAN

(* coil_size_t arithmetic: one addition or subtraction wraps at most once. *)
Plus(x, y)  == IF x + y < SizeMod THEN x + y ELSE (x + y) - SizeMod
Minus(x, y) == IF y <= x THEN x - y ELSE (SizeMod + x) - y

Size     == 0 .. SizeMod - 1
Cell     == Byte \cup {Junk}
Image    == UNION {[0 .. n - 1 -> Cell] : n \in 0 .. MaxAlloc}
NoImage  == [i \in {} |-> Junk]

(* Mutant: the copy stops one cell early. *)
OverlayShort(img, at, n, buf) ==
  [i \in DOMAIN img \cup at .. at + n - 1 |->
     IF i \in at .. at + n - 2 THEN buf[i - at] ELSE img[i]]

(***************************************************************************)
(* memcpy of the first n cells of buf to offset at of an image.  A copy    *)
(* that runs past the end of the region shows as a larger image.           *)
(***************************************************************************)
Overlay(img, at, n, buf) ==
  [i \in DOMAIN img \cup at .. at + n - 1 |->
     IF i \in at .. at + n - 1 THEN buf[i - at] ELSE img[i]]

Allocated(heap) == {a \in Addr : DOMAIN heap[a] # {}}

(* coil_malloc: size 0 is refused, the rest may fail. *)
Malloc(heap, n) ==
  LET fresh == IF n \in 1 .. MaxAlloc THEN Addr \ Allocated(heap) ELSE {}
  IN  {[data |-> a, heap |-> [heap EXCEPT ![a] = [i \in 0 .. n - 1 |-> Junk]]] :
         a \in fresh}
      \cup {[data |-> x, heap |-> heap] :
              x \in IF fresh = {} \/ MallocMayFail THEN {NULL} ELSE {}}

Free(heap, a) == [heap EXCEPT ![a] = NoImage]

(***************************************************************************)
(* coil_section_t.  A data pointer is NULL, a heap address, or MAPPED: the *)
(* byte map_off of the section's mapping, which starts at byte map_start   *)
(* of the file and is map_size bytes long.                                 *)
(***************************************************************************)
Mode == {"CREATE", "MODIFY", "VIEW"}

Section ==
  [data : Addr \cup {NULL, MAPPED}, capacity : Size, size : Size,
   rindex : Size, windex : Size, mode : Mode, is_mapped : BOOLEAN,
   map_start : Size, map_off : Size, map_size : Size]

ZeroSection ==
  [data |-> NULL, capacity |-> 0, size |-> 0, rindex |-> 0, windex |-> 0,
   mode |-> "CREATE", is_mapped |-> FALSE,
   map_start |-> 0, map_off |-> 0, map_size |-> 0]

Outcome(e, s, h) == [err |-> e, sect |-> s, heap |-> h]

(* coil_section_init: on failure the section is left zeroed. *)
InitOutcomes(heap, capacity) ==
  LET cap == IF capacity = 0 THEN DefaultCapacity ELSE capacity
  IN  {IF m.data = NULL
         THEN Outcome("NOMEM", ZeroSection, heap)
         ELSE Outcome("GOOD",
                      [ZeroSection EXCEPT !.data = m.data, !.capacity = cap],
                      m.heap) :
         m \in Malloc(heap, cap)}

(* Mutant: the old buffer is not freed. *)
MovedLeaking(s, heap, new) ==
  IF s.data # NULL /\ s.size > 0
    THEN [heap EXCEPT ![new] = Overlay(heap[new], 0, s.size, heap[s.data])]
    ELSE heap

(* Mutant: only what is before the write cursor is copied. *)
MovedToCursor(s, heap, new) ==
  IF s.data = NULL THEN heap
  ELSE Free([heap EXCEPT
               ![new] = Overlay(heap[new], 0, s.windex, heap[s.data])], s.data)

(* The heap once the old content is copied to the new buffer and the old   *)
(* buffer, if the section owns one, is freed.                              *)
Moved(s, heap, new) ==
  LET filled == IF s.data # NULL /\ s.size > 0
                  THEN [heap EXCEPT
                          ![new] = Overlay(heap[new], 0, s.size, heap[s.data])]
                  ELSE heap
  IN  IF s.mode # "VIEW" /\ s.data # NULL THEN Free(filled, s.data) ELSE filled

(* Mutant: the capacity is set before the allocation is known to succeed. *)
ResizeOutcomesEager(s, heap, capacity) ==
  {IF m.data = NULL
     THEN Outcome("NOMEM", [s EXCEPT !.capacity = capacity], heap)
     ELSE Outcome("GOOD",
                  [s EXCEPT !.data = m.data, !.capacity = capacity,
                            !.mode = "MODIFY"],
                  Moved(s, m.heap, m.data)) :
     m \in Malloc(heap, capacity)}

(* coil_section_resize: allocate first, so that a failure changes nothing. *)
ResizeOutcomes(s, heap, capacity) ==
  {IF m.data = NULL
     THEN Outcome("NOMEM", s, heap)
     ELSE Outcome("GOOD",
                  [s EXCEPT !.data = m.data, !.capacity = capacity,
                            !.mode = "MODIFY"],
                  Moved(s, m.heap, m.data)) :
     m \in Malloc(heap, capacity)}

(* coil_section_ensure_capacity: double, but at least to what is asked. *)
Grown(capacity, min) ==
  LET doubled == Plus(capacity, capacity)
  IN  IF doubled < min THEN min ELSE doubled

(* Mutant: one byte short still counts as enough. *)
EnsureOutcomesSlack(s, heap, min) ==
  IF s.mode = "VIEW" THEN {Outcome("BADSTATE", s, heap)}
  ELSE IF s.capacity + 1 >= min THEN {Outcome("GOOD", s, heap)}
  ELSE ResizeOutcomes(s, heap, Grown(s.capacity, min))

EnsureOutcomes(s, heap, min) ==
  IF s.mode = "VIEW" THEN {Outcome("BADSTATE", s, heap)}
  ELSE IF s.capacity >= min THEN {Outcome("GOOD", s, heap)}
  ELSE ResizeOutcomes(s, heap, Grown(s.capacity, min))

(* Mutant: a buffer that already fits is moved all the same. *)
CompactOutcomesAlways(s, heap) ==
  IF s.mode = "VIEW" \/ s.data = NULL THEN {Outcome("BADSTATE", s, heap)}
  ELSE ResizeOutcomes(s, heap, s.size)

(* coil_section_compact. *)
CompactOutcomes(s, heap) ==
  IF s.mode = "VIEW" \/ s.data = NULL THEN {Outcome("BADSTATE", s, heap)}
  ELSE IF s.size = s.capacity THEN {Outcome("GOOD", s, heap)}
  ELSE ResizeOutcomes(s, heap, s.size)

(* coil_section_write: grow, copy, move the cursor and perhaps the size. *)
WriteOutcomes(s, heap, n, buf) ==
  LET Stored(o) ==
        LET w == Plus(o.sect.windex, n)
        IN  Outcome("GOOD",
                    [o.sect EXCEPT !.windex = w,
                                   !.size = IF w > @ THEN w ELSE @],
                    IF o.sect.data \in Addr
                      THEN [o.heap EXCEPT
                              ![o.sect.data] = Overlay(@, o.sect.windex, n, buf)]
                      ELSE o.heap)
  IN  {IF o.err = "GOOD" THEN Stored(o) ELSE o :
         o \in EnsureOutcomes(s, heap, Plus(s.windex, n))}
=============================================================================

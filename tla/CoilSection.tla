----------------------------- MODULE CoilSection -----------------------------
(***************************************************************************)
(* One coil_section_t (src/sect.c), the heap and the mapping behind it,    *)
(* the file it is loaded from and serialized to, and a client that calls   *)
(* the public operations in any order its protocol allows.  The library    *)
(* is sequential, so that a call is one step.                              *)
(*                                                                         *)
(* phase is what the client knows of the section: "raw" memory that was    *)
(* never initialized, "open", or "closed" by coil_section_cleanup or by a  *)
(* load that failed.  calls is the client's protocol: the set of the       *)
(* operations it uses.                                                     *)
(***************************************************************************)
EXTENDS SectionBuffer

CONSTANTS
  Calls,        \* the operations the client uses
  MaxBuf,       \* the longest buffer the client passes
  MaxFile,      \* the longest the file may become (disk space)
  MaxPos,       \* the furthest the client moves the file position
  PageSize,     \* the page size
  MaxMap        \* the longest mapping mmap grants

ASSUME SectionAssumption ==
  /\ MaxBuf \in 0 .. MaxAlloc
  /\ MaxFile \in Nat /\ MaxPos \in Nat
  /\ MaxFile < SizeMod /\ MaxPos < SizeMod
  /\ PageSize \in Nat \ {0}
  /\ MaxMap \in Nat

VARIABLES
  sect,    \* the section structure
  heap,    \* the image of every heap address
  maps,    \* the live mappings, [start, size] in the file
  file,    \* the bytes of the file, [len, bytes]
  pos,     \* the file position of the descriptor
  phase,   \* "raw", "open" or "closed"
  ret      \* the last call, its result and what it returned

vars == <<sect, heap, maps, file, pos, phase, ret>>

Buffer(n) == [0 .. n - 1 -> Byte]
Files     == UNION {[len : {n}, bytes : Buffer(n)] : n \in 0 .. MaxFile}
NoBytes   == [i \in {} |-> Nul]

Result(op, err, n, out) == [op |-> op, err |-> err, n |-> n, out |-> out]
Done(op, err) == Result(op, err, 0, NoBytes)

(* The mapping behind a view, whole pages from the page of its first byte. *)
Mapping(s) == [start |-> s.map_start, size |-> s.map_size]

(***************************************************************************)
(* Byte j of the section's mapping: the file's, zero in the rest of its    *)
(* last page, and no value (a bus error) beyond that or past the mapping.  *)
(***************************************************************************)
LastPageEnd == IF file.len % PageSize = 0 THEN file.len
               ELSE file.len + (PageSize - (file.len % PageSize))

MappedCell(s, j) ==
  LET at == s.map_start + j
  IN  IF j >= s.map_size \/ at >= LastPageEnd THEN Junk
      ELSE IF at < file.len THEN file.bytes[at] ELSE Nul

(* Mutant: data is read from the base of the mapping. *)
CellAtBase(s, i) ==
  IF s.data = MAPPED THEN MappedCell(s, i) ELSE heap[s.data][i]

(* Byte i of the section's data. *)
CellAt(s, i) ==
  IF s.data = MAPPED THEN MappedCell(s, s.map_off + i) ELSE heap[s.data][i]

Slice(s, from, n) == [i \in 0 .. n - 1 |-> CellAt(s, from + i)]

Content == Slice(sect, 0, sect.size)

(***************************************************************************)
(* Building a section                                                      *)
(***************************************************************************)
Called(op) == op \in Calls

(* coil_section_init *)
InitSection(capacity) ==
  /\ Called("init")
  /\ phase # "open"
  /\ \E o \in InitOutcomes(heap, capacity) :
       /\ sect' = o.sect
       /\ heap' = o.heap
       /\ ret' = Done("init", o.err)
  /\ phase' = "open"
  /\ UNCHANGED <<maps, file, pos>>

(* Mutant: munmap is called with the data pointer. *)
UnmappedData(s) ==
  maps \ {[start |-> s.map_start + s.map_off, size |-> s.map_size]}

(* munmap of what loadv mapped, which is not where the data starts. *)
Unmapped(s) == maps \ {Mapping(s)}

(* coil_section_cleanup: a second call finds data NULL and does nothing. *)
Cleanup ==
  /\ Called("cleanup")
  /\ phase # "raw"
  /\ LET mapped == sect.data # NULL /\ sect.is_mapped
     IN  /\ heap' = IF sect.data \in Addr /\ sect.mode # "VIEW"
                      THEN Free(heap, sect.data) ELSE heap
         /\ maps' = IF mapped THEN Unmapped(sect) ELSE maps
         /\ sect' = [sect EXCEPT !.data = NULL, !.is_mapped = FALSE,
                                 !.map_start = IF mapped THEN 0 ELSE @,
                                 !.map_size = IF mapped THEN 0 ELSE @]
  /\ phase' = "closed"
  /\ ret' = Done("cleanup", "GOOD")
  /\ UNCHANGED <<file, pos>>

(***************************************************************************)
(* What one coil_read of at most n bytes may return: read(2) may come      *)
(* short of what the file has left from pos, and returns nothing only at   *)
(* its end.                                                                *)
(***************************************************************************)
Left == IF pos < file.len THEN file.len - pos ELSE 0
ReadCounts(n) ==
  LET most == IF Left < n THEN Left ELSE n
  IN  IF most = 0 THEN {0} ELSE 1 .. most

(***************************************************************************)
(* coil_section_load: init, then read up to capacity bytes.  A failed read *)
(* runs cleanup, which leaves the capacity behind.                         *)
(***************************************************************************)
Load(capacity) ==
  /\ Called("load")
  /\ phase # "open"
  /\ \E o \in InitOutcomes(heap, capacity), readFails \in BOOLEAN :
       IF o.err # "GOOD" THEN
         /\ sect' = o.sect
         /\ heap' = o.heap
         /\ phase' = "closed"
         /\ ret' = Done("load", o.err)
         /\ UNCHANGED pos
       ELSE IF readFails THEN
         /\ sect' = [o.sect EXCEPT !.mode = "MODIFY", !.data = NULL]
         /\ heap' = Free(o.heap, o.sect.data)
         /\ phase' = "closed"
         /\ ret' = Done("load", "IO")
         /\ UNCHANGED pos
       ELSE
         \E n \in ReadCounts(o.sect.capacity) :
         LET buf == [i \in 0 .. n - 1 |-> file.bytes[pos + i]]
         IN  /\ sect' = [o.sect EXCEPT !.mode = "MODIFY", !.size = n,
                                       !.rindex = 0, !.windex = n]
             /\ heap' = [o.heap EXCEPT ![o.sect.data] = Overlay(@, 0, n, buf)]
             /\ phase' = "open"
             /\ ret' = Done("load", "GOOD")
             /\ pos' = pos + n
  /\ UNCHANGED <<maps, file>>

(* What mmap accepts: a non-zero length it has room for, a page boundary. *)
MmapOk(start, size) == size \in 1 .. MaxMap /\ start % PageSize = 0

(* Mutant: the size of the file is taken for what is left of it. *)
ViewSizeWhole(capacity) ==
  IF capacity > 0 /\ capacity < file.len THEN capacity ELSE file.len

(***************************************************************************)
(* How much loadv shows: what the file has left, at most capacity bytes of *)
(* it.  remaining is unsigned: a position past the end wraps it.           *)
(***************************************************************************)
ViewSize(capacity) ==
  LET remaining == Minus(file.len, pos)
  IN  IF capacity > 0 /\ capacity < remaining THEN capacity ELSE remaining

(* coil_section_loadv: map from the page that holds pos, view from pos on. *)
LoadView(capacity) ==
  /\ Called("loadv")
  /\ phase # "open"
  /\ LET size  == ViewSize(capacity)
         off   == pos % PageSize
         start == pos - off
         msize == Plus(size, off)
     IN  \/ /\ MmapOk(start, msize)
            /\ sect' = [data |-> MAPPED, capacity |-> size, size |-> size,
                        rindex |-> 0, windex |-> 0, mode |-> "VIEW",
                        is_mapped |-> TRUE,
                        map_start |-> start, map_off |-> off, map_size |-> msize]
            /\ maps' = maps \cup {[start |-> start, size |-> msize]}
            /\ phase' = "open"
            /\ ret' = Done("loadv", "GOOD")
         \/ /\ ret' = Done("loadv", "IO")
            /\ UNCHANGED <<sect, maps, phase>>
  /\ UNCHANGED <<heap, file, pos>>

(***************************************************************************)
(* Using an open section                                                   *)
(***************************************************************************)
Take(op, n, outcomes) ==
  /\ \E o \in outcomes :
       /\ sect' = o.sect
       /\ heap' = o.heap
       /\ ret' = Result(op, o.err, IF o.err = "GOOD" THEN n ELSE 0, NoBytes)
  /\ UNCHANGED <<maps, file, pos, phase>>

(* coil_section_write refuses a VIEW before it asks for capacity. *)
StoreCall(n, buf) ==
  /\ phase = "open"
  /\ Take("write", n, IF sect.mode = "VIEW" THEN {Outcome("BADSTATE", sect, heap)}
                      ELSE WriteOutcomes(sect, heap, n, buf))

Write(n, buf) == Called("write") /\ StoreCall(n, buf)

(* Mutant: strlen bytes are written, without the terminator. *)
IsStringBare(n, buf) == \A i \in 0 .. n - 1 : buf[i] # Nul

(* coil_section_putstr: the string and its terminator, by coil_section_write. *)
IsString(n, buf) == n > 0 /\ \A i \in 0 .. n - 1 : buf[i] = Nul <=> i = n - 1

PutStr(n, buf) == Called("putstr") /\ IsString(n, buf) /\ StoreCall(n, buf)

(* coil_section_ensure_capacity *)
EnsureCapacity(min) ==
  /\ Called("ensure_capacity")
  /\ phase = "open"
  /\ Take("ensure_capacity", 0, EnsureOutcomes(sect, heap, min))

(* coil_section_compact *)
Compact ==
  /\ Called("compact")
  /\ phase = "open"
  /\ Take("compact", 0, CompactOutcomes(sect, heap))

(* coil_section_read *)
Read(n) ==
  /\ Called("read")
  /\ phase = "open"
  /\ LET readable == Minus(sect.size, sect.rindex)
         count    == IF readable < n THEN readable ELSE n
     IN  /\ sect' = [sect EXCEPT !.rindex = Plus(@, count)]
         /\ ret' = Result("read", "GOOD", count, Slice(sect, sect.rindex, count))
  /\ UNCHANGED <<heap, maps, file, pos, phase>>

(* coil_section_getstr: a pointer to byte offset, if that is in the content. *)
GetStr(offset) ==
  /\ Called("getstr")
  /\ phase = "open"
  /\ ret' = IF offset >= sect.size THEN Done("getstr", "INVAL")
            ELSE Result("getstr", "GOOD", offset, NoBytes)
  /\ UNCHANGED <<sect, heap, maps, file, pos, phase>>

(* coil_section_reset *)
Reset ==
  /\ Called("reset")
  /\ phase = "open"
  /\ sect' = [sect EXCEPT !.rindex = 0, !.windex = 0]
  /\ ret' = Done("reset", "GOOD")
  /\ UNCHANGED <<heap, maps, file, pos, phase>>

(* Mutant: the position is compared with the capacity. *)
SeekReadCapacity(p) ==
  /\ Called("seek_read")
  /\ phase = "open"
  /\ IF p > sect.capacity
       THEN sect' = sect /\ ret' = Done("seek_read", "INVAL")
       ELSE sect' = [sect EXCEPT !.rindex = p] /\ ret' = Done("seek_read", "GOOD")
  /\ UNCHANGED <<heap, maps, file, pos, phase>>

(* coil_section_seek_read *)
SeekRead(p) ==
  /\ Called("seek_read")
  /\ phase = "open"
  /\ IF p > sect.size
       THEN sect' = sect /\ ret' = Done("seek_read", "INVAL")
       ELSE sect' = [sect EXCEPT !.rindex = p] /\ ret' = Done("seek_read", "GOOD")
  /\ UNCHANGED <<heap, maps, file, pos, phase>>

(* coil_section_seek_write *)
SeekWrite(p) ==
  /\ Called("seek_write")
  /\ phase = "open"
  /\ IF p > sect.size
       THEN sect' = sect /\ ret' = Done("seek_write", "INVAL")
       ELSE sect' = [sect EXCEPT !.windex = p] /\ ret' = Done("seek_write", "GOOD")
  /\ UNCHANGED <<heap, maps, file, pos, phase>>

(***************************************************************************)
(* The file                                                                *)
(***************************************************************************)

(* Mutant: what followed the written bytes in the file is cut off. *)
WrittenTruncating(k) ==
  [len |-> pos + k,
   bytes |-> [i \in 0 .. pos + k - 1 |->
                IF i >= pos THEN CellAt(sect, i - pos)
                ELSE IF i < file.len THEN file.bytes[i] ELSE Nul]]

(* The file after k bytes of the content went to pos; a gap reads as zero. *)
Written(k) ==
  LET end == pos + k
      len == IF end > file.len THEN end ELSE file.len
  IN  [len |-> len,
       bytes |-> [i \in 0 .. len - 1 |->
                    IF i \in pos .. end - 1 THEN CellAt(sect, i - pos)
                    ELSE IF i < file.len THEN file.bytes[i] ELSE Nul]]

(***************************************************************************)
(* coil_section_serialize: nothing to do for an empty section, else one    *)
(* write(2), which may fail or write only the first k bytes.               *)
(***************************************************************************)
Serialize ==
  /\ Called("serialize")
  /\ phase = "open"
  /\ \/ /\ sect.data = NULL \/ sect.size = 0
        /\ ret' = Done("serialize", "GOOD")
        /\ UNCHANGED <<file, pos>>
     \/ /\ sect.data # NULL /\ sect.size > 0
        /\ ret' = Done("serialize", "IO")
        /\ UNCHANGED <<file, pos>>
     \/ /\ sect.data # NULL
        /\ \E k \in 1 .. MaxFile :
             /\ k <= sect.size
             /\ pos + k <= MaxFile
             /\ file' = Written(k)
             /\ pos' = pos + k
             /\ ret' = Done("serialize", IF k = sect.size THEN "GOOD" ELSE "IO")
  /\ UNCHANGED <<sect, heap, maps, phase>>

(* The client moves the descriptor, past the end only if its protocol says so. *)
ClientSeek(p) ==
  /\ Called("lseek")
  /\ p <= file.len \/ Called("lseek past the end")
  /\ pos' = p
  /\ ret' = Done("lseek", "GOOD")
  /\ UNCHANGED <<sect, heap, maps, file, phase>>

-----------------------------------------------------------------------------
(* File contents the client starts from. *)
Init ==
  /\ sect = ZeroSection
  /\ heap = [a \in Addr |-> NoImage]
  /\ maps = {}
  /\ file \in Files
  /\ pos = 0
  /\ phase = "raw"
  /\ ret = Done("none", "GOOD")

Building ==
  \/ \E c \in 0 .. MaxAlloc : InitSection(c) \/ Load(c) \/ LoadView(c)
  \/ Cleanup

Using ==
  \/ \E n \in 0 .. MaxBuf :
       \/ \E buf \in Buffer(n) : Write(n, buf) \/ PutStr(n, buf)
       \/ Read(n)
  \/ \E p \in 0 .. MaxAlloc + 1 :
       EnsureCapacity(p) \/ GetStr(p) \/ SeekRead(p) \/ SeekWrite(p)
  \/ Compact
  \/ Reset

Filing == Serialize \/ \E p \in 0 .. MaxPos : ClientSeek(p)

Next == Building \/ Using \/ Filing

Spec == Init /\ [][Next]_vars
-----------------------------------------------------------------------------
(***************************************************************************)
(* Properties                                                              *)
(***************************************************************************)

(* Every variable has its type; the file keeps cells, because a view that  *)
(* runs past its mapping may be serialized.                                *)
TypeOK ==
  /\ sect \in Section
  /\ heap \in [Addr -> Image]
  /\ maps \subseteq [start : Nat, size : Nat]
  /\ file.len \in 0 .. MaxFile
  /\ file = [len |-> file.len, bytes |-> file.bytes]
  /\ file.bytes \in [0 .. file.len - 1 -> Cell]
  /\ pos \in Size
  /\ phase \in {"raw", "open", "closed"}
  /\ ret.err \in {"GOOD", "NOMEM", "IO", "INVAL", "BADSTATE"}

(* No sequence of calls moves a cursor of an open section out of its       *)
(* content or the content out of its buffer: coil_section_read subtracts   *)
(* rindex from size without a test, and coil_section_write copies to       *)
(* data + windex.                                                          *)
CursorsInBounds ==
  phase = "open" =>
    /\ sect.rindex <= sect.size
    /\ sect.windex <= sect.size
    /\ sect.size <= sect.capacity

(* The section owns exactly one region of exactly capacity bytes, or one   *)
(* mapping, or nothing: no call leaks the buffer it replaces, frees a      *)
(* buffer still in use, or copies past the end of a region.                *)
OwnsExactly ==
  /\ Allocated(heap) =
       IF phase = "open" /\ sect.data \in Addr THEN {sect.data} ELSE {}
  /\ maps = IF phase = "open" /\ sect.data = MAPPED
              THEN {Mapping(sect)} ELSE {}
  /\ phase = "open" =>
       /\ sect.data \in Addr => DOMAIN heap[sect.data] = 0 .. sect.capacity - 1
       /\ sect.data = NULL => sect.capacity = 0
       /\ (sect.data = MAPPED) = (sect.mode = "VIEW")

(* Nothing below size is a byte nobody wrote: growth and compaction move   *)
(* all of the content, a short read shrinks size to what arrived.          *)
NoJunkExposed ==
  phase = "open" => \A i \in 0 .. sect.size - 1 : CellAt(sect, i) \in Byte

(* A view shows bytes of the file only, whatever page its position is in.  *)
ViewWithinFile ==
  phase = "open" /\ sect.data = MAPPED =>
    sect.map_start + sect.map_off + sect.size <= file.len

(* A freshly loaded view starts at the byte the descriptor was at and the  *)
(* descriptor stays there, although the mapping starts at a page boundary. *)
ViewStartsAtPosition ==
  [][ret'.op = "loadv" /\ ret'.err = "GOOD" =>
       /\ pos' = pos
       /\ \A i \in 0 .. sect'.size - 1 : CellAt(sect', i) = file.bytes[pos + i]]_vars

(* In a table built by coil_section_putstr alone, every pointer that       *)
(* coil_section_getstr returns has its terminator inside the content,      *)
(* whatever seeks and overwrites built it.                                 *)
StringsTerminated ==
  ret.op = "getstr" /\ ret.err = "GOOD" =>
    \E i \in ret.n .. sect.size - 1 : CellAt(sect, i) = Nul

(* A call that refuses or runs out of memory half way leaves an open       *)
(* section and its buffer as they were.                                    *)
FailureChangesNothing ==
  [][phase = "open" /\ phase' = "open" /\ ret'.err # "GOOD" =>
       sect' = sect /\ heap' = heap]_vars

(* A pointer from coil_section_getstr survives every call on the open      *)
(* section but one that has to grow the buffer and coil_section_compact.   *)
PointersSurvive ==
  [][phase = "open" /\ phase' = "open" /\ sect'.data # sect.data =>
       \/ sect'.capacity > sect.capacity
       \/ ret'.op = "compact" /\ sect'.capacity < sect.capacity]_vars
=============================================================================

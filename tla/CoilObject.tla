----------------------------- MODULE CoilObject ------------------------------
(***************************************************************************)
(* One coil_object_t (src/obj.c): its section headers, the sections it has *)
(* in memory, the mapping and the descriptor it reads from; the client's   *)
(* section structures, whose data the object takes over, copies or lends;  *)
(* and the file it is saved to and loaded from.                            *)
(*                                                                         *)
(* A section's data lives in a numbered region, 0 being NULL: a heap       *)
(* buffer or a mapping, with its cells.  The file is a sequence of cells   *)
(* of size 1: an object header, a section header or a byte each.  What a   *)
(* section does with its own buffer is the subject of CoilSection; here a  *)
(* client fills a section once and passes it on.                           *)
(*                                                                         *)
(* Calls is the client's protocol.  Careful(name, cond) says that a client *)
(* without name in its protocol keeps to cond; the conditions are those    *)
(* under which the code is sound, and a client that breaks one shows why.  *)
(***************************************************************************)
EXTENDS Integers, SequencesExt, FiniteSetsExt

CONSTANTS
  Names,         \* hashes of section names
  Targets,       \* target metadata, besides the default
  Contents,      \* the byte sequences the client puts in sections
  Zero,          \* a byte nobody wrote
  Handle,        \* the client's section structures
  NoHandle,      \* NULL in place of one
  Fd, NoFd,      \* descriptors of the file, and -1
  MaxRegion,     \* the regions there is memory for
  MaxSections,   \* the sections the client creates at most
  CountMod,      \* coil_u16_t counts modulo CountMod (2^16 in the code)
  MallocMayFail, \* does malloc fail while there is memory?
  Calls          \* the operations and liberties of the client's protocol

ASSUME ObjectAssumption ==
  /\ NoFd \notin Fd
  /\ NoHandle \notin Handle
  /\ 0 \notin Targets
  /\ \A cells \in Contents : cells \in Seq(Range(cells))
  /\ MaxRegion \in Nat
  /\ MaxSections \in Nat
  /\ CountMod \in Nat \ {0, 1}
  /\ MallocMayFail \in BOOLEAN

VARIABLES
  obj,     \* the object structure
  mem,     \* the regions
  hs,      \* the client's section structures
  file,    \* the cells of the file
  fds,     \* the open descriptors and their positions
  phase,   \* "raw", "ready", "failed" or "undefined"
  ret      \* the last call, its result and the index it returned

vars == <<obj, mem, hs, file, fds, phase, ret>>

Region == 1 .. MaxRegion
Gone   == [live |-> FALSE, cells |-> <<>>]

(* coil_section_t, as far as the object looks: view is COIL_SECT_MODE_VIEW. *)
Slot(data, off, size, view, mapped) ==
  [data |-> data, off |-> off, size |-> size, view |-> view, mapped |-> mapped]
NoSlot == Slot(0, 0, 0, FALSE, FALSE)

(* coil_object_t after coil_obj_init; slots is the sections array, <<>> for *)
(* NULL, and headers the section headers array.                             *)
EmptyObject ==
  [count |-> 0, headers |-> <<>>, slots |-> <<>>, loaded |-> 0,
   map |-> 0, fd |-> NoFd, target |-> 0]

SectionHeader(n, t, size, off) ==
  [name |-> n, target |-> t, size |-> size, off |-> off]
ObjectHeader(k) == [section_count |-> k]
ObjectHeaders  == {ObjectHeader(k) : k \in 0 .. CountMod - 1}
IsHeader(cell) == cell \in ObjectHeaders

Result(op, err, index) == [op |-> op, err |-> err, index |-> index]
Done(op, err) == ret' = Result(op, err, 0)

Called(op) == op \in Calls
Careful(name, cond) == cond \/ Called(name)

-----------------------------------------------------------------------------
(***************************************************************************)
(* Memory                                                                  *)
(***************************************************************************)
CellIn(cells, k) == IF k <= Len(cells) THEN cells[k] ELSE Zero
CellsOf(cells, off, size) == [k \in 1 .. size |-> CellIn(cells, off + k)]
Bytes(s, m) == IF s.size = 0 THEN <<>> ELSE CellsOf(m[s.data].cells, s.off, s.size)

FreeRegions(m) == {r \in Region : ~m[r].live}

(* One of S, if there is any: no caller can tell which. *)
OneOf(S) == IF S = {} THEN {} ELSE {CHOOSE x \in S : TRUE}

(* A region for cells, or 0. *)
Alloc(m, cells) ==
  LET free == FreeRegions(m)
      Taken(r) == [m EXCEPT ![r] = [live |-> TRUE, cells |-> cells]]
  IN  {[r |-> r, mem |-> Taken(r)] : r \in OneOf(free)}
      \cup {[r |-> r, mem |-> m] : r \in IF free = {} \/ MallocMayFail THEN {0} ELSE {}}

Release(m, rs) == [r \in Region |-> IF r \in rs THEN Gone ELSE m[r]]

(* What coil_section_cleanup of a section frees or unmaps. *)
Owned(s) == IF s.data # 0 /\ (~s.view \/ s.mapped) THEN {s.data} ELSE {}

(* Mutant: an empty buffer is not freed. *)
FreedFull(s) == IF s.data # 0 /\ s.size > 0 THEN Release(mem, {s.data}) ELSE mem

(* delete and update free the data of a section that is not a view. *)
Freed(s) == IF ~s.view /\ s.data # 0 THEN Release(mem, {s.data}) ELSE mem

(* Is section i in memory?  The test every operation makes of a slot. *)
Resident(o, i) == o.slots # <<>> /\ i < o.loaded /\ o.slots[i + 1].data # 0

(* The result of making a section: its structure, memory and file position. *)
Got(s, m, p)  == [err |-> "GOOD", s |-> s, mem |-> m, pos |-> p]
Lost(e, m, p) == [err |-> e, s |-> NoSlot, mem |-> m, pos |-> p]

(* coil_section_init at p, filled with cells, which are read up to q. *)
Filled(m, cells, view, p, q) ==
  {IF a.r = 0 THEN Lost("NOMEM", m, p)
   ELSE Got(Slot(a.r, 0, Len(cells), view, FALSE), a.mem, q) : a \in Alloc(m, cells)}

-----------------------------------------------------------------------------
(***************************************************************************)
(* The object by itself                                                    *)
(***************************************************************************)

(* coil_obj_init *)
ObjInit ==
  /\ Called("init")
  /\ phase # "ready"
  /\ obj' = EmptyObject
  /\ phase' = "ready"
  /\ Done("init", "GOOD")
  /\ UNCHANGED <<mem, hs, file, fds>>

(* Does the client hold a view into the object's mapping? *)
ViewsOut == \E h \in Handle : hs[h].view /\ ~hs[h].mapped /\ hs[h].data # 0

(* What the object owns: its loaded sections and its mapping. *)
ObjectOwns(o) ==
  (UNION {Owned(o.slots[j]) : j \in 1 .. o.loaded})
  \cup (IF o.map # 0 THEN {o.map} ELSE {})

(* coil_obj_cleanup closes the descriptor the object was loaded from. *)
ObjCleanup ==
  /\ Called("cleanup")
  /\ phase \in {"ready", "failed"}
  /\ Careful("keep views", ~ViewsOut)
  /\ mem' = Release(mem, ObjectOwns(obj))
  /\ fds' = IF obj.fd = NoFd THEN fds ELSE [fds EXCEPT ![obj.fd].open = FALSE]
  /\ obj' = EmptyObject
  /\ phase' = "raw"
  /\ Done("cleanup", "GOOD")
  /\ UNCHANGED <<hs, file>>

(* coil_obj_set_target_defaults *)
SetTargetDefaults(t) ==
  /\ Called("set_target_defaults")
  /\ phase = "ready"
  /\ obj' = [obj EXCEPT !.target = t]
  /\ Done("set_target_defaults", "GOOD")
  /\ UNCHANGED <<mem, hs, file, fds, phase>>

(* Mutant: the last header is not looked at. *)
NamedButLast(o, n) == {i \in 0 .. o.count - 2 : o.headers[i + 1].name = n}

(* coil_obj_find_section_by_hash: the first header with the hash. *)
Named(o, n) == {i \in 0 .. o.count - 1 : o.headers[i + 1].name = n}

FindSection(n) ==
  /\ Called("find_section")
  /\ phase = "ready"
  /\ ret' = IF Named(obj, n) = {} THEN Result("find_section", "NOTFOUND", 0)
            ELSE Result("find_section", "GOOD", Min(Named(obj, n)))
  /\ UNCHANGED <<obj, mem, hs, file, fds, phase>>

(* Mutant: the array grows by one from what is loaded. *)
GrownShort(o, s) ==
  [j \in 1 .. o.loaded + 1 |-> IF j = o.loaded + 1 THEN s ELSE o.slots[j]]

(* The sections array once section i = count is the client's structure s:  *)
(* what is between the loaded sections and it reads as zero.               *)
Grown(o, s) ==
  [j \in 1 .. o.count + 1 |->
     IF j = o.count + 1 THEN s
     ELSE IF j <= o.loaded THEN o.slots[j] ELSE NoSlot]

(* Mutant: the client's structure keeps its data. *)
HandedOverKept(h) == hs

(* The client's structure no longer owns the data. *)
HandedOver(h) == [hs EXCEPT ![h] = NoSlot]

(***************************************************************************)
(* coil_obj_create_section, from the client's section structure h, which   *)
(* loses its data to the object, or from NULL.                             *)
(* Both reallocations come before anything that shows.                     *)
(***************************************************************************)
CreateSection(n, h) ==
  /\ Called("create_section")
  /\ phase = "ready"
  /\ obj.count < MaxSections
  /\ h \in Handle => hs[h].data # 0
  /\ h \notin Handle => Called("create empty")
                        /\ Careful("create empty after load", obj.slots = <<>>)
  /\ IF Named(obj, n) # {} THEN
       /\ Done("create_section", "EXISTS")
       /\ UNCHANGED <<obj, hs>>
     ELSE
       \/ /\ MallocMayFail
          /\ Done("create_section", "NOMEM")
          /\ UNCHANGED <<obj, hs>>
       \/ LET k     == obj.count
              size  == IF h \in Handle THEN hs[h].size ELSE 0
              named == [obj EXCEPT
                          !.headers = Append(SubSeq(@, 1, k),
                                             SectionHeader(n, obj.target, size, 0)),
                          !.count = (k + 1) % CountMod]
          IN  /\ IF h \in Handle
                   THEN /\ obj' = [named EXCEPT
                                     !.slots = Grown(obj, hs[h]),
                                     !.loaded = IF k >= @ THEN (k + 1) % CountMod ELSE @]
                        /\ hs' = HandedOver(h)
                   ELSE obj' = named /\ hs' = hs
              /\ ret' = Result("create_section", "GOOD", k)
  /\ UNCHANGED <<mem, file, fds, phase>>

(* Mutant: the last loaded section is not moved. *)
ShiftedShort(o, i) ==
  [j \in DOMAIN o.slots |->
     IF j \in i + 1 .. o.loaded - 2 THEN o.slots[j + 1]
     ELSE IF j = i + 1 THEN [o.slots[j] EXCEPT !.data = 0] ELSE o.slots[j]]

(* The sections array without section i, the freed data NULL; the slot the *)
(* last loaded section moved from keeps its copy.                          *)
Shifted(o, i) ==
  LET last    == i = o.count - 1 \/ i >= o.loaded - 1
      cleared == IF Resident(o, i) /\ ~o.slots[i + 1].view
                   THEN [o.slots EXCEPT ![i + 1].data = 0] ELSE o.slots
  IN  [j \in DOMAIN cleared |->
         IF ~last /\ j \in i + 1 .. o.loaded - 1 THEN cleared[j + 1] ELSE cleared[j]]

(* Mutant: loaded_count is decremented even when it is zero. *)
FewerAlways(k) == k - 1

Fewer(k) == IF k > 0 THEN k - 1 ELSE k

(* coil_obj_delete_section *)
DeleteSection(i) ==
  /\ Called("delete_section")
  /\ phase = "ready"
  /\ Careful("delete partly loaded", obj.loaded \in {0, obj.count})
  /\ IF i >= obj.count THEN
       /\ Done("delete_section", "NOTFOUND")
       /\ UNCHANGED <<obj, mem>>
     ELSE
       /\ mem' = IF Resident(obj, i) THEN Freed(obj.slots[i + 1]) ELSE mem
       /\ obj' = [obj EXCEPT
                    !.headers = RemoveAt(@, i + 1),
                    !.slots = Shifted(obj, i),
                    !.count = @ - 1,
                    !.loaded = Fewer(@)]
       /\ Done("delete_section", "GOOD")
  /\ UNCHANGED <<hs, file, fds, phase>>

(***************************************************************************)
(* coil_obj_update_section: the new size goes to the header in any case,   *)
(* the data only to a section that is loaded.                              *)
(***************************************************************************)
UpdateSection(i, h) ==
  /\ Called("update_section")
  /\ phase = "ready"
  /\ hs[h].data # 0
  /\ Careful("update unloaded", i < obj.loaded \/ i >= obj.count)
  /\ IF i >= obj.count THEN
       /\ Done("update_section", "NOTFOUND")
       /\ UNCHANGED <<obj, mem, hs>>
     ELSE
       LET sized == [obj EXCEPT !.headers[i + 1].size = hs[h].size]
           old   == obj.slots[i + 1]
       IN  /\ IF obj.slots # <<>> /\ i < obj.loaded
                THEN /\ mem' = Freed(old)
                     /\ obj' = [sized EXCEPT !.slots[i + 1] = hs[h]]
                     /\ hs' = HandedOver(h)
                ELSE obj' = sized /\ UNCHANGED <<mem, hs>>
           /\ Done("update_section", "GOOD")
  /\ UNCHANGED <<file, fds, phase>>

-----------------------------------------------------------------------------
(***************************************************************************)
(* Loading a section                                                       *)
(***************************************************************************)
Position == IF obj.fd = NoFd THEN 0 ELSE fds[obj.fd].pos

(* A section that is in memory is copied. *)
Copied(i, view) ==
  Filled(mem, Bytes(obj.slots[i + 1], mem), view, Position, Position)

(* Mutant: the section's offset is forgotten. *)
ViewedBase(hdr) == {Got(Slot(obj.map, 0, hdr.size, TRUE, FALSE), mem, Position)}

(* A view of the object's mapping. *)
Viewed(hdr) == {Got(Slot(obj.map, hdr.off, hdr.size, TRUE, FALSE), mem, Position)}

(* What the file has from off on, at most size cells of it. *)
Available(off, size) ==
  IF off >= Len(file) THEN 0
  ELSE IF off + size <= Len(file) THEN size ELSE Len(file) - off

(***************************************************************************)
(* coil_section_loadv at the section's offset.  Past the end of the file   *)
(* it believes the header; of an empty rest the page offset decides.       *)
(***************************************************************************)
MappedFile(off, size) ==
  LET n == IF off > Len(file) THEN size ELSE Available(off, size)
  IN  {IF a.r = 0 THEN Lost("IO", mem, off)
       ELSE Got(Slot(a.r, 0, n, TRUE, TRUE), a.mem, off) :
         a \in Alloc(mem, CellsOf(file, off, n))}
      \cup {Lost("IO", mem, off)}

(***************************************************************************)
(* How many cells one coil_read of size cells at off returns: read(2) may  *)
(* come short of what there is, and returns none only at the file's end.   *)
(***************************************************************************)
ReadCounts(off, size) ==
  IF Available(off, size) = 0 THEN {0} ELSE 1 .. Available(off, size)

(* What coil_read of size cells at off puts into a new buffer. *)
FilledFromFile(off, size, view) ==
  UNION {Filled(mem, CellsOf(file, off, n), view, off, off + n) : n \in ReadCounts(off, size)}

(* Mutant: a failed read does not clean up. *)
ReadFileLeaking(off, size, view) ==
  FilledFromFile(off, size, view)
  \cup {Lost("IO", a.mem, off) : a \in Alloc(mem, CellsOf(file, off, size))}

(* Mutant: the read goes to where the descriptor is. *)
ReadFileUnsought(off, size, view) == FilledFromFile(Position, size, view)

(***************************************************************************)
(* The fd path reads once.  A section that came short is no error: it has  *)
(* the size of what came.  After a failed read coil_section_cleanup leaves *)
(* the buffer of a VIEW alone.                                             *)
(***************************************************************************)
ReadFile(off, size, view) ==
  FilledFromFile(off, size, view)
  \cup {Lost("IO", IF view THEN a.mem ELSE mem, off) :
          a \in {x \in Alloc(mem, CellsOf(file, off, size)) : x.r # 0}}

Fetched(hdr, flags) ==
  LET view == "VIEW" \in flags
  IN  IF view /\ obj.map # 0 THEN Viewed(hdr)
      ELSE IF obj.fd = NoFd \/ hdr.size = 0 THEN Filled(mem, <<>>, view, Position, Position)
      ELSE IF ~fds[obj.fd].open THEN {Lost("IO", mem, Position)}
      ELSE IF "MMAP" \in flags THEN MappedFile(hdr.off, hdr.size)
      ELSE ReadFile(hdr.off, hdr.size, view)

(* Mutant: data are shared instead of copied. *)
KeptShared(array, i, o) ==
  {[slots |-> IF array[i + 1].data = 0 THEN ReplaceAt(array, i + 1, o.s) ELSE array,
    mem |-> o.mem]}

(***************************************************************************)
(* The object's own section i, once the client has s: a view is shared,    *)
(* data are copied if there is memory, what is there already stays.        *)
(***************************************************************************)
Kept(array, i, o) ==
  LET borrowed == o.s.view /\ obj.map # 0 /\ o.s.data = obj.map
  IN  IF array[i + 1].data # 0 /\ ~borrowed THEN {[slots |-> array, mem |-> o.mem]}
      ELSE IF o.s.view
        THEN {[slots |-> ReplaceAt(array, i + 1, o.s), mem |-> o.mem]}
      ELSE {[slots |-> IF a.r = 0 THEN array
                       ELSE ReplaceAt(array, i + 1, Slot(a.r, 0, o.s.size, FALSE, FALSE)),
             mem |-> a.mem] : a \in Alloc(o.mem, Bytes(o.s, o.mem))}

(* The client receives the result o of a load, if it is one. *)
Handed(h, o) ==
  /\ hs' = IF o.err = "GOOD" THEN [hs EXCEPT ![h] = o.s] ELSE hs
  /\ fds' = IF obj.fd = NoFd THEN fds ELSE [fds EXCEPT ![obj.fd].pos = o.pos]
  /\ Done("load_section", o.err)

LoadResident(i, h, flags) ==
  /\ Careful("view of a loaded section", "VIEW" \notin flags)
  /\ \E o \in Copied(i, "VIEW" \in flags) : Handed(h, o) /\ mem' = o.mem
  /\ UNCHANGED <<obj, phase>>

(* Mutant: the new array has one section too few. *)
SectionsArrayShort ==
  IF obj.slots = <<>> THEN [j \in 1 .. obj.count - 1 |-> NoSlot] ELSE obj.slots

(* The sections array, allocated if there is none. *)
SectionsArray ==
  IF obj.slots = <<>> THEN [j \in 1 .. obj.count |-> NoSlot] ELSE obj.slots

(* A sections array too short for the index is overrun. *)
LoadFetched(i, h, flags) ==
  LET array == SectionsArray
      held  == [obj EXCEPT !.slots = array]
  IN  /\ Careful("view of a file", "VIEW" \notin flags \/ obj.map # 0)
      /\ Careful("map a section", "MMAP" \notin flags)
      /\ IF i >= Len(array) THEN
           /\ phase' = "undefined"
           /\ UNCHANGED <<obj, mem, hs, fds, ret>>
         ELSE
           /\ \E o \in Fetched(obj.headers[i + 1], flags) :
                /\ Handed(h, o)
                /\ IF o.err # "GOOD" THEN obj' = held /\ mem' = o.mem
                   ELSE \E k \in Kept(array, i, o) :
                          /\ obj' = [held EXCEPT
                                       !.slots = k.slots,
                                       !.loaded = IF i >= @ THEN i + 1 ELSE @]
                          /\ mem' = k.mem
           /\ UNCHANGED phase

(* coil_obj_load_section into an unused structure of the client's. *)
LoadSection(i, h, flags) ==
  /\ Called("load_section")
  /\ phase = "ready"
  /\ hs[h].data = 0
  /\ IF i >= obj.count THEN
       /\ Done("load_section", "NOTFOUND")
       /\ UNCHANGED <<obj, mem, hs, fds, phase>>
     ELSE IF Resident(obj, i) THEN LoadResident(i, h, flags)
     ELSE
       \/ /\ obj.slots = <<>> /\ MallocMayFail
          /\ Done("load_section", "NOMEM")
          /\ UNCHANGED <<obj, mem, hs, fds, phase>>
       \/ LoadFetched(i, h, flags)
  /\ UNCHANGED file

-----------------------------------------------------------------------------
(***************************************************************************)
(* The file                                                                *)
(***************************************************************************)

(* Cell k of the file after its object header, read as a section header. *)
HeaderAt(k) ==
  LET cell == CellIn(file, k)
  IN  IF cell \notin [name : Names, target : Targets \cup {0},
                                     size : Nat, off : Nat]
        THEN SectionHeader(Zero, 0, 0, 0) ELSE cell

Headers(at, k) == [j \in 1 .. k |-> HeaderAt(at + j)]

(* An object header, all its section headers, and data behind all of them. *)
WellFormed ==
  /\ IsHeader(CellIn(file, 1))
  /\ LET k == file[1].section_count
     IN  /\ Len(file) > k
         /\ \A j \in 1 .. k :
              /\ HeaderAt(1 + j).name \in Names
              /\ HeaderAt(1 + j).size > 0 =>
                   /\ HeaderAt(1 + j).off > k
                   /\ HeaderAt(1 + j).off + HeaderAt(1 + j).size <= Len(file)

(* A client does not load what a failed save left, unless it says so. *)
LoadReady(f) ==
  /\ phase # "ready"
  /\ fds[f].open
  /\ Careful("load torn file", ~IsHeader(CellIn(file, 1)) \/ WellFormed)

(* A load that fails keeps the descriptor; only a count may have arrived. *)
LoadFails(op, err, f, k, p) ==
  /\ obj' = [EmptyObject EXCEPT !.fd = f, !.count = k]
  /\ fds' = [fds EXCEPT ![f].pos = p]
  /\ phase' = "failed"
  /\ Done(op, err)
  /\ UNCHANGED <<mem, hs, file>>

(* coil_obj_load_file: the header and the section headers, from where the  *)
(* descriptor is.                                                          *)
LoadFile(f) ==
  /\ Called("load_file")
  /\ LoadReady(f)
  /\ Careful("no rewind", fds[f].pos = 0)
  /\ LET p    == fds[f].pos
         cell == CellIn(file, p + 1)
         k    == IF IsHeader(cell) THEN cell.section_count ELSE 0
     IN  \/ LoadFails("load_file", "IO", f, 0, p)
         \/ /\ p < Len(file) /\ ~IsHeader(cell)
            /\ LoadFails("load_file", "FORMAT", f, 0, p + 1)
         \/ /\ k > 0
            /\ \/ MallocMayFail /\ LoadFails("load_file", "NOMEM", f, k, p + 1)
               \/ \E n \in ({0} \cup ReadCounts(p + 1, k)) \ {k} :
                    LoadFails("load_file", "IO", f, k, p + 1 + n)
         \/ /\ IsHeader(cell)
            /\ p + k < Len(file)
            /\ obj' = [EmptyObject EXCEPT !.fd = f, !.count = k,
                                          !.headers = Headers(p + 1, k)]
            /\ fds' = [fds EXCEPT ![f].pos = p + 1 + k]
            /\ phase' = "ready"
            /\ Done("load_file", "GOOD")
            /\ UNCHANGED <<mem, hs, file>>

(* coil_obj_mmap maps the whole file; that it holds all the section        *)
(* headers is not verified.                                                *)
Mmap(f) ==
  /\ Called("mmap")
  /\ LoadReady(f)
  /\ \/ LoadFails("mmap", "IO", f, 0, 0)
     \/ /\ file # <<>> /\ ~IsHeader(file[1])
        /\ LoadFails("mmap", "FORMAT", f, 0, 0)
     \/ /\ file # <<>> /\ IsHeader(file[1])
        /\ file[1].section_count > 0 /\ MallocMayFail
        /\ LoadFails("mmap", "NOMEM", f, file[1].section_count, 0)
     \/ /\ file # <<>> /\ IsHeader(file[1])
        /\ \E a \in {x \in Alloc(mem, file) : x.r # 0} :
             /\ mem' = a.mem
             /\ obj' = [EmptyObject EXCEPT
                          !.fd = f, !.map = a.r, !.count = file[1].section_count,
                          !.headers = Headers(1, file[1].section_count)]
        /\ fds' = [fds EXCEPT ![f].pos = 0]
        /\ phase' = "ready"
        /\ Done("mmap", "GOOD")
        /\ UNCHANGED <<hs, file>>

(* Mutant: the sections are not converted. *)
UnmapOutcomesShallow ==
  {[err |-> "GOOD", obj |-> [obj EXCEPT !.map = 0], mem |-> Release(mem, {obj.map})]}

(***************************************************************************)
(* The outcomes of coil_obj_unmap: all the loaded sections that have data  *)
(* get buffers of their own, in an array no longer than they are, or       *)
(* nothing changes.  What the old array owned is not freed.                *)
(***************************************************************************)
UnmapOutcomes ==
  LET full  == {j \in 1 .. obj.loaded : obj.slots[j].data # 0 /\ obj.slots[j].size > 0}
      moves == Injection(full, FreeRegions(mem))
      same  == [err |-> "GOOD", obj |-> obj, mem |-> mem]
      Moved(new) ==
        [err |-> "GOOD",
         obj |-> [obj EXCEPT
                    !.map = 0,
                    !.slots = [j \in 1 .. obj.loaded |->
                      IF j \in full
                        THEN Slot(new[j], 0, obj.slots[j].size, FALSE, FALSE)
                        ELSE NoSlot]],
         mem |-> [r \in Region |->
                    IF r = obj.map THEN Gone
                    ELSE IF r \in Range(new)
                      THEN LET j == CHOOSE j \in full : new[j] = r
                           IN  [live |-> TRUE, cells |-> Bytes(obj.slots[j], mem)]
                    ELSE mem[r]]]
  IN  IF obj.map = 0 THEN {same}
      ELSE {Moved(new) : new \in OneOf(moves)}
           \cup (IF moves = {} \/ (MallocMayFail /\ obj.count > 0)
                THEN {[same EXCEPT !.err = "NOMEM"]} ELSE {})

(* The conditions on a client that converts a mapped object. *)
UnmapReady ==
  obj.map # 0 => /\ Careful("keep views", ~ViewsOut)
                 /\ Careful("unmap partly loaded", obj.loaded \in {0, obj.count})

(* coil_obj_unmap *)
Unmap ==
  /\ Called("unmap")
  /\ phase = "ready"
  /\ UnmapReady
  /\ \E u \in UnmapOutcomes :
       /\ obj' = u.obj
       /\ mem' = u.mem
       /\ Done("unmap", u.err)
  /\ UNCHANGED <<hs, file, fds, phase>>

(***************************************************************************)
(* The layout a save computes: a size from the section if that is in       *)
(* memory, an offset behind the headers and all the sections before.       *)
(***************************************************************************)
SavedSize(o, j) == IF Resident(o, j - 1) THEN o.slots[j].size ELSE o.headers[j].size

(* The offsets of all sections, the first one's being base. *)
Offsets(o, base) ==
  LET off[j \in 1 .. o.count] ==
        IF j = 1 THEN base ELSE off[j - 1] + SavedSize(o, j - 1)
  IN  off

(* Mutant: the headers are not counted in full. *)
LaidOutLow(o) ==
  [j \in DOMAIN o.headers |->
     IF j > o.count THEN o.headers[j]
     ELSE [o.headers[j] EXCEPT !.size = SavedSize(o, j),
                               !.off = Offsets(o, o.count)[j]]]

(* Mutant: the offsets of the last load or save are used again. *)
LaidOutBefore(o) == o.headers

LaidOut(o) ==
  [j \in DOMAIN o.headers |->
     IF j > o.count THEN o.headers[j]
     ELSE [o.headers[j] EXCEPT !.size = SavedSize(o, j),
                               !.off = Offsets(o, 1 + o.count)[j]]]

(* One write per cell: the headers from p on, then the data of every       *)
(* section in memory, wherever the layout puts it.                         *)
WritesOf(o, m, p) ==
  LET data(j) == IF Resident(o, j - 1) THEN Bytes(o.slots[j], m) ELSE <<>>
      put(at, cells) == [k \in 1 .. Len(cells) |-> [at |-> at + k, cell |-> cells[k]]]
  IN  put(p, <<ObjectHeader(o.count)>> \o SubSeq(o.headers, 1, o.count))
      \o FlattenSeq([j \in 1 .. o.count |-> put(o.headers[j].off, data(j))])

(* The file after the first n writes. *)
FileAfter(writes, n) ==
  LET last == Max({Len(file)} \cup {writes[k].at : k \in 1 .. n})
  IN  [c \in 1 .. last |->
         LET hits == {k \in 1 .. n : writes[k].at = c}
         IN  IF hits # {} THEN writes[Max(hits)].cell ELSE CellIn(file, c)]

AllResident(o) ==
  \A i \in 0 .. o.count - 1 : Resident(o, i) \/ o.headers[i + 1].size = 0

(***************************************************************************)
(* coil_obj_save_file: unmap, lay out, write.  The new offsets stay in the *)
(* object even if only the first n cells reach the file.                   *)
(***************************************************************************)
SaveFile(f) ==
  /\ Called("save_file")
  /\ phase = "ready"
  /\ UnmapReady
  /\ Careful("no rewind", fds[f].pos = 0)
  /\ Careful("overwrite", file = <<>>)
  /\ Careful("save unloaded", AllResident(obj))
  /\ \E u \in UnmapOutcomes :
       IF u.err # "GOOD" THEN
         /\ Done("save_file", u.err)
         /\ UNCHANGED <<obj, mem, file, fds>>
       ELSE
         LET saved  == [u.obj EXCEPT !.headers = LaidOut(u.obj)]
             writes == WritesOf(saved, u.mem, fds[f].pos)
             total  == IF fds[f].open THEN Len(writes) ELSE 0
         IN  /\ obj' = saved
             /\ mem' = u.mem
             /\ \E n \in 0 .. total :
                  /\ file' = FileAfter(writes, n)
                  /\ fds' = IF n = 0 THEN fds
                            ELSE [fds EXCEPT ![f].pos = writes[n].at]
                  /\ Done("save_file", IF n = Len(writes) THEN "GOOD" ELSE "IO")
  /\ UNCHANGED <<hs, phase>>

-----------------------------------------------------------------------------
(***************************************************************************)
(* The client                                                              *)
(***************************************************************************)

(* coil_section_init and coil_section_write into an unused structure. *)
FillHandle(h, cells) ==
  /\ Called("section")
  /\ hs[h].data = 0
  /\ \E o \in Filled(mem, cells, FALSE, 0, 0) :
       /\ hs' = [hs EXCEPT ![h] = o.s]
       /\ mem' = o.mem
       /\ Done("client", o.err)
  /\ UNCHANGED <<obj, file, fds, phase>>

(* coil_section_cleanup of a structure of the client's. *)
DropHandle(h) ==
  /\ hs[h].data # 0
  /\ mem' = Release(mem, Owned(hs[h]))
  /\ hs' = [hs EXCEPT ![h] = NoSlot]
  /\ Done("client", "GOOD")
  /\ UNCHANGED <<obj, file, fds, phase>>

(***************************************************************************)
(* open(2), lseek(2) to the start, ftruncate(2) with it, and close(2).  The *)
(* client does not cut off a file that sections are still to be read from. *)
(***************************************************************************)
OpenFd(f) ==
  /\ ~fds[f].open
  /\ fds' = [fds EXCEPT ![f] = [open |-> TRUE, pos |-> 0]]
  /\ Done("client", "GOOD")
  /\ UNCHANGED <<obj, mem, hs, file, phase>>

Rewind(f) ==
  /\ Called("rewind")
  /\ fds[f].open
  /\ fds' = [fds EXCEPT ![f].pos = 0]
  /\ Done("client", "GOOD")
  /\ UNCHANGED <<obj, mem, hs, file, phase>>

Truncate(f) ==
  /\ Called("truncate")
  /\ fds[f].open
  /\ phase = "ready" => obj.map = 0 /\ AllResident(obj)
  /\ fds' = [fds EXCEPT ![f].pos = 0]
  /\ file' = <<>>
  /\ Done("client", "GOOD")
  /\ UNCHANGED <<obj, mem, hs, phase>>

CloseFd(f) ==
  /\ fds[f].open
  /\ Careful("close owned fd", obj.fd # f)
  /\ fds' = [fds EXCEPT ![f].open = FALSE]
  /\ Done("client", "GOOD")
  /\ UNCHANGED <<obj, mem, hs, file, phase>>

-----------------------------------------------------------------------------
Init ==
  /\ obj = EmptyObject
  /\ mem = [r \in Region |-> Gone]
  /\ hs = [h \in Handle |-> NoSlot]
  /\ file \in {<<>>, <<Zero>>}
  /\ fds = [f \in Fd |-> [open |-> FALSE, pos |-> 0]]
  /\ phase = "raw"
  /\ ret = Result("none", "GOOD", 0)

Managing ==
  \/ ObjInit \/ ObjCleanup \/ Unmap
  \/ \E t \in Targets : SetTargetDefaults(t)
  \/ \E n \in Names : FindSection(n)
                      \/ \E h \in Handle \cup {NoHandle} : CreateSection(n, h)
  \/ \E i \in 0 .. MaxSections : DeleteSection(i)

Exchanging ==
  \E h \in Handle :
    \/ \E cells \in Contents : FillHandle(h, cells)
    \/ DropHandle(h)
    \/ \E i \in 0 .. MaxSections :
         UpdateSection(i, h) \/ \E flags \in SUBSET {"VIEW", "MMAP"} : LoadSection(i, h, flags)

Filing ==
  \E f \in Fd : LoadFile(f) \/ Mmap(f) \/ SaveFile(f) \/ OpenFd(f) \/ Rewind(f) \/
            Truncate(f) \/ CloseFd(f)

Next == Managing \/ Exchanging \/ Filing

Spec == Init /\ [][Next]_vars
-----------------------------------------------------------------------------
(***************************************************************************)
(* Properties                                                              *)
(***************************************************************************)
SlotType ==
  [data : 0 .. MaxRegion, off : Nat, size : Nat, view : BOOLEAN, mapped : BOOLEAN]
HeaderType ==
  [name : Names \cup {Zero}, target : Targets \cup {0}, size : Nat, off : Nat]
ObjectType ==
  [count : 0 .. CountMod - 1, headers : Seq(HeaderType), slots : Seq(SlotType),
   loaded : 0 .. CountMod - 1, map : 0 .. MaxRegion, fd : Fd \cup {NoFd},
   target : Targets \cup {0}]
Cells == (UNION {Range(cells) : cells \in Contents})
         \cup {Zero} \cup ObjectHeaders \cup HeaderType

TypeOK ==
  /\ obj \in ObjectType
  /\ mem \in [Region -> [live : BOOLEAN, cells : Seq(Cells)]]
  /\ hs \in [Handle -> SlotType]
  /\ file \in Seq(Cells)
  /\ fds \in [Fd -> [open : BOOLEAN, pos : Nat]]
  /\ phase \in {"raw", "ready", "failed", "undefined"}

(* The arrays are as long as the counts say: every access of the           *)
(* operations to sectheaders[i], i < section_count, and to sections[i],    *)
(* loaded or about to be loaded, is inside the array.                      *)
ArraysLongEnough ==
  phase # "raw" =>
    /\ phase = "ready" => obj.count <= Len(obj.headers)
    /\ obj.loaded <= obj.count
    /\ obj.slots # <<>> => obj.count <= Len(obj.slots)
    /\ obj.slots = <<>> => obj.loaded = 0

(* Every owner of memory: the object for its mapping and each loaded       *)
(* section, the client for each of its structures.                         *)
Owners ==
  {<<"object", j>> : j \in {k \in 1 .. obj.loaded : Owned(obj.slots[k]) # {}}}
  \cup {<<"mapping", 1>> : k \in {obj.map} \ {0}}
  \cup {<<"client", h>> : h \in {k \in Handle : Owned(hs[k]) # {}}}

OwnedBy(w) ==
  CASE w[1] = "object"  -> obj.slots[w[2]].data
    [] w[1] = "mapping" -> obj.map
    [] w[1] = "client"  -> hs[w[2]].data

(* No two owners for one region and none for a freed one: nothing is freed *)
(* or unmapped twice, whatever was copied, handed over and shifted.        *)
NothingShared ==
  /\ \A w \in Owners : mem[OwnedBy(w)].live
  /\ \A w, x \in Owners : OwnedBy(w) = OwnedBy(x) => w = x

(* Every region has an owner: what the object let go of is freed. *)
NothingLeaks == \A r \in Region : mem[r].live => \E w \in Owners : OwnedBy(w) = r

(* What is borrowed is borrowed from the object's live mapping. *)
ViewsBacked ==
  LET Backed(s) == s.view /\ ~s.mapped /\ s.data # 0 => s.data = obj.map
  IN  /\ \A j \in 1 .. obj.loaded : Backed(obj.slots[j])
      /\ \A h \in Handle : Backed(hs[h])

(* No name is in the directory twice: find_section finds every section. *)
UniqueNames ==
  phase = "ready" =>
    \A j, k \in 1 .. obj.count : obj.headers[j].name = obj.headers[k].name => j = k

(* What a section of the object holds, in memory or still in the file. *)
SectionBytes(i) ==
  IF Resident(obj, i) THEN Bytes(obj.slots[i + 1], mem)
  ELSE IF obj.fd = NoFd THEN <<>>
  ELSE CellsOf(file, obj.headers[i + 1].off, obj.headers[i + 1].size)

-----------------------------------------------------------------------------
(***************************************************************************)
(* What headers and comments say of loading and saving                     *)
(***************************************************************************)

(* coil_obj_load_section takes COIL_SECT_MODE_* and COIL_SLOAD_* in one    *)
(* argument and reads all of it as the latter: MODIFY (1) is SLOAD_VIEW.   *)
ModifyFlags == {"VIEW"}

(* A section loaded with COIL_SECT_MODE_MODIFY is "Loaded object (RW)".    *)
ModifyIsWritable ==
  [][\A i \in 0 .. MaxSections, h \in Handle :
       LoadSection(i, h, ModifyFlags) /\ ret'.err = "GOOD" => ~hs'[h].view]_vars

(* "Save object to file": after a successful save the file holds the       *)
(* object, all sections with their bytes.                                  *)
SaveIsComplete ==
  [][ret'.op = "save_file" /\ ret'.err = "GOOD" =>
       /\ WellFormed'
       /\ file'[1].section_count = obj.count
       /\ \A i \in 0 .. obj.count - 1 :
            LET hdr == HeaderAt(2 + i)'
            IN  /\ hdr.name = obj.headers[i + 1].name
                /\ CellsOf(file', hdr.off, hdr.size) = SectionBytes(i)]_vars
=============================================================================

# A verification project for libcoil-dev

libcoil-dev reads, edits and writes COIL object files: a C library of some two
thousand lines whose difficulty is in who owns which buffer, in what a failed
call leaves behind, in encoders and decoders that have no length in common,
and in the orders in which a client, or the threads of one, call it. This
directory models it in TLA+, checks the models with TLC, and proves the
invariants of sections, objects, instructions and memory with TLAPS for all
values of the constants, and that a section implements the byte stream it
promises.

Line numbers refer to the repository: `obj.c:433` is line 433 of `src/obj.c`.

## The system

| Component | State | Operations | Interacts with |
|---|---|---|---|
| Section buffer (`sect.c`, `mem.c`) | the heap block behind a section | init, resize, ensure_capacity, compact, the growing half of write | malloc, free, memcpy |
| Section (`sect.c`) | `coil_section_t`: data, capacity, size, read and write cursors, mode, mapping | init, cleanup, write, read, putstr, getstr, ensure_capacity, compact, reset, seek_read, seek_write, load, loadv, serialize | buffer; read, write, lseek, mmap |
| Object (`obj.c`) | `coil_object_t`: header, section headers, loaded sections and their count, mapping, descriptor, target defaults | init, cleanup, set_target_defaults, load_file, mmap, unmap, save_file, load_section, create_section, delete_section, update_section, find_section | sections, whose data it takes over, copies or lends; the file; the descriptor, which the client opened |
| File I/O (`file.c`) | none | open, close, read, write, seek | system calls |
| Memory (`mem.c`, `mem.h`) | none of its own; the heap and the mappings | malloc, calloc, realloc, free, page-aligned mmap and munmap, alignment, memcpy family | system calls; sets the last error |
| Instructions (`instr.c`) | none; writes through a section, reads a section's bytes | encode and decode instruction headers, operands with and without offset, operand data | sections |
| Last error (`err.c`) | one thread-local code | set, get, name | every failing call |
| Logging (`log.c`) | the level threshold | set level, log | output |

What is hard here:

* **Ownership.** A section's data is freed by whoever owns it, and that is
  encoded three ways: `data` is not NULL, `mode` is not VIEW, `is_mapped`. Sections
  are copied as structures between the client and the object (`obj.c:579`, `666`,
  `770`, `822`), and each copy is a hand-over, a copy of the bytes or a loan.
* **Two arrays.** `sectheaders` has `section_count` entries, `sections` has some
  other number, and `loaded_count`, the highest index loaded plus one, says how far to look. Create, delete, update,
  load and unmap each maintain the three by hand.
* **Failures half way.** Every malloc, read and write can fail, reads and writes can be short, and a
  save is a sequence of writes.
* **Unsigned sizes.** Remaining bytes are computed as differences.
* **A shared file position.** The object reads through a descriptor the client
  goes on using, and mixes relative writes with absolute seeks.
* **Two sides of one format.** How much the decoder of operand data takes is what
  `coil_value_type_size` makes of a header another call wrote; the formats of the
  opcodes decide how long a header is. An operand with an offset is two writes,
  and the second may fail alone. A reader may follow a writer through a section
  that is still growing.
* **Threads.** The library starts none, but keeps its last error per thread and one
  log threshold for all of them, and ends the program on a fatal error.

### What makes each component correct

* **Section**: it owns exactly one buffer of its capacity, or one mapping; cursors stay inside; no byte
  nobody wrote becomes visible; a call that fails changes nothing; pointers into
  it die only when the buffer has to grow or is compacted; and altogether it is a byte stream.
* **Object**: every region has exactly one owner; loans do not outlive the
  mapping; the arrays are as long as the code believes; names are unique; and
  altogether it is a directory of named byte strings that a save carries to disk and a
  load brings back, as far as its read goes.
* **Instructions**: a section is a queue of pieces (headers, operands, data): what was
  encoded stays intact, the decoders take exactly what the encoders wrote, in order, and a
  reader that goes on calling gets all of it; bytes nobody set are never handed out.
* **Memory, last error, log**: a program holds exactly the blocks of the heap and
  the mappings it believes it has; a thread that is told NULL finds the reason of that call;
  a fatal error ends the program.

## Modules

| Module | What it is |
|---|---|
| `SectionBuffer` | The heap and the internal routines of `sect.c` that size a buffer. No variables. A routine that may fail is the set of its outcomes, so that a caller that goes on after it is still one step. |
| `CoilSection` | One section, its heap, its mappings, one file and a client: one action per public operation. |
| `ByteStream` | What a section promises: bytes, two cursors, a file. No buffers, capacities or mappings. |
| `MCSection` | CoilSection for TLC, and the refinement mapping to ByteStream. |
| `SectionBufferProofs` | Lemmas about the heap and images, for the three modules that prove something on top of SectionBuffer. |
| `CoilSectionProofs` | The inductive invariant of CoilSection and the theorems. |
| `ByteStreamProofs` | That CoilSection implements ByteStream. |
| `CoilObject` | One object, the client's section structures, the regions of memory, one file and its descriptors: one action per public operation. |
| `SectionDirectory` | What an object promises: named byte strings in memory and on disk, and which of them a load may still truncate. |
| `MCObject` | CoilObject for TLC, and the refinement mapping to SectionDirectory. |
| `DataProofs` | Lemmas about naturals, sequences and functions by recursion, among them induction in the form of a least counterexample. |
| `CoilObjectProofs` | The inductive invariants of CoilObject, and the theorems about its arrays, ownership and names. |
| `DirectoryProofs` | That a save of CoilObject that succeeds is complete. |
| `InstrFormat` | The binary form of instructions: every encoder as the set of its outcomes on a section, every decoder as a function of bytes, position and the caller's memory. No variables. |
| `CoilInstr` | A writer and a reader of one section: one action per encoder and decoder, and the rewind after a failure; the refinement mapping to InstrStream. |
| `InstrStream` | What encoding and decoding promise: a queue. |
| `MCInstr` | CoilInstr for TLC. |
| `CoilInstrProofs` | The inductive invariant of CoilInstr, the theorems, and the safety half of the refinement. |
| `CoilMem` | The threads of a program on `mem.c`, `err.c` and `log.c`: one action per operation. |
| `MCMem` | CoilMem for TLC. |
| `CoilMemProofs` | The inductive invariant of CoilMem and the theorems. |

### From code to model

**Sections.** The variable `sect` is the structure, field by field, without its name. `data`
is `NULL`, a heap address, or `MAPPED`; `map_base` is represented by the file
offset it maps (`map_start`) and `map_off`, the distance of `data` from it. A heap address
has an image, the function from offsets to cells; `Junk` is what malloc returns. A copy past
the end of a block makes its image larger, which `OwnsExactly` sees. `coil_size_t`
counts modulo `SizeMod`, malloc grants at most `MaxAlloc` bytes, less than half of
that, as on every real machine. `phase` is the client's: a section is used between
init or a load and cleanup. `ret` is what the last call returned. A mapping shows
the file as it is now: the library maps MAP_PRIVATE and read-only, and
whether such a mapping sees later writes is unspecified; following the file is the
case Linux shows, and the one that could surprise.

**Objects.** A section's data is in a numbered region, a heap block or a mapping.
`slots` is the `sections` array with its real length, `headers` the
section headers, `loaded` is `loaded_count`. The file is a sequence of
cells of size 1: an object header, a section header or a byte. Names are their hashes. The
mapping of an object is the file at the time of `coil_obj_mmap`.
Slots keep data, offset, size and the two flags that decide ownership; capacity
and cursors are the business of CoilSection. The memory of the two arrays
themselves is not counted: `unmap` in fact also drops the old arrays without
freeing them. An operation that would run past the sections array ends in the phase
"undefined". A read returns any number of the cells there are, at least one (`ReadCounts`): `coil_read` passes on what
read(2) returns (`file.c:56`), and `load_section` takes a section that came short for the section (`obj.c:630-637`,
"a warning but not fatal"). Mapping a single section in `load_section` (`MappedFile`) is the
outcome of `coil_section_loadv` in one line, without pages.

**Instructions.** `CoilInstr` composes `InstrFormat` with `SectionBuffer`: an
encoder is one or two `WriteOutcomes` on a section that grows, so that each may fail
for want of memory. Structures are laid out as the compiler lays them out, with the
widths of the code (a header of a DEF is 16 bytes, seven of them padding that holds
`Junk`). A decoder is a function: `out` is the caller's memory behind the out-parameters,
which also a refused call changes (`fmt` at `instr.c:199`, the header at `instr.c:273`, `valsize` at
`instr.c:365`). The writer keeps to the grammar of `types.h:109`: a header, then for each operand its
header and its data; `enc` is what it still owes. After a failure it seeks back to where the call
began and may write something else. `NamedSize` is how much data a writer encodes for a
value type, from the names of `types.h`; `coil_value_type_size` is what the decoder takes: that they
agree is a property, not an assumption. `sent` and `got` are histories. The section is
the owned section of CoilSection; instead of its read cursor the reader keeps its own
position, as the `pos` parameters of the decoders do.

**Memory.** A call is one step: what threads share is the allocator, which is thread-safe, and an
integer. `held` and `maps` are what the program believes it has; `heap` and `mapped` are what it has.
`told` is the return value of each thread's last call, so that `coil_last_error` can be
compared with it. Words are modulo `SizeMod`, and sizes may wrap when they are rounded up to a page.
A call that succeeds leaves the last error as it was, as in the code. `munmap` may fail as `mmap` may, and the mapping
stays. With the model of the
log, `fatal` and `running` are the call of exit(3) at `log.c:73`.

**The client.** `Calls` is the set of operations and of *liberties* a client
takes. `Careful(name, cond)` in a guard means: a client whose `Calls` lack `name` keeps
to `cond`. The clients of the runs are more careful than the repository's own tests: `tests/test_mmap.c:165-182` keeps a view
over an unmap of an object that is loaded in part. The code is sound for careful clients (the passing runs), and each
liberty makes it fail, as shown below. They are the conditions the library's headers do
not state:

| Liberty | A careful client instead |
|---|---|
| `keep views` | cleans up its views before cleanup, unmap or save of the mapped object |
| `create empty after load` | creates sections from NULL only while no sections are in memory |
| `delete partly loaded` | deletes only when none or all of the sections are loaded |
| `update unloaded` | updates only loaded sections |
| `view of a loaded section`, `view of a file` | asks for views of mapped objects only, once per section |
| `map a section` | does not use COIL_SLOAD_MMAP |
| `unmap partly loaded` | unmaps only when none or all of the sections are loaded |
| `no rewind` | loads from and saves to a descriptor at position 0 |
| `overwrite` | saves to an empty file |
| `save unloaded` | loads every section before a save |
| `close owned fd` | leaves closing to the object |
| `load torn file` | does not load what a failed save left behind |
| `lseek past the end` (CoilSection) | does not move the descriptor past the end of the file, or else uses no views |
| `unknown opcode` (CoilInstr) | encodes opcodes that have a format |
| `wide values` | does not use I128 and U128 |
| `bare offset header` | writes operands of type OFF by `coil_operand_encode_off` only |
| `typed offsets` | gives offsets to operands of type OFF only |
| `realloc to zero` (CoilMem) | frees a block by `coil_free` |

## Runs

Deadlock is checked in every run: a client can always go on (in `memory` the program
that has exited stutters).

| Run | Question | Bounds |
|---|---|---|
| `section` | Does an owned section keep its invariants and implement ByteStream, whatever fails? | 2 addresses (old and new buffer), 2 byte values, buffers up to 3 with default 2, so that growth by doubling, growth to the minimum, refusal of 0 and of too much all happen; writes up to 2; file up to 2, and a position that may be past its end, so that serialize leaves a gap; sizes modulo 8 |
| `section_view` | Do views show the right bytes, and is what was mapped unmapped? | file of 3 bytes, pages of 2: positions at, inside and past the first page; mappings up to 4 |
| `section_strings` | Is every string handed out terminated? | a buffer of 4, strings of 0 to 2 characters, any seeks: a string over the end of another, over two others, and over half of one |
| `object_memory` | Ownership, arrays and names of an object in memory | 2 sections, 2 names, contents of 0 to 2 bytes, 4 regions (2 sections, a handle, one more), any malloc fails |
| `object_file` | The same across save, load and lazy reading | 2 sections of 1 or 2 bytes (so that offsets depend on sizes, and a read of 2 may return 1), 3 regions; every write and read may fail or be short |
| `object_overwrite` | Saves over older contents | 1 section of 1 or 2 bytes with update, reload and mapping; 3 regions; rewind and truncation |
| `object_views` | Borrowed data | 2 sections of 2 different bytes, so that a read may be short, 3 regions, conversion by unmap and by save |
| `instr` | Does a reader that follows a writer get everything as it was encoded, whatever growth fails? | 5 opcodes: one without operands, one each with a plain, a flag and a value header and one operand, one with three operands; values of 1, 4, 8 and no bytes; operands with and without offset; 5 pieces; a buffer of 4 that grows up to 64 at two addresses, so that both writes of an offset may grow, move and fail; words with no byte in common; a reader with room for 4 |
| `memory` | Are blocks, mappings and errors accounted for with two threads? | 2 blocks of up to 2 bytes, 3 pages of 4 bytes, sizes modulo 16: 0, below, at and above a page, all pages, and 13, which rounds to 0 |

The runs of objects with a file compare states by `ButResult`, all variables but `ret`: what an operation does never
depends on the result of the one before, and TLC checks the properties of steps on every step it makes. A wrong result
could hide only in a step that changes nothing else and returns what the last call returned; `object_memory`, which has the
calls that answer without changing anything (find, and the refusals), compares whole states.

Two sections are the smallest number with a first and a last, a loaded and an
unloaded one, and a shift; the one violation that needs three has a run of
its own. Descriptors and handles are one each: the object stores only one descriptor, and a
second handle adds nothing but another owner of the same kind. `CountMod`, the modulus of the
16-bit counts, is 3 in `object_memory`: the object holds as many sections as the counts can say (65535
in the code), and one fewer than wraps. In `instr` sizes do not wrap (nothing in the encoders subtracts; a wrap
needs a section of 2^64 bytes), and three operands, one growth between any two writes and one failure
before, between and after them are reached with five pieces.

What the passing runs show:

* section: `CursorsInBounds`, `OwnsExactly`, `NoJunkExposed`, `FailureChangesNothing`,
  `PointersSurvive`, `ViewWithinFile`, `ViewStartsAtPosition`, `StringsTerminated`, and
  `RefinesByteStream`, the whole behaviour as the client sees it;
* object: `ArraysLongEnough`, `NothingShared`, `NothingLeaks`, `ViewsBacked`,
  `UniqueNames`, `SaveIsComplete`, and `RefinesDirectory`;
* instructions: `EncodedIntact`, `ReaderBetweenPieces`, `JunkOnlyInPadding`, and
  `RefinesInstrStream`, which includes that a reader that goes on calling gets everything;
* memory: `HeldIsLive`, `MappingsExact`, `FailureExplained`, `FatalEnds`.

The refinements are what a test reaches least: every interleaving of operations
and failures must look to the client like one step of a ten-line specification. A section's
bytes in SectionDirectory are in the object's buffer, in its mapping or still in the
file, and no load, unmap, save or delete may change them as it moves them about, with one exception that
`SectionDirectory` states: the load that reads a section from the file may come short. It succeeds, the client gets
a beginning of the section, and the object keeps the same beginning, if it has memory for a copy, and saves it
from then on. Only a section that is still stored in the file (`stored`) can be cut, and only by
its own load; its name, its target and every other section are as they were, and a section of one
byte or in a mapping never comes short.

### Where code and documentation disagree

Three runs check one sentence of a header, a comment or a test each, and TLC finds
a sequence of calls that refutes it. `PROJECT.json` quotes the sentences.

| Run | What the code does |
|---|---|
| `section_view_past_end` | the remaining size wraps when the descriptor is past the end (`sect.c:354`) |
| `object_modify` | COIL_SECT_MODE_MODIFY is COIL_SLOAD_VIEW (`obj.c:524`) |
| `object_delete_partly` | the slot a section was shifted from keeps its pointer (`obj.c:433`) |

The other liberties fail as well. Adding one to `Calls` or `Liberties` of a run shows it:

| Liberty | Property | What the code does |
|---|---|---|
| `unmap partly loaded` | `ArraysLongEnough` | unmap makes a sections array that is too short (`obj.c:278`) |
| `save unloaded` (in `object_file`, with "rewind" and `overwrite`) | `SaveIsComplete` | sections that are not loaded are left out of a save that succeeds (`obj.c:386`) |
| `view of a loaded section`, `view of a file` | `NothingLeaks` | VIEW on a heap copy, which nobody frees (`obj.c:551`, `620`) |
| `create empty after load` | `ArraysLongEnough` | section_count grows without the array (`obj.c:784`) |
| `map a section` | `NothingShared` | one mapping gets two owners (`obj.c:666`) |
| `update unloaded` (in `object_file`, with "update_section") | `RefinesDirectory` | update of an unloaded section takes the size only (`obj.c:812`) |
| `no rewind` | `SaveIsComplete` | headers go to the position, data to absolute offsets (`obj.c:370`, `388`) |
| `keep views` | `ViewsBacked` | the mapping goes away under the client's views (`obj.c:320`) |
| `unknown opcode` (and 6 among `Ops`) | `RefinesInstrStream` | the encoder takes opcodes of `types.h` that the decoder has no format for (`instr.c:395`): the reader stops for ever |
| `wide values` (and 4 among `ValueTypes`) | `ReaderBetweenPieces` | I128 and U128 have no case and are 0 bytes to the decoder (`instr.c:302`), which takes the data for the next piece |
| `bare offset header` | `EncodedIntact` | a header of type OFF without an offset is written, and read with one (`instr.c:91`, `276`) |
| `typed offsets` | `EncodedIntact` | `coil_operand_encode_off` does not use its type: OFF takes its place, and the real one is not in the section (`instr.c:119`; `types.h:275` says that it follows) |
| `realloc to zero` | `HeldIsLive`, `FailureExplained` | frees the block and returns NULL without an error (`mem.c:104`) |

Three properties fail without a liberty, under conditions the runs avoid. `AlignmentHonoured` with
`Alignments = {8}` in `memory`: an alignment above the page size is accepted and not used (`mem.c:26`;
`mem.h:30`). `NothingLeaks` with `CountMod = 2` in `object_memory`: the count wraps to 0 and the
sections are lost (`obj.c:784`). `NothingLeaks` in `object_views`, which does not check it: unmap
drops a section that was created in the mapped object (`obj.c:323`).

More are visible in the source:

* `coil_section_compact` of an owned, empty
  section asks malloc for 0 bytes and fails with NOMEM (`sect.c:244`), where the header knows only
  BADSTATE; `coil_section_ensure_capacity` refuses every view (`sect.c:86`), where the header promises
  to copy it;
* a section whose read came short is loaded with success, truncated, and the next save makes that permanent
  (`obj.c:634`); `obj.h:183` has COIL_ERR_IO for section data that cannot be read;
* `coil_obj_cleanup` closes a descriptor that the client opened
  and may have closed (`obj.c:75`);
* `coil_memcmp` returns 0, "equal", for a NULL argument (`mem.c:166`);
* headers of DEF carry seven uninitialised bytes of padding into the section and the file (`instr.c:73`);
* `instr.c:315` and `320` name COIL_VAL_F32 and COIL_VAL_F64, which `types.h` has commented out;
* `tests/test_instr.c:94` encodes four bytes of data for a PTR operand, for which the decoder takes eight.

### Fairness and liveness

Sections, objects and memory: none is assumed. The library runs only when called, every call returns after bounded
loops, and nothing waits, so that there is no liveness to state.

Instructions: `WF_vars(Decode)`, a reader that goes on calling. A decoder that refuses returns at once and
leaves the position to the caller, and nothing in the library keeps a caller from calling again, so that
weak fairness is no more than a loop around the decoder that is not ended early. There is no fairness
for the writer. Under it the reader receives every piece that is encoded (`WF_vars(Receive)` of
InstrStream): it is never stuck before a piece that is complete, asks again with more
room when it is told how much, and is not led astray by what a failed call left behind.

## Proofs

`CoilSectionProofs` proves for every heap, byte set, file size, page size, width of `coil_size_t`
and client protocol, from `BufferAssumption` and `SectionAssumption`:

| Theorem | Statement |
|---|---|
| `Invariance` | `Spec => []IInv` |
| `TypeCorrect` | `Spec => []TypeOK` |
| `CursorSafety` | `Spec => []CursorsInBounds` |
| `Ownership` | `Spec => []OwnsExactly` |
| `NoJunk` | `Careful => (Spec => []NoJunkExposed)` |
| `ViewInside` | `Careful => (Spec => []ViewWithinFile)` |
| `FailureIsClean` | `Spec => FailureChangesNothing` |
| `PointersStable` | `Spec => PointersSurvive` |
| `StringSafety` | `OnlyStrings => (Spec => []StringsTerminated)` |
| `ViewsStartThere` | `Careful => (Spec => ViewStartsAtPosition)` |
| `ImplementsByteStream` (ByteStreamProofs) | `Careful => (Spec => RefinesByteStream)` |

`Careful` (in the proofs) is a client that never moves the descriptor past the end of its file, or else never
calls loadv; `section_view_past_end` shows that `ViewInside` fails without it. `OnlyStrings` is a client that fills
its section by putstr alone, in any order and from any cursor: write, load and loadv bring bytes of
any value, and a string at their end has no terminator.

The argument. `CursorsInBounds` and `OwnsExactly` are not inductive one by one: that
a resize does not copy past the old block needs `size <= capacity`
*and* that the block has exactly `capacity` cells; that the doubling does not wrap to a smaller
capacity needs the capacity to be at most `MaxAlloc`, which holds because it is the
size of a block that malloc granted. `IInv` is therefore the conjunction of types, cursors,
ownership and the file's type. The lemmas go bottom-up: `MallocFacts`, `FreeFacts` and `OverlayInside`
about the heap; `ResizeFacts`, `EnsureFacts`, `CompactFacts`, `InitFacts` and
`WriteFacts` about the sets of outcomes, each saying that every outcome is a
section that owns exactly one block; one lemma per action; and `StepIInv`,
by cases on `Next`. For the bytes, `NoJunk` carries the content along: a fresh block is junk, and
every operation that raises `size` has filled what it uncovers.

The two action properties follow the same ladder with a weaker hypothesis: `ResizeSteady`,
`EnsureSteady`, `CompactSteady` and `WriteSteady` say of each set of outcomes that a failure is
the state before the call and that the data pointer moves only with the capacity, up for a growth
and down for `compact`; the last needs `size <= capacity`, which is where `IInv` comes in.

`StringSafety` says of every offset getstr accepts that a terminator follows inside the section, whatever was
overwritten. The strengthening, `TableOK`, is one fact: the content is empty or its last byte is a terminator. A
string that ends inside the content leaves the last byte alone, and one that ends at or behind it becomes the last.

`ImplementsByteStream` is the refinement step by step. The mapping (`MCSection`) makes a sequence of the cells below
`size`, of the file, and of what a read returned. `SeenOK` derives from `IInv` what these sequences are: all
bytes (`BytesOK`, `DiskOK`), and for a view the part of the file from `Base` on (`ViewOK`), also after the file was
written to. Then one lemma for each action (`WriteRefines`, `LoadRefines`, `SerializeRefines`, ...) says which
action of ByteStream it is; growing, compacting, moving the buffer and failing are the ones that must
change nothing. `SpliceFacts` and `PaddedFacts` describe the abstract write as a function of
the index, `EnsureContent`, `CompactContent` and `WriteContent` the concrete one.

### Instructions

`CoilInstrProofs`, for all opcodes, flags, operand and value types, words and offsets, every heap and
every pattern of failures, from `BufferAssumption`, `CodeAssumption` (bytes are bytes, and an
offset can be allocated) and `InstrAssumption`. All of them are
about `Careful == Liberties = {}`; the table above shows that each liberty breaks one.

| Theorem | Statement |
|---|---|
| `Invariance` | `Careful => (Spec => []IInv)` |
| `TypeCorrect` | `Careful => (Spec => []TypeOK)` |
| `EncodedStaysIntact` | `Careful => (Spec => []EncodedIntact)` |
| `ReaderStaysBetweenPieces` | `Careful => (Spec => []ReaderBetweenPieces)` |
| `JunkStaysInPadding` | `Careful => (Spec => []JunkOnlyInPadding)` |
| `ImplementsInstrStream` | `Careful => (Spec => Stream!Safe)` |

The argument. None of the properties is inductive. That a decoder finds what its encoder wrote needs to
know which kind of piece is there, and so the grammar: `Follows(owed, due, r)` says what may be written
when so many operands and so many bytes of data are to come, and `Filed` says that every piece of `sent`
follows the one before it and lies in the section as `Layout` has it. That the reader waits, when it
has caught up, needs to know what can be behind the last piece: `Behind` says nothing, or the header of an
operand whose offset could not be written, which `coil_operand_decode` refuses because it tests
the boundary twice. `WriterInv` is these with the ownership of the buffer, `ReaderInv` says that what was
got is a beginning of what was sent, and `IInv` is both. The lemmas go bottom-up: `OwnedResize`,
`OwnedEnsure`, `OwnedWrite` (a write keeps what was there, whether or not the buffer moves);
`Encodes...`, one for each encoder; `Decodes...` and `Refuses...`, one each for each decoder on a
piece that is there and on what is behind the last one; `PieceAdded`, `CallFailed` and
`ReaderTakes`, which put a piece more, a failure and a piece taken into the invariant; one lemma per action.

### Objects

`CoilObjectProofs` and, for the last, `DirectoryProofs`, for any number of sections, names, bytes, regions and headers, any file, any pattern of
failures and short transfers, from `ObjectAssumption`. Each theorem names in its hypothesis the liberties
its client may not take, and no more than its proof needs:

| Theorem | Statement |
|---|---|
| `Invariance` | `Tidy => (Spec => [](TypeOK /\ Shape))` |
| `TypeCorrect` | `Tidy => (Spec => []TypeOK)` |
| `ArraysAreLongEnough` | `Tidy => (Spec => []ArraysLongEnough)` |
| `Ownership` | `Sound => (Spec => []OwnInv)` |
| `Frugality` | `Sound /\ Frugal => (Spec => [](OwnInv /\ Tight))` |
| `NothingIsShared` | `Sound => (Spec => []NothingShared)` |
| `ViewsAreBacked` | `Sound => (Spec => []ViewsBacked)` |
| `NothingIsLeaked` | `Sound /\ Frugal => (Spec => []NothingLeaks)` |
| `NamesAreUnique` | `Neat => (Spec => []UniqueNames)` |
| `SavesAreComplete` | `Whole => (Spec => SaveIsComplete)` |

* `Tidy`: not `create empty after load` and not `unmap partly loaded`, the two after which the sections
  array is too short.
* `Sound`: `Tidy`, and none of `keep views`, `delete partly loaded`, `view of a loaded section`, `view of a file`,
  `map a section`. `object_delete_partly` and the table of liberties show what these break.
* `Frugal`: the count does not wrap (`MaxSections < CountMod`), and mapped objects are not
  converted by unmap or save. Both are needed: with `CountMod = 2` in `object_memory`, and with `NothingLeaks` among the
  properties of `object_views`, TLC finds the sections that are lost.
* `Neat`: `Tidy`, and none of `overwrite`, `no rewind`, `load torn file`. Added to `object_file`, each of the three
  alone brings a name into the directory twice, by way of a file that mixes two saves or lacks headers: `overwrite` as it
  is, `load torn file` when objects are also mapped ("mmap"), `no rewind` when the file is truncated through another
  descriptor than it is written by (`Fd = {f, g}`, `Contents <- One`).
* `Whole`: `Sound`, and none of `no rewind`, `save unloaded`, `update unloaded`, `load torn file`. A save over an older
  file is allowed. Added to `object_overwrite`, each of the four alone makes a save that succeeds incomplete; for
  `save unloaded` that takes two sections (`MaxSections = 2`), for `update unloaded` an empty one (`Contents <- Mixed`).

The argument. `Shape` gives the arrays their lengths: `loaded_count` is at most `section_count`, the sections array, if there is
one, is at least as long as that, without it nothing is loaded, and there are as many headers; it holds of what any file
brings, because load and mmap allocate and read as many headers as the header they read says. `Own` is the strengthening for ownership. `NothingShared` alone is not
inductive: that a hand-over by structure copy leaves one owner needs to know that the slots behind
`loaded_count` are NULL (`Idle`), that what is not owned is a loan from the object's live mapping (`Borrowing`), that owned
regions are live (`Alive`) and that no two owners have the same (`Apart`); `Full`, in `Tight`, adds that every live region has an owner. `OwnInv` is these with the types and `Shape`.
Owners are holders, a slot of the object, a structure of the client or the mapping, and each operation does to them one of
a few things, for which there is a lemma each: it gives a new region to an empty hand or slot (`HandGiven`, `ObjectGiven`), frees
one (`HandReleased`, `SlotReleased`), forgets one that was a loan (`HandEmptied`) or passes one on (`Handover`). `NamesInv` is
`UniqueNames` together with the same of the headers in the file, `NamesIn(file)`, so that names stay unique through
save, failure and load. The folds and recursive functions of the model (offsets are sums of sizes, a save is a sequence
of writes) are reasoned about by `DataProofs`: a property that fails somewhere fails for the first time somewhere.

`SavesAreComplete` needs three facts of the writes of a save. No write but that of the byte itself puts anything where a byte of a
section belongs (`DataInPlace`), because the layout leaves every section a place behind the headers and behind the
sections before it (`OffsetsFacts`, `LayOutSpreads`, `PlacesApart`); every byte is written (`FlattenedHas`); and the last write to a
cell is what the cell holds, whatever the file held before (`DataWritten`, `HeadersWritten`). The conversion a save begins
with moves the bytes of each section and changes none (`UnmapBytes`, `UnmapData`). What is left is that a section
without bytes in memory is one without bytes in its header, so that nothing a header promises is left out, and this is
the invariant: `DirectoryInv` says so of a section in memory, where a short read may have made the section smaller than
its header, and that the file has all the bytes of a section that is not. It holds at every
step, not only at saves, and `OwnInv` is its other half: a load must find the slot it fills NULL. One lemma for each
operation shows it (`CreateDirectory`, `DeleteDirectory`, `LoadFetchedDirectory`, ...), `SavedWhole` the property of a save,
and `OnlySavesSave` that no other step claims to be one.

### Memory

`CoilMemProofs`, for any number of threads, blocks and pages, any page size that
divides the word's modulus, any sizes, from `BufferAssumption` and `MemAssumption`. `Careful` is a
program without `realloc to zero`.

| Theorem | Statement |
|---|---|
| `Invariance` | `Careful => (Spec => []MemInv)` |
| `TypeCorrect` | `Careful => (Spec => []TypeOK)` |
| `NoBlockLost` | `Careful => (Spec => []HeldIsLive)` |
| `MappingsAreExact` | `Careful => (Spec => []MappingsExact)` |
| `FailuresExplained` | `Careful => (Spec => []FailureExplained)` |
| `FatalAlwaysEnds` | `Careful => (Spec => []FatalEnds)` |

`MemInv` is the conjunction of the properties and of one fact more, that no mapping is of a size that wraps to 0
when it is rounded up: mmap(2) refuses length 0. `AlignedSize` is the lemma behind it: the rounded size is
that of the pages that cover the size, or 0.

### What is only model-checked

TLC has checked every theorem's property in the runs above. Only model-checked are:

* the liveness half of `RefinesInstrStream`, that the reader gets everything: liveness is out of the prover's reach;
* `RefinesDirectory`: the refinement of SectionDirectory needs, beside what `SavesAreComplete` rests on, that the bytes of
  a section are the same in the buffer, in the mapping and in the file, for sections that only the file has.

## Not modelled

* NULL-argument checks of the components other than memory: they return before any state changes.
* `coil_strerr`, the text that `coil_log` prints, `coil_get_page_size`: constants and output.
* `file.c` on its own: its calls are modelled where sections and objects make them, with short counts and failures.
* Section type and flags, features, `file_size` and the version: stored, never
  tested, except that the actual size replaces `file_size` on mmap.
* What operations do on a section after its cleanup, or on an object structure
  that was never initialised.
* The FNV-1a hash: names are hashes, and two names that collide are one name for find and create
  (`obj.c:452`), in the code and in the model.
* The contents that `coil_memmove`, `coil_memset` and `coil_memcmp` move or compare: no other part calls them on data a
  property is about.
* Two threads inside one section or object: the library has no locks, and no part of it claims to be safe for that.

## Plan

1. *(done)* SectionBuffer, CoilSection, ByteStream: the section, its refinement and the theorems.
2. *(done)* CoilObject and SectionDirectory: the object, its refinement model-checked, arrays, ownership, names and saving proved.
3. *(done)* InstrFormat, CoilInstr, InstrStream: instructions, liveness, the theorems and the safety half of the refinement.
4. *(done)* CoilMem: memory, last error and log, with threads, and the theorems.
5. Proofs: that CoilObject implements SectionDirectory, one lemma for each action as in ByteStreamProofs. `SavedWhole` is the
   step of a save; `DirectoryInv` has to be extended by what a mapping and the file have in common.
6. A CoilObject on top of CoilSection's buffers, in place of regions.

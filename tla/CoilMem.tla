------------------------------- MODULE CoilMem -------------------------------
(***************************************************************************)
(* What every other part stands on: memory (src/mem.c, mem.h), the last    *)
(* error (src/err.c, src/srcdeps.h) and the log (src/log.c), used by the   *)
(* threads of one program.  A call is one step: what the threads share is  *)
(* the allocator, which is thread-safe, and one integer, the log level.    *)
(*                                                                         *)
(* The program holds the blocks and mappings it was given and gives each   *)
(* back once; it keeps a block when coil_realloc returns NULL, which       *)
(* mem.h calls a failure.  Sizes and alignments are in bytes modulo        *)
(* SizeMod, addresses of mappings in pages.                                *)
(***************************************************************************)
EXTENDS SectionBuffer

CONSTANTS
  Thread,
  PageSize,     \* a power of 2, as is SizeMod
  Pages,        \* the pages mmap can hand out, 0 .. Pages - 1
  MapSizes,     \* the sizes the program maps
  Alignments,   \* the alignments it asks for
  Liberties     \* what the program does that a careful one does not

ASSUME MemAssumption ==
  /\ PageSize \in Nat \ {0}
  /\ SizeMod % PageSize = 0
  /\ Pages \in Nat
  /\ Pages * PageSize < SizeMod
  /\ MapSizes \subseteq Size
  /\ Alignments \subseteq Size

VARIABLES
  heap,       \* the blocks of the heap
  held,       \* the blocks the program believes it has
  mapped,     \* the pages that are mapped
  maps,       \* the mappings the program has, as it asked for them
  coil_last_error,         \* one per thread
  coil_current_log_level,  \* one for the program
  told,       \* per thread: did its last call fail, and on what arguments?
  fatal,      \* has a thread logged a fatal error?
  running     \* is the program still there?

vars == <<heap, held, mapped, maps, coil_last_error, coil_current_log_level,
          told, fatal, running>>
memory  == <<heap, held, mapped, maps>>
logging == <<coil_current_log_level, fatal, running>>

Err   == {"GOOD", "NOMEM", "INVAL", "IO", "FORMAT", "NOTFOUND", "NOTSUP",
          "BADSTATE", "EXISTS", "UNKNOWN"}
FATAL == 3      \* COIL_LEVEL_FATAL, after INFO, WARNING and ERROR

-----------------------------------------------------------------------------
(* Alignment (mem.h); x & ~(alignment - 1) for a power of 2. *)
coil_align_down(value, alignment) == value - (value % alignment)

coil_align_up(value, alignment) ==
  coil_align_down(Minus(Plus(value, alignment), 1), alignment)

(* Mutant: the size is aligned down. *)
AlignedSizeDown(size, alignment) == coil_align_down(size, alignment)

coil_aligned_size(size, alignment) == coil_align_up(size, alignment)

PagesOf(page, size) == page .. page + (size \div PageSize) - 1

-----------------------------------------------------------------------------
(* Mutant: one error code for all threads. *)
ErrorSetShared(t, code) ==
  coil_last_error' = [u \in Thread |-> code]

(* coil_error_set, and COIL_ERROR, which in debug builds also logs. *)
coil_error_set(t, code) ==
  coil_last_error' = [coil_last_error EXCEPT ![t] = code]

(* A call returns to its thread.  zero: an argument was 0 or NULL, or      *)
(* munmap(2) failed, which looks the same to the caller.                   *)
Succeed(t) ==
  /\ told' = [told EXCEPT ![t] = [null |-> FALSE, zero |-> FALSE]]
  /\ UNCHANGED <<coil_last_error, logging>>

Fail(t, code, zero) ==
  /\ told' = [told EXCEPT ![t] = [null |-> TRUE, zero |-> zero]]
  /\ coil_error_set(t, code)
  /\ UNCHANGED logging

Refuse(t) == Fail(t, "INVAL", TRUE) /\ UNCHANGED memory

(* The block of a malloc or calloc of n bytes, if there is one. *)
Allocate(t, n) ==
  \E m \in Malloc(heap, n) :
    /\ heap' = m.heap
    /\ IF m.data = NULL THEN held' = held /\ Fail(t, "NOMEM", FALSE)
       ELSE held' = held \cup {m.data} /\ Succeed(t)
    /\ UNCHANGED <<mapped, maps>>

coil_malloc(t, n) == IF n = 0 THEN Refuse(t) ELSE Allocate(t, n)

(* calloc itself refuses a product that does not fit. *)
coil_calloc(t, nmemb, size) ==
  IF nmemb = 0 \/ size = 0 THEN Refuse(t) ELSE Allocate(t, nmemb * size)

coil_free(t, p) ==
  /\ heap' = IF p = NULL THEN heap ELSE Free(heap, p)
  /\ held' = held \ {p}
  /\ UNCHANGED <<mapped, maps>>
  /\ Succeed(t)

(* Mutant: the old block is freed whether or not there is a new one. *)
ReallocEager(t, p, size) ==
  LET rest == IF p = NULL THEN heap ELSE Free(heap, p)
  IN  \E m \in Malloc(rest, size) :
        /\ heap' = m.heap
        /\ IF m.data = NULL THEN held' = held /\ Fail(t, "NOMEM", FALSE)
           ELSE held' = (held \ {p}) \cup {m.data} /\ Succeed(t)
        /\ UNCHANGED <<mapped, maps>>

(***************************************************************************)
(* coil_realloc.  Size 0 frees the block and returns NULL, and sets no     *)
(* error.  Otherwise realloc: the block may stay where it was, and stays   *)
(* as it was when there is no room.                                        *)
(***************************************************************************)
coil_realloc(t, p, size) ==
  LET rest == IF p = NULL THEN heap ELSE Free(heap, p)
  IN  IF size = 0 THEN
        /\ heap' = rest
        /\ told' = [told EXCEPT ![t] = [null |-> TRUE, zero |-> TRUE]]
        /\ UNCHANGED <<held, mapped, maps, coil_last_error, logging>>
      ELSE \E m \in Malloc(rest, size) :
        /\ heap' = IF m.data = NULL THEN heap ELSE m.heap
        /\ IF m.data = NULL THEN held' = held /\ Fail(t, "NOMEM", FALSE)
           ELSE held' = (held \ {p}) \cup {m.data} /\ Succeed(t)
        /\ UNCHANGED <<mapped, maps>>

(* coil_memcpy, memmove, memset, memcmp: of the contents only the test for *)
(* NULL is of interest here.  memcmp says "equal" when it fails.           *)
MemoryFunction(t, null) ==
  IF null THEN Refuse(t) ELSE Succeed(t) /\ UNCHANGED memory

(* The free runs of pages that mmap(2) of size bytes may return. *)
Room(size) ==
  {page \in 0 .. Pages - 1 :
     /\ size # 0
     /\ PagesOf(page, size) \subseteq (0 .. Pages - 1) \ mapped}

(***************************************************************************)
(* coil_mmap: the alignment is raised to a page and then not used.  A size *)
(* that wraps to 0 is refused by mmap(2).                                  *)
(***************************************************************************)
coil_mmap(t, size, alignment) ==
  LET aligned == coil_aligned_size(size, PageSize)
  IN  IF size = 0 THEN Refuse(t)
      ELSE \/ /\ Fail(t, "NOMEM", FALSE)
              /\ UNCHANGED memory
           \/ \E page \in Room(aligned) :
                /\ mapped' = mapped \cup PagesOf(page, aligned)
                /\ maps' = maps \cup
                     {[page |-> page, size |-> size, alignment |-> alignment]}
                /\ Succeed(t)
                /\ UNCHANGED <<heap, held>>

(***************************************************************************)
(* coil_munmap with the size that was asked for.  munmap(2) may fail: it   *)
(* may have to split what the kernel has merged.  The mapping stays, and   *)
(* the error is the one for a bad argument.                                *)
(***************************************************************************)
coil_munmap(t, m) ==
  \/ /\ mapped' = mapped \ PagesOf(m.page, coil_aligned_size(m.size, PageSize))
     /\ maps' = maps \ {m}
     /\ Succeed(t)
     /\ UNCHANGED <<heap, held>>
  \/ Refuse(t)

(* The client sets, or resets, its own last error. *)
ErrorSet(t, code) ==
  /\ coil_error_set(t, code)
  /\ told' = [told EXCEPT ![t] = [null |-> FALSE, zero |-> FALSE]]
  /\ UNCHANGED <<memory, logging>>

(* Mutant: any level is taken. *)
SetLevelAny(t, level) ==
  /\ coil_current_log_level' = level
  /\ UNCHANGED <<memory, coil_last_error, told, fatal, running>>

(* coil_log_set_level: a level above FATAL is ignored. *)
coil_log_set_level(t, level) ==
  /\ coil_current_log_level' =
       IF level <= FATAL THEN level ELSE coil_current_log_level
  /\ UNCHANGED <<memory, coil_last_error, told, fatal, running>>

(* coil_log: what is below the threshold returns at once; FATAL ends the   *)
(* program.                                                                *)
coil_log(t, level) ==
  /\ running' = ~(level >= coil_current_log_level /\ level = FATAL)
  /\ fatal' = (level = FATAL)
  /\ UNCHANGED <<memory, coil_last_error, told, coil_current_log_level>>

-----------------------------------------------------------------------------
Init ==
  /\ heap = [a \in Addr |-> NoImage]
  /\ held = {}
  /\ mapped = {}
  /\ maps = {}
  /\ coil_last_error = [t \in Thread |-> "GOOD"]
  /\ coil_current_log_level = 0
  /\ told = [t \in Thread |-> [null |-> FALSE, zero |-> FALSE]]
  /\ fatal = FALSE
  /\ running = TRUE

Blocks(t) ==
  \/ \E n \in 0 .. MaxAlloc + 1 : coil_malloc(t, n)
  \/ \E nmemb, size \in 0 .. MaxAlloc : coil_calloc(t, nmemb, size)
  \/ \E p \in held \cup {NULL} :
       \/ coil_free(t, p)
       \/ \E n \in 0 .. MaxAlloc + 1 :
            /\ n # 0 \/ "realloc to zero" \in Liberties
            /\ coil_realloc(t, p, n)
  \/ \E null \in BOOLEAN : MemoryFunction(t, null)

Mappings(t) ==
  \/ \E size \in MapSizes, alignment \in Alignments : coil_mmap(t, size, alignment)
  \/ \E m \in maps : coil_munmap(t, m)
  \/ Refuse(t)      \* coil_munmap of NULL

Reporting(t) ==
  \/ \E code \in {"GOOD", "IO"} : ErrorSet(t, code)
  \/ \E level \in 0 .. FATAL + 1 :
       coil_log_set_level(t, level) \/ coil_log(t, level)

Calls(t) == running /\ (Blocks(t) \/ Mappings(t) \/ Reporting(t))

(* The program has left by exit(3). *)
Exited == ~running /\ UNCHANGED vars

Next == (\E t \in Thread : Calls(t)) \/ Exited

Spec == Init /\ [][Next]_vars
-----------------------------------------------------------------------------
(***************************************************************************)
(* Properties                                                              *)
(***************************************************************************)

(* Every variable has its type; blocks and mappings are bounded by what    *)
(* the system has.                                                         *)
TypeOK ==
  /\ heap \in [Addr -> Image]
  /\ held \subseteq Addr
  /\ mapped \subseteq 0 .. Pages - 1
  /\ maps \subseteq [page : 0 .. Pages - 1, size : MapSizes, alignment : Alignments]
  /\ coil_last_error \in [Thread -> Err]
  /\ coil_current_log_level \in 0 .. FATAL
  /\ told \in [Thread -> [null : BOOLEAN, zero : BOOLEAN]]
  /\ fatal \in BOOLEAN
  /\ running \in BOOLEAN

(* A program that keeps its block whenever coil_realloc returns NULL       *)
(* neither leaks a block nor keeps a pointer to one that is gone, whatever *)
(* calls fail in whatever thread.                                          *)
HeldIsLive == held = Allocated(heap)

(* The pages that hold the bytes asked for. *)
Covered(m) == m.page .. m.page + ((m.size + PageSize - 1) \div PageSize) - 1

(* A mapping is at least as long as was asked for, although sizes are      *)
(* rounded up in a type that wraps; mappings do not overlap; and munmap    *)
(* with the size that was asked for gives back all of a mapping and        *)
(* nothing of another.                                                     *)
MappingsExact ==
  /\ mapped = UNION {Covered(m) : m \in maps}
  /\ \A m1, m2 \in maps : m1 # m2 => Covered(m1) \cap Covered(m2) = {}

(* A thread that is told NULL finds the reason of that very call in        *)
(* coil_error_get_last, whatever other threads did in between: INVAL for a *)
(* 0, a NULL or a failed munmap, NOMEM for what the system has not got.    *)
FailureExplained ==
  \A t \in Thread :
    told[t].null =>
      coil_last_error[t] = IF told[t].zero THEN "INVAL" ELSE "NOMEM"

(* A fatal error ends the program, whatever threshold any thread has set,  *)
(* and nothing else does.                                                  *)
FatalEnds == running <=> ~fatal

(* A mapping begins at a multiple of the alignment asked for.              *)
AlignmentHonoured ==
  \A m \in maps : (m.page * PageSize) % m.alignment = 0
=============================================================================
